# A TLA+ model of JurisMindAI (tradegraph)

The modules here describe the part of the repository that has state worth
arguing about: research jobs and the processes that share them, the way a run
turns retrieved passages into cited claims, the fetching, parsing and chunking
of documents and their ingestion into three stores, retrieval with reranking,
and the browser tab that watches a job. They are checked with TLC on small
instances, and the properties that matter most are proved with TLAPS for every
value of the constants. Paths below are relative to `src/tradegraph/`.

## 1. Inventory

| Component | State it keeps | Operations | Talks to |
|---|---|---|---|
| Job API (`apps/api/routers/jobs.py`) | rows of `research_jobs` and their children | create, get, list, delete, stream | PostgreSQL, broker |
| Broker and Celery settings (`src/core/celery_app.py`) | one message per job | publish, hand out, acknowledge, restore | API, workers |
| Worker task (`src/graph/tasks.py`) | one long session per run, short sessions for progress and failure | `run_research_task` | PostgreSQL, pipeline |
| Research pipeline (`src/graph/pipeline.py`, `nodes.py`, `schemas.py`) | lists of a run, then claims, evidence, citations, report rows | `run_research`, `_research_sub_question` | retriever, language model, PostgreSQL |
| Hybrid retrieval (`src/rag/hybrid/`) | nothing between searches | `search` | embedder, Qdrant, reranker |
| Reranker service (`apps/reranker/main.py`) and its client | nothing between requests | `rerank` | language model |
| Model and embedding clients (`llm_client.py`, `ollama_embedder.py`) | a connection | structured generation, embedding, retries | Ollama |
| Ingestion (`src/rag/ingestion/pipeline.py`, `dedup.py`, `india_code.py`) | documents, chunks, objects, points | `ingest_filing`, `ingest_constitution_part` | object store, PostgreSQL, Qdrant |
| Parsing and chunking (`parser.py`, `india_code.py`, `chunker.py`) | the open section of a loop | sections, tables, articles, windows | ingestion |
| SEC EDGAR client (`sec_edgar.py`) | time of the last request, cached ticker map | list, fetch, retries, rate limiter with its lock | HTTP |
| Citation graph (`src/rag/graph/`, `routers/citation_graph.py`) | nodes and edges in Neo4j | upsert, neighbours | Neo4j |
| Prompts (`src/prompts/`, `prompt_runner.py`) | prompt files read at start-up | load, validate, run | language model |
| Web workspace (`apps/web/src/`) | query cache, bookmarks in localStorage, notifications, event stream | watch, bookmark, delete, notify | API |
| Schema, configuration, metrics, migrations | declarations | | everything |
| `src/agents`, `cache`, `mcp`, `quant`, `evaluation`, `tools` | empty packages | | |

What is hard in each, and what makes it correct:

- **Jobs.** The row is committed before its message is sent, the task runs in
  another process with late acknowledgement, a long transaction stays open for
  minutes while two kinds of short ones write the same row, and a DELETE may
  come at any time. Correct means that no job is forgotten, that one worker at
  a time runs it, that what a client is shown is whole, that a deletion leaves
  nothing behind and that nobody waits for a lock for ever.
- **Evidence.** The model names passages and evidence by number and may name
  numbers that do not exist; the numbers are renumbered twice. Correct means
  that each stored citation points at the passage it was judged on, that the
  report follows from the verdicts, and that missing evidence is declared.
- **Ingestion.** Three stores without a common transaction, written by
  concurrent workers. Correct means that a published document is whole, that
  content is indexed once, and that versions form a chain.
- **Retrieval.** Batches, attempts, retries and a fused ranking. Correct means
  that a score stays with its passage, that the cut is global, and that "nothing
  found" is never said of a failure.
- **Fetching, parsing, chunking.** Threads share a limiter that sleeps while it
  holds its lock; sections and articles end where the next header begins; windows
  overlap. Correct means that requests keep their distance, that no text is lost
  or stands under another's header, and that the windows cover a section.
- **Web workspace.** A stream that reconnects from the start, a cache that is
  invalidated by events and filled by answers of any age, deletions by this tab
  and by others. Correct means that a finished job is eventually shown as such,
  that the progress on the page is the job's, and that a deleted job does not
  come back.

The hazards are listed one by one, with their lines, in `PROJECT.json`.

## 2. The modules

| Module | Role |
|---|---|
| `JobLifecycle` | API, broker, workers and the shared rows, composed |
| `JobService` | abstract: what the API promises a client about a job |
| `JobLifecycle_proofs` | type correctness, the safety theorems, the refinement of `JobService` |
| `EvidenceChain` | one run of `run_research`, from passages to rows |
| `ResearchRun` | abstract: a run as `JobLifecycle` sees it |
| `EvidenceChain_proofs` | every invariant of the chain, and the refinement of `ResearchRun` |
| `Ingestion` | concurrent ingestion calls and the three stores |
| `Corpus` | abstract: what the document table promises |
| `Ingestion_proofs` | type correctness, safety, refinement of `Corpus` |
| `EdgarClient` | threads sharing one SEC client and its rate limiter |
| `DocumentText`, `FilingIntake` | one document from its text to its chunks; composed with the client |
| `EdgarClient_proofs`, `DocumentText_proofs`, `FilingIntake_proofs` | types, spacing of requests, what parsing keeps, windows; carried over to the composition |
| `Retrieval` | one hybrid search and the reranker service |
| `PassageSearch` | abstract: a search as `EvidenceChain` sees it |
| `Retrieval_proofs` | every invariant of a search, and the refinement of `PassageSearch` |
| `Workspace` | a browser tab, its event stream and the server's end of it, over `JobService` |
| `Workspace_proofs` | every invariant of the tab |
| `MCJobLifecycle`, `MCEvidenceChain`, `MCRetrieval`, `MCFilingIntake` | constants and symmetry for TLC |

They fit together by abstraction. `JobLifecycle` lets a run write claims, give
an answer, declare insufficiency or fail; `EvidenceChain` is shown to be such a
run (`ImplementsRun`). `EvidenceChain` lets a search return any short list of
different passages, an empty one included, or fail; `Retrieval` is shown to be
such a search, and more: its answer is empty only if nothing was found
(`ImplementsPassageSearch`). A job's view through the API is shown to be a
`JobService` (`ImplementsService`), the document table a `Corpus`
(`ImplementsCorpus`). `Workspace` is the client of a `JobService`: it takes the
abstract service as its server, so that what it shows holds of every lifecycle
that implements the service. `FilingIntake` is what comes before `Ingestion`,
which only sees the number of chunks.

### JobLifecycle

`jobs`, `reports` and `claims` are the committed rows. A POST is two actions
(`CreateJob` commits, `EnqueueJob` sends), a DELETE three (`DeleteCheck` reads
the status, `DeleteSelect` the children, `DeleteCommit` deletes what was
selected), because other processes run in between. A message is `none`,
`queued` or `unacked`; `Redeliver` restores an unacknowledged one, when its
worker is dead or when the visibility timeout passes although it is not.

A worker goes through the steps of `_run_research_job`: `FetchJob`,
`FlipToRunning`, `SetUpClients`, `BeginResearch`, `FlushRunning`,
`ReportProgress`, `WriteClaims`, then `DeclareInsufficient` or `FinishReport`,
or `ResearchFails` and `MarkFailed`, and `AckMessage`. `snap` is the object its
session loaded; `Save` writes what SQLAlchemy would, the changed columns only.
Row locks are no variables: `HoldsRow`, `HoldsKey` and `Inserting` say what a
long transaction holds at the step its worker is at. The progress callback and
the failure handler have sessions of their own and are one action each; the
change to RUNNING is two steps because another process may write between the
read and the commit. Reports are numbered by the start of their transaction,
which is what `created_at` records.

`Faults` says what may go wrong inside the code (`enqueue`, `setup`,
`research`, `handler`); `MaxCrashes` bounds the workers killed in the middle of
a task and `MaxTimeouts` the messages handed out again while their worker
lives. Both are environment bounds, nothing in the code counts them.

### EvidenceChain

A state machine of one run: `Decompose`, then for each sub-question `Retrieve`,
`Extract`, `Verify`, `DetectContradictions`, each of which may end it in a gap,
then `Synthesize` and for each drafted claim `StartClaim`, a `Cite` per citation
and `FinishClaim`, then `Report`. `Fail` stands for every exception. What the
model answers is a nondeterministic choice over `Indices`, which reach one below
and one above what exists. Texts are left out: an item is its number, and a
claim's text is known by where it comes from: the draft (`DraftText`), or the
citation whose `rewritten_claim` it is, by its number, so that two REWRITEs of one
claim are two texts. An empty draft text, which the schema does not exclude and
`if accepted_text` (pipeline.py:337) would not ship, is not told apart.
`persisted` is `persisted_evidence_by_index`,
`evidenceRows` and `links` the rows it leads to. The citation loop zips the
indices a draft names with those of them that exist: `pair` counts along the
former, `place` is where along the draft the latter have got to.

### Ingestion

Each worker in `Runs` runs one call at a time: the hash gate (`StartFiling`; a
Constitution Part, `StartPart`, has none), the raw object (`PutObject`), the
version (`DetermineVersion`), the flush of the document row (`Flush`), the
upsert (`IndexFiling`, `IndexPart`, or `IndexFails`, carried out or not), the
caller's commit (`Commit`) or any failure (`Abort`). A content hash is the
content itself. The fresh uuid4s of documents and chunks are the number of the
call. The flush of a row with a hash that another transaction has inserted and
not committed waits for it, and fails on a committed one; that is the unique key
of `documents`. The caller's commit and rollback are external.

### Retrieval

`EmbedQuery`, then `Search`, which takes any hits of the two arms, fuses them
and cuts them to the candidates. `RrfScore` is an exact fraction; `MetBefore` is
the order in which the loops of the fusion first meet the points, which decides
ties (`Precedes`) because Python's sort is stable. `Fusions` are the sequences of
the found points in that order: there is one. Then the service: batches,
attempts and transient retries (`ScoreOnce`, `LLMRetries`, `ScoreFails`), and
`Respond`. `byIndex` is a function from an index to its score and to the place
in the answer that first named it, which is what the insertion order of
`by_index` comes down to (`InsertedBefore`: batch after batch, and in the order
of the answer) and decides ties again (`Better`, `Rankings`). `judged` is a
history variable: which score the model gave which passage. Fractions are exact
here and floats in the code; for ranks up to 50 different sums are far more than
a rounding error apart, and only an exact tie of different sums could be decided
by rounding there and by insertion here.

### EdgarClient, DocumentText and FilingIntake

A thread in `EdgarClient` lists the filings of a company (`ListFilings`; the
ticker map is asked for unless it is cached) and goes on with what it gets
(`GotTickers`, `GotSubmissions`, `GotDocument`), retries a transport error
(`TransportError`, `Retry`) or raises (`RequestFails`). Before each attempt it
passes `_RateLimiter.wait`: `Enter` takes the lock and reads the clock, `Grant`
reads it again after the sleep and leaves. Time is a count of ticks (`Tick`);
clock readings are ages, cut off at the interval. What is spaced is the leaving
of the limiter: the request itself is sent when the thread next runs, and
nothing in the code keeps two of those from bunching.

`DocumentText` follows one text. A filing is a sequence of atoms, one per element
with text (`FilingAtom`); `ExtractTables` takes its tables out (a table is the
sets of its header and body rows, whose order nothing changes), then `ReadHeader`
and `ReadBlock` are the loop of `_extract_sections` and `EndFiling` its end.
A nested element repeats the text of its parent, which is one more possible
sequence of blocks; text outside the tags the parser looks for is lost before
this model begins. A Part is a sequence of markers, headings and characters
of body text, ASCII (`clean`) or not (`dirty`), a replacement character being ASCII
because a body turns it into " - " first: `SlicePart` cuts at the markers, `KeepArticles` chooses
the headings, `CutArticle` cuts one article before the first contaminated window
(`IsCut`, `IsContaminated`: the ratio of the code, with its short windows at the
end), `EndPart` closes. Whether a truncated article falls below 20 characters
depends on its blanks, which are left out, so it may be dropped or kept. A heading
is one atom, its title included. Sections of both are cut into windows by
`ChunkWhole` and `ChunkWindow`; an atom counts for one token.

`FilingIntake` puts the two together. A text is private to its call, so one text
is followed, after the requests of all threads.

### Workspace

The server is `INSTANCE JobService` without lost workers, with a progress counter
beside it. `stream[j]` is both ends of an EventSource: its connection, what the
generator of `stream_job` has sent last, and the events on their way.
`Connect`, `ConnectFails`, `Drop` are the connection, `Poll` is a round of
`stream_job`, `OnProgress`, `OnStatus` and `OnError` are the handlers of
`ResearchRoute`. `query[j]` is the cache entry of `useJob`: its data, a fetch
under way (sent, or with the answer it carries) and an error; `Started`,
`Invalidated`, `Mounted` say what TanStack Query does and are external.
`Submit`, `Visit`, `Leave`, `ConfirmDelete` are the user, `Submitted` and
`Deleted` the callbacks of the two mutations, `Delete` the route of the server.
`forgotten` is a history variable.

## 3. Runs

| Run | What it asks |
|---|---|
| `job_any_fault` | every fault, two crashes, a timeout: types, a SUCCEEDED job has its report, deletions leave no rows |
| `job_crash` | crashes with late acknowledgement: nothing is lost, one worker per job, no worker waits for itself, every job finishes, every task ends, and the whole is a `JobService` |
| `job_setup_fails` | *violated*: a failure before the inner `try` leaves the job RUNNING |
| `job_deleted_in_flight` | *violated*: after a crash between commit and acknowledgement, a finished job is run again and deleted while it is |
| `evidence_chain` | sub-questions, contradictions, claims, citations and verdicts, with indices that may not exist |
| `evidence_misfiled` | *violated*: an index that does not exist misfiles the evidence after it |
| `ingestion_concurrent` | two workers, all failures: whole documents, content indexed once, `Corpus`, no endless wait |
| `ingestion_orphan` | *violated*: points stay in Qdrant whose rows were rolled back |
| `filing_intake` | two threads on one client, then every small filing and Part: spacing, coverage, headers, contamination, termination |
| `article_absorbed` | *violated*: the text under a dropped heading is appended to the article before it |
| `retrieval` | fusion, batches, attempts: scores, ranking, `PassageSearch` |
| `workspace` | lost connections, refused streams, failing requests, deletions by others: progress in order, the outcome shown, no refused deletion, nothing deleted comes back |

The five violations are listed as findings with the lines that promise
otherwise.

**Bounds.** One or two jobs and two workers are enough for every pair of writers
of a row: two runs of one job, a run and a delete, two jobs competing for
workers. `job_any_fault` has one job with two workers, two crashes and a
timeout, so that three runs of a job meet; `job_crash` has two jobs so that a
worker may be needed by another. Two sub-questions are needed for an index
offset, two items for a wrong passage, two claims with two indices for a
misfiled one to reach a later claim. Two ingestion workers with three calls
over two identities and three contents give a chain of three versions, a race
for one content and a race for one version. Filings have up to six blocks and
Parts up to four atoms between their markers, over two names: several sections,
headers in a row, a repeated article and a dropped one behind a kept one; chunks
of three with an overlap of one, of two with none, and an overlap as long as the
chunk. The window of the contamination check is 3 steps, as in the code (60
characters by 20): 6 characters by 2, of which one in three may be undecodable,
so that two strays pass in a full window and one is too much in the last; bodies
reach to 9 characters, past the window at every start. The interval of the limiter is two ticks, so that other
threads may come while one sleeps, and there are three attempts as in the code.
In `retrieval` the limit of an arm is 3 with RRF_K = 2, the largest that its
assumption allows; three candidates in batches of two make a full and a short
batch; two attempts are a first and a last one, and the third of the code
repeats the first two; answers of two scores over indices -1 to 2 include
duplicates and every kind of wrong index. `workspace` has one job, because jobs
share only the page: `Elsewhere` stands for every page but this one. Two
progress lines make an order and a repetition; two lost connections in one visit
let a stream fail again while it recovers.

**Deadlock** is not checked: every one of these systems stops when its work is
done.

**Fairness.** Four specifications have it. `JobLifecycle!FairSpec` asks that a
running worker goes on (`TaskStep`, without its faults), that queued messages
are taken, that a created job is enqueued and that unacknowledged messages are
restored: a running worker process, a consuming Celery worker, the code that
follows the commit in `create_job`, and the broker's visibility timeout. Nobody
has to create or delete a job, nothing has to fail. `Ingestion!FairSpec` asks
that a running call goes on. `FilingIntake!FairSpec` asks that time goes on,
that a thread in a call is run, and that the loops over a text are.
`Workspace!FairSpec` asks that jobs go on (what `EveryJobFinishes` shows of the
lifecycle), that requests and connections are answered or fail, that the
generator polls and that the browser handles its events; the user, refetches,
lost connections and other clients owe nothing. All of it is weak fairness.

## 4. Theorems

| Theorem | Assumes |
|---|---|
| `JobLifecycle_proofs!TypeCorrect`: `TypeOK` | |
| `JobLifecycle_proofs!RowsAgree`: a SUCCEEDED job has a report, a missing job no children; `NoOrphans`: the latter alone | |
| `JobLifecycle_proofs!CrashesKeepOneWorker`: `OneWorkerPerJob` | `MaxTimeouts = 0` |
| `JobLifecycle_proofs!NoWorkerWaitsForItself`: `NoSelfDeadlock` | `MaxTimeouts = 0` |
| `JobLifecycle_proofs!NoJobIsLost`: `NoLostJob` | only the research fails; no crashes or no timeouts |
| `JobLifecycle_proofs!ServiceIsImplemented`: the refinement of `JobService` | `MaxTimeouts = 0` |
| `JobLifecycle_proofs!DeletionsWait`: `DeletedOnlyWhenFinished` | `MaxCrashes = MaxTimeouts = 0` |
| `EvidenceChain_proofs!TypeCorrect`, `SubQuestionsAccounted`, `ContradictionsKeepTheirEvidence` | |
| `EvidenceChain_proofs!ClaimsAreCited`, `LinesAreTheVerdicts`, `OutcomeIsHonest` | |
| `EvidenceChain_proofs!ChainIsIntact`: `ChainIntact`, whose condition is that drafts are aligned | |
| `EvidenceChain_proofs!ImplementsResearchRun`: the refinement | |
| `Ingestion_proofs!TypeCorrect`, `SucceededWhole`, `IndexedOnce` | |
| `Ingestion_proofs!IngestionImplementsCorpus`: the refinement | |
| `EdgarClient_proofs!ClientTypeCorrect`, `LimiterSpacesRequests` | |
| `DocumentText_proofs!TextTypeCorrect`, `EverySectionIsCovered`, `WindowsAlwaysTile` | |
| `DocumentText_proofs!NothingIsSkipped`: `NothingIsLost`; `SectionsUnderTheirHeader`: `SectionsKeepToTheirHeader`; `NoRunIsKept`: `NoContaminatedRun` | |
| `FilingIntake_proofs!IntakeTypeCorrect`, `IntakeSpacesRequests`, `IntakeCovers`, `IntakeKeepsTheText`: the same of the composition | |
| `Retrieval_proofs!ConsensusWins`; `FusionIsRespected`: `FusionRespectsArms` | the limit of an arm is at most `RRF_K + 1` (50 and 60 in the code) |
| `Retrieval_proofs!TypeCorrect`; `ScoresStayTheirs`: `ScoresBelong`; `RankingIsGlobal`: `GloballyRanked` | |
| `Retrieval_proofs!PromiseIsKept`: the refinement of `PassageSearch` | |
| `Workspace_proofs!TypeCorrect`; `LogFollows`: `LogFollowsTheJob` | |
| `Workspace_proofs!DeletesGoThrough`: `DeletesAreAccepted`; `DeletedStaysForgotten`: `DeletedIsForgotten` | |

The assumptions on constants beside these are the named ones of the modules:
bounds are natural numbers, faults are known faults. The assumptions of the job
theorems are needed: TLC finds `NoLostJob` violated with a fault at `enqueue`,
`setup` or `handler` and with a crash combined with a timeout,
`NoSelfDeadlock` and `ImplementsService` with a timeout alone, and
`DeletedOnlyWhenFinished` with a crash (the run `job_deleted_in_flight`). The
theorems about `Retrieval` rest on one invariant and so share the assumption on
the limit of an arm, which `FusionRespectsArms` needs.

**Arguments.** Each property is proved from an invariant that every step keeps,
relative to the type invariant.

- *Types* (`TypeInv`): `TypeOK`, and that a worker about to change its job has
  loaded a row of it, or inserts one.
- *Rows* (`RowsInv`): the two properties together. SUCCEEDED is only committed
  with a report, and a row only disappears in a delete whose foreign keys let it
  go.
- *One worker* (`ExclusiveInv`): no two workers have the same job, a job has a
  worker only while its message is unacknowledged, and a message only once it
  was enqueued.
- *Custody* (`CustodyInv`): `NoLostJob`, with `ExclusiveInv` where no message
  times out: a crash takes a worker away but leaves its message to be restored,
  and nobody else is running the job.
- *Locks* (`CleanInv`): what a worker has loaded by its first flush says RUNNING
  already, or the row is gone, so that the flush changes nothing and the long
  transaction never holds the row.
- *Promise to a client* (`OutcomeInv`): a row and the run that writes it fit
  together. A PENDING row carries no outcome, and reports come from runs that
  have begun (`RowFits`); a run that writes finds the flags it loaded, and its
  report will be the latest (`RunFits`). Then what a commit shows is one step of
  `JobService`, and what only the worker sees is none. Before the first crash,
  moreover, a job is queued only while it is PENDING (`RowIsRunOnce`, `RunIsOnly`):
  no run starts on a finished job, so that a DELETE which found it finished meets
  no writer.
- *Sub-questions* (`SubInv`): kept items belong to the sub-question under way and
  point into its passages. It reaches the contradictions only with a kept item,
  and what joins then joins behind the offset.
- *Rows of a run* (`RowInv`): an index is filed under a row that exists, and the
  citation filed next is never beyond the evidence it is zipped with.
- *Report of a run* (`OutcomeInv`): the text and the mark of the claim being cited
  stand for the citations so far (`OpenClaim`): nothing while all of them drop it,
  else the words of the last that rewrote it. Earlier claims are reported. This
  also gives the refinement: without claims there are no lines.
- *Chain* (`ChainInv`): while drafts are aligned, `pair` is always `place + 1`, so
  that evidence is filed under its own index and every later claim finds it there.
- *Ingestion* (`IInv`): call numbers are fresh (`FreshIds`); a content is held by
  one transaction or one document (`ContentHeld`); a draft follows a committed
  version, has its object, and has its points before the commit (`Prepared`).
- *Limiter* (`LimiterInv`): whoever sleeps in the limiter holds its lock, so that
  nobody moves the time of the last request meanwhile, and what is left of the
  sleep completes the interval.
- *Parsing* (`ParseInv`): the atom the parser has reached divides the document.
  The text before it stands in a section or is among the lines collected under
  the last header passed (`CurrentSection`, `TextPlaced`), so that a section ends
  before the next header (`Headed`). The latter is claimed of texts all of whose
  article headings are kept; the run `article_absorbed` shows what a dropped one
  does. An article is cut before the first of its windows that is contaminated, and
  whatever stretch begins in what is kept, the last window that starts at or before
  it passed, and contains it if it is at most a window less a step and one character
  long (`NoContaminatedRun`, `LastStart`).
- *Windows* (`TextInv`): sections point into the text (`DocumentOK`, `InOrder`);
  the window before the next one is there, ends short of the section's end, and
  everything up to its end is covered (`WindowsSoFar`). The next window then has
  a token of its own, and it is the last exactly when it reaches the end.
- *Composition*: each step of `FilingIntake` is a step or a stutter of both
  halves, so that it inherits their theorems.
- *Search* (`SearchInv`): each stage works on what the ones before it left
  (`InOrder`); the candidates are different points that were found; a score that
  is merged, or waits in the answer of the current batch, is on record in
  `judged` for the very candidate it stands at (`ScoresKept`), because the check
  of an index keeps it inside its batch. The fusion respects the arms because two
  shares of at least 1/(2k+1) exceed one of at most 1/(k+1), and because a sum
  grows with each of its shares; a finite set has an order for each ranking, so
  that the answer is empty only if nothing was found.
- *Deletions* (`DeletionInv`): news of a finished job stays true however old it
  is, since a finished job only changes by being deleted. A tab that may delete
  has such news; and once its deletion has succeeded, no request whose answer
  carries the job is under way.
- *Progress log* (`StreamInv`, `LogInv`): what a connection has still to deliver
  is in order and continues the log. It can repeat one line, the last, when the
  generator starts over; whether this connection still may is `MayRepeat`, and
  the lost connection that allowed it pays for it.

**Model-checked only.** Every safety property and every refinement that a
passing run checks is also proved. What TLC alone shows is liveness
(`EveryJobFinishes`, `EveryTaskEnds`, `EveryCallEnds`, `EveryIngestionEnds`,
`PageCatchesUp`), which the prover cannot do under fairness.
The refinements are of safety: the abstract specifications state no fairness.

## 5. What the models say about the code

Beside the findings:

- After a redelivery of a finished job, its first `error_message` or
  `insufficient_evidence` stays beside the outcome of the second run, and claims
  of two runs can be shown together; nothing clears them.
- A message that times out while its worker lives makes two workers run one
  job, and the second may wait for the first in `on_progress`.
- Two amendments ingested at once both become the successor of the same version:
  the chain forks, it has no gap.
- `ingest_constitution_part` has no hash gate and hashes the whole PDF: a second
  Part of a PDF fails on the unique key after storing the object again.
- A claim that two citations rewrite ships in the words of the last one only, though
  each REWRITE restates it to what its own evidence shows
  (docs/08-evidence-citations.md): the earlier restatement is in its citation row
  and nowhere in the report. A REMOVE after a REWRITE takes nothing back.
- `_truncate_at_contamination` keeps "the longest ASCII-clean prefix" only roughly. A
  window passes with one character in ten undecodable: of any 41 characters of a
  section that follow each other, six may be. And the cut is made at the start of
  the contaminated window, so that up to 53 clean characters before the run go with
  it. In a last window of fewer than ten
  characters a single accented one is enough to cut it off.
- A claim that repeats an index fails the whole job on the key of
  `claim_evidence`.
- When the model answers every batch but names no existing passage, the
  reranker's assertion fails instead of the 502 it means to return.
- A batch whose attempts all fail leaves the answer without a word; its
  candidates are neither returned nor reported.
- Chunks are told apart by section name and index (chunker.py:70-74), and a filing
  may have two sections of one name.
- Threads that find the ticker map missing at the same time all ask for it.
- A first GET of a job that is under way when the final status arrives is joined,
  not replaced: an older answer leaves the page on its progress view, with its
  stream closed. `PageCatchesUp` starts from pages that have data.
- An EventSource that is answered with an error status is never opened again
  (`refused`), so the page depends on other refetches from then on.
- The callback of a POST takes the user to the new job from wherever they are by
  then, and the callback of a deletion may lead to the history from the page of
  another job.
- A notification is recorded whenever a finished job is loaded, an old one
  included. A job that finishes while its page is not shown is not noticed until
  it is opened, while notifications.ts:8-12 speaks of every completion.

## 6. Not modelled

- *Citation graph*: single Cypher statements and a read-only route; nothing in the
  repository loads the graph.
- *Prompts*: validated at start-up and read-only from then on.
- *Schema, configuration, metrics, migrations*: declarations. The constraints that
  matter (foreign keys, unique hash, key of `claim_evidence`) are in the modules
  that meet them.
- *Empty packages*.
- Of the clients: batches of embeddings and the dimension check.
- Of the web workspace: the bookmarks, which every component and tab copies and
  writes as a whole, so that what they promise does not hold of two components of
  one tab, and on which nothing else depends; the history list and its deletions;
  the cap and the unread count of the notifications; `liveStatus`, which only
  changes a label. A user who deletes a job before its POST is answered is left
  out. So is a second DELETE of a job while the first is under way, which takes
  leaving its page and returning to it, and which is answered with 404 once the first
  has been carried out. Lost workers are left out, too: `job_crash` covers them on the
  server's side.
- GET /jobs and the health endpoint only read.

Texts, prompts, vectors, filters, regular expressions, HTML and PDF decoding, the
tokeniser, logging and layout are abstracted everywhere.

## 7. Plan

The modules were written in the order of what they protect: jobs, evidence,
ingestion, retrieval, then the intake and the workspace. What could follow:

1. The history list and bookmarks in two tabs, beside `Workspace`.
2. Theorems: what remains of the job promises when a message times out under a
   live worker, where the theorems above assume `MaxTimeouts = 0`.
3. `Ingestion` with the chunks of `DocumentText` in place of their number.
