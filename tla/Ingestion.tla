------------------------------ MODULE Ingestion ------------------------------
(***************************************************************************)
(* Ingestion: ingest_filing (src/rag/ingestion/pipeline.py), its versions  *)
(* (dedup.py) and ingest_constitution_part (india_code.py), run by several *)
(* ingestion workers into three stores that share no transaction: the      *)
(* object store, PostgreSQL and Qdrant. Begin and commit are the caller's: *)
(* a call that raises is rolled back, and may be tried again.              *)
(*                                                                         *)
(* A content hash is the content; parsing, chunking and embedding are the  *)
(* number of chunks that come out of them.                                 *)
(***************************************************************************)
EXTENDS Naturals, FiniteSets

CONSTANTS
    Runs,         \* ingestion workers
    Identities,   \* (ticker, document type, filing date) of a filing
    Contents,     \* raw bytes, of filings and of the Constitution's PDF
    MaxChunks,    \* bound: chunks of one document
    MaxAttempts   \* bound: calls over the whole behaviour

ASSUME BoundsAssumption == MaxChunks \in Nat /\ MaxAttempts \in Nat

VARIABLES
    documents,   \* committed rows of documents, all SUCCEEDED
    chunkRows,   \* committed rows of chunks
    points,      \* points of the Qdrant collection
    objects,     \* contents in the raw-document bucket
    pc,          \* the step of a worker's call
    draft,       \* the document its open transaction is building
    attempts     \* calls started so far; a call's number names what it creates

vars == <<documents, chunkRows, points, objects, pc, draft, attempts>>

\* Where a source comes from decides which of the two pipelines it takes. A Part
\* of the Constitution has an identity as well, but nothing looks it up.
Kinds == {"filing", "part"}

NoDraft == [id |-> 0]

Draft == [id         : 1 .. MaxAttempts,
          kind       : Kinds,
          identity   : Identities,
          content    : Contents,
          version    : Nat,
          supersedes : 0 .. MaxAttempts,
          chunks     : 0 .. MaxChunks]

\* The uuid4 of a chunk, and what its row and its point record.
ChunkIds(d) == [document : {d.id}, index : 0 .. d.chunks - 1, text : {d.content}]

InTransaction == {"index", "commit"}

Goto(r, step) == pc' = [pc EXCEPT ![r] = step]

\* Mutant: the session of the call that failed is used again as it is.
Rollback_KeepsDraft(r) ==
    /\ Goto(r, "idle")
    /\ UNCHANGED draft

Rollback(r) ==
    /\ Goto(r, "idle")
    /\ draft' = [draft EXCEPT ![r] = NoDraft]

Init ==
    /\ documents = {} /\ chunkRows = {} /\ points = {} /\ objects = {}
    /\ pc = [r \in Runs |-> "idle"]
    /\ draft = [r \in Runs |-> NoDraft]
    /\ attempts = 0

-----------------------------------------------------------------------------
NewDraft(kind, identity, content) ==
    [id |-> attempts + 1, kind |-> kind, identity |-> identity, content |-> content,
     version |-> 1, supersedes |-> 0, chunks |-> 0]

\* ingest_filing: fetch, hash, and the content-hash gate.
StartFiling(r) ==
    /\ pc[r] = "idle"
    /\ attempts < MaxAttempts
    /\ attempts' = attempts + 1
    /\ \E i \in Identities, c \in Contents :
          \/ /\ \E d \in documents : d.content = c
             /\ UNCHANGED <<pc, draft>>
          \/ /\ \A d \in documents : d.content # c
             /\ Goto(r, "put")
             /\ draft' = [draft EXCEPT ![r] = NewDraft("filing", i, c)]
    /\ UNCHANGED <<documents, chunkRows, points, objects>>

\* ingest_constitution_part: hash, and no gate.
StartPart(r) ==
    /\ pc[r] = "idle"
    /\ attempts < MaxAttempts
    /\ attempts' = attempts + 1
    /\ \E i \in Identities, c \in Contents :
          draft' = [draft EXCEPT ![r] = NewDraft("part", i, c)]
    /\ Goto(r, "put")
    /\ UNCHANGED <<documents, chunkRows, points, objects>>

PutObject(r) ==
    /\ pc[r] = "put"
    /\ objects' = objects \cup {draft[r].content}
    /\ Goto(r, IF draft[r].kind = "filing" THEN "version" ELSE "flush")
    /\ UNCHANGED <<documents, chunkRows, points, draft, attempts>>

PriorVersions(d) ==
    {p \in documents : p.kind = "filing" /\ p.identity = d.identity}

\* Mutant: the next version is counted, not taken from the latest.
NextVersion_Counted(prior, latest) == Cardinality(prior) + 1

NextVersion(prior, latest) == latest.version + 1

\* _existing_versions and determine_version. Between two latest versions the
\* order of the query's rows decides.
DetermineVersion(r) ==
    LET prior == PriorVersions(draft[r]) IN
    /\ pc[r] = "version"
    /\ \/ /\ prior = {}
          /\ UNCHANGED draft
       \/ \E latest \in prior :
             /\ \A p \in prior : p.version <= latest.version
             /\ draft' = [draft EXCEPT ![r].version = NextVersion(prior, latest),
                                       ![r].supersedes = latest.id]
    /\ Goto(r, "flush")
    /\ UNCHANGED <<documents, chunkRows, points, objects, attempts>>

\* Mutant: add without flush, so the row is sent with the commit.
Flush_Deferred(r) ==
    /\ pc[r] = "flush"
    /\ Goto(r, "index")
    /\ UNCHANGED <<documents, chunkRows, points, objects, draft, attempts>>

\* Mutant: a worker holds its content from the gate on.
Flush_HeldFromTheGate(r) ==
    /\ pc[r] = "flush"
    /\ \A s \in Runs \ {r} : pc[s] # "idle" => draft[s].content # draft[r].content
    /\ Goto(r, "index")
    /\ UNCHANGED <<documents, chunkRows, points, objects, draft, attempts>>

\* The INSERT waits for an uncommitted one of the same content_hash and raises
\* on a committed one.
Flush(r) ==
    /\ pc[r] = "flush"
    /\ \A s \in Runs \ {r} :
          pc[s] \in InTransaction => draft[s].content # draft[r].content
    /\ \/ /\ \E d \in documents : d.content = draft[r].content
          /\ Rollback(r)
       \/ /\ \A d \in documents : d.content # draft[r].content
          /\ Goto(r, "index")
          /\ UNCHANGED draft
    /\ UNCHANGED <<documents, chunkRows, points, objects, attempts>>

\* Chunk, embed, and the upsert, which is one request.
IndexChunks(r, n) ==
    /\ draft' = [draft EXCEPT ![r].chunks = n]
    /\ points' = points \cup ChunkIds([draft[r] EXCEPT !.chunks = n])
    /\ Goto(r, "commit")
    /\ UNCHANGED <<documents, chunkRows, objects, attempts>>

\* A filing may have no chunks, which skips the upsert.
IndexFiling(r) ==
    /\ pc[r] = "index" /\ draft[r].kind = "filing"
    /\ \E n \in 0 .. MaxChunks : IndexChunks(r, n)

\* A Part that parses has chunks.
IndexPart(r) ==
    /\ pc[r] = "index" /\ draft[r].kind = "part"
    /\ \E n \in 1 .. MaxChunks : IndexChunks(r, n)

\* Mutant: an upsert that fails is logged and passed over.
IndexFails_Swallowed(r) ==
    /\ pc[r] = "index"
    /\ draft' = [draft EXCEPT ![r].chunks = MaxChunks]
    /\ Goto(r, "commit")
    /\ UNCHANGED <<documents, chunkRows, points, objects, attempts>>

\* The upsert raises: not sent, refused, or carried out and not answered in time.
IndexFails(r) ==
    /\ pc[r] = "index"
    /\ \E n \in 0 .. MaxChunks :
          points' = points \cup ChunkIds([draft[r] EXCEPT !.chunks = n])
    /\ Rollback(r)
    /\ UNCHANGED <<documents, chunkRows, objects, attempts>>

\* The document is marked SUCCEEDED and the caller commits it and its chunks.
Commit(r) ==
    /\ pc[r] = "commit"
    /\ documents' = documents \cup {draft[r]}
    /\ chunkRows' = chunkRows \cup ChunkIds(draft[r])
    /\ Rollback(r)
    /\ UNCHANGED <<points, objects, attempts>>

\* Any other call raises, the process dies, or the caller's commit fails.
Abort(r) ==
    /\ pc[r] # "idle"
    /\ Rollback(r)
    /\ UNCHANGED <<documents, chunkRows, points, objects, attempts>>

CallStep(r) ==
    \/ PutObject(r) \/ DetermineVersion(r) \/ Flush(r)
    \/ IndexFiling(r) \/ IndexPart(r) \/ Commit(r)

Next == \E r \in Runs :
    \/ StartFiling(r) \/ StartPart(r)
    \/ CallStep(r) \/ IndexFails(r) \/ Abort(r)

Spec == Init /\ [][Next]_vars

\* A call that is running keeps running; nobody has to start one or to fail one.
FairSpec == Spec /\ \A r \in Runs : WF_vars(CallStep(r))

-----------------------------------------------------------------------------
(* Properties.                                                              *)

\* Every store holds what belongs in it, and a worker has a draft exactly while
\* a call of it runs.
TypeOK ==
    /\ documents \subseteq Draft
    /\ \A s \in {chunkRows, points} :
          s \subseteq [document : 1 .. MaxAttempts, index : 0 .. MaxChunks - 1, text : Contents]
    /\ objects \subseteq Contents
    /\ pc \in [Runs -> {"idle", "put", "version", "flush", "index", "commit"}]
    /\ draft \in [Runs -> Draft \cup {NoDraft}]
    /\ \A r \in Runs : (pc[r] = "idle") <=> (draft[r] = NoDraft)
    /\ attempts \in 0 .. MaxAttempts

\* A document that is SUCCEEDED is whole in all three stores: its raw bytes can
\* be fetched, and every chunk it has can be found by search and cited
\* (pipeline.py: "a document row only reaches succeeded after its chunks are
\* indexed in both stores").
SucceededIsWhole ==
    \A d \in documents :
        /\ d.content \in objects
        /\ ChunkIds(d) \subseteq chunkRows \cap points

\* Content that is in the corpus is never indexed again, whoever fetches it and
\* whenever: the flush stands between the gate and the upsert.
NeverIndexedTwice ==
    [][\A p \in points' \ points : \A d \in documents : d.content # p.text]_vars

\* Search results resolve in both stores: a point is backed by a committed chunk
\* row, or belongs to a call that has yet to commit (the docstring of Chunk:
\* "vector search results resolve to the same identity in both stores").
SearchResolves ==
    \A p \in points : \/ p \in chunkRows
                      \/ \E r \in Runs : draft[r].id = p.document

\* No call waits for ever on another's uncommitted content.
EveryCallEnds ==
    \A r \in Runs : pc[r] # "idle" ~> pc[r] = "idle"

Published ==
    {[id |-> d.id, identity |-> d.identity, content |-> d.content,
      version |-> d.version, supersedes |-> d.supersedes] : d \in documents}

CorpusSpec == INSTANCE Corpus WITH
    Ids <- 1 .. MaxAttempts, Identities <- Identities, Contents <- Contents,
    corpus <- Published

\* Concurrent ingestion keeps the promises of Corpus.
ImplementsCorpus == CorpusSpec!Spec
=============================================================================
