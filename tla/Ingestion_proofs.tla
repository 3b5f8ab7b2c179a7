-------------------------- MODULE Ingestion_proofs --------------------------
(***************************************************************************)
(* For every number of workers, identities, contents and calls: ingestion  *)
(* is type correct, what it marks SUCCEEDED is whole, content is indexed   *)
(* once, and the document table implements Corpus.                         *)
(***************************************************************************)
EXTENDS Ingestion, TLAPS

Point == [document : 1 .. MaxAttempts, index : 0 .. MaxChunks - 1, text : Contents]

LEMMA ChunkIdsType ==
    ASSUME NEW d \in Draft
    PROVE  ChunkIds(d) \subseteq Point
BY BoundsAssumption DEF ChunkIds, Draft, Point

LEMMA NewDraftType ==
    ASSUME attempts \in 0 .. MaxAttempts, attempts < MaxAttempts,
           NEW kind \in Kinds, NEW i \in Identities, NEW c \in Contents
    PROVE  NewDraft(kind, i, c) \in Draft /\ NewDraft(kind, i, c).id = attempts + 1
BY BoundsAssumption DEF NewDraft, Draft

LEMMA NoDraftIsNone ==
    NoDraft \notin Draft
BY BoundsAssumption DEF NoDraft, Draft

LEMMA DraftUpdates ==
    ASSUME NEW d \in Draft
    PROVE  /\ \A n \in 0 .. MaxChunks : [d EXCEPT !.chunks = n] \in Draft
           /\ \A v \in Nat, i \in 0 .. MaxAttempts :
                 [d EXCEPT !.version = v, !.supersedes = i] \in Draft
BY DEF Draft

-----------------------------------------------------------------------------
\* The first state is well typed: empty stores, an idle worker each.
THEOREM TypeInit == Init => TypeOK
BY BoundsAssumption DEF Init, TypeOK

LEMMA TypeStep ==
    ASSUME TypeOK, [Next]_vars
    PROVE  TypeOK'
<1> USE DEF TypeOK
<1>1. ASSUME NEW r \in Runs, StartFiling(r) PROVE TypeOK'
  <2>1. attempts' \in 0 .. MaxAttempts
    BY <1>1, BoundsAssumption DEF StartFiling
  <2>2. CASE UNCHANGED <<pc, draft>>
    BY <1>1, <2>1, <2>2 DEF StartFiling
  <2>3. CASE \E i \in Identities, c \in Contents :
                /\ pc' = [pc EXCEPT ![r] = "put"]
                /\ draft' = [draft EXCEPT ![r] = NewDraft("filing", i, c)]
    <3>1. PICK d \in Draft : draft' = [draft EXCEPT ![r] = d]
      BY <1>1, <2>3, NewDraftType DEF StartFiling, Kinds
    <3> QED BY <1>1, <2>1, <2>3, <3>1, NoDraftIsNone DEF StartFiling
  <2> QED BY <1>1, <2>2, <2>3 DEF StartFiling, Goto
<1>2. ASSUME NEW r \in Runs, StartPart(r) PROVE TypeOK'
  <2>1. attempts' \in 0 .. MaxAttempts
    BY <1>2, BoundsAssumption DEF StartPart
  <2>2. PICK d \in Draft : draft' = [draft EXCEPT ![r] = d]
    BY <1>2, NewDraftType DEF StartPart, Kinds
  <2> QED BY <1>2, <2>1, <2>2, NoDraftIsNone DEF StartPart, Goto
<1>3. ASSUME NEW r \in Runs, PutObject(r) PROVE TypeOK'
  <2>1. draft[r].content \in Contents
    BY <1>3 DEF PutObject, Draft
  <2> QED BY <1>3, <2>1 DEF PutObject, Goto
<1>4. ASSUME NEW r \in Runs, DetermineVersion(r) PROVE TypeOK'
  <2>1. draft[r] \in Draft
    BY <1>4 DEF DetermineVersion
  <2>2. CASE UNCHANGED draft
    BY <1>4, <2>2 DEF DetermineVersion, Goto
  <2>3. CASE \E p \in documents :
                draft' = [draft EXCEPT ![r] = [draft[r] EXCEPT !.version = p.version + 1,
                                                                !.supersedes = p.id]]
    <3>1. PICK p \in documents :
             draft' = [draft EXCEPT ![r] = [draft[r] EXCEPT !.version = p.version + 1,
                                                            !.supersedes = p.id]]
      BY <2>3
    <3>2. p.version + 1 \in Nat /\ p.id \in 0 .. MaxAttempts
      BY <3>1, BoundsAssumption DEF Draft
    <3>3. [draft[r] EXCEPT !.version = p.version + 1, !.supersedes = p.id] \in Draft
      BY <2>1, <3>2, DraftUpdates
    <3> QED BY <1>4, <3>1, <3>3, NoDraftIsNone DEF DetermineVersion, Goto
  <2> QED BY <1>4, <2>2, <2>3 DEF DetermineVersion, PriorVersions, NextVersion
<1>5. ASSUME NEW r \in Runs, Flush(r) PROVE TypeOK'
  BY <1>5 DEF Flush, Goto, Rollback
<1>6. ASSUME NEW r \in Runs, NEW n \in 0 .. MaxChunks, pc[r] = "index", IndexChunks(r, n)
      PROVE  TypeOK'
  <2> DEFINE d == [draft[r] EXCEPT !.chunks = n]
  <2>1. d \in Draft
    BY <1>6, DraftUpdates
  <2>2. points' \subseteq Point
    BY <1>6, <2>1, ChunkIdsType DEF IndexChunks, Point
  <2>3. draft' = [draft EXCEPT ![r] = d]
    BY <1>6 DEF IndexChunks
  <2> QED BY <1>6, <2>1, <2>2, <2>3, NoDraftIsNone DEF IndexChunks, Goto, Point
<1>7. ASSUME NEW r \in Runs, IndexFails(r) PROVE TypeOK'
  <2>1. draft[r] \in Draft
    BY <1>7 DEF IndexFails
  <2>2. points' \subseteq Point
    BY <1>7, <2>1, ChunkIdsType, DraftUpdates DEF IndexFails, Point
  <2> QED BY <1>7, <2>2 DEF IndexFails, Goto, Rollback, Point
<1>8. ASSUME NEW r \in Runs, Commit(r) PROVE TypeOK'
  <2>1. draft[r] \in Draft
    BY <1>8 DEF Commit
  <2>2. chunkRows' \subseteq Point
    BY <1>8, <2>1, ChunkIdsType DEF Commit, Point
  <2> QED BY <1>8, <2>1, <2>2 DEF Commit, Goto, Rollback, Point
<1>9. ASSUME NEW r \in Runs, Abort(r) PROVE TypeOK'
  BY <1>9 DEF Abort, Goto, Rollback
<1>10. CASE UNCHANGED vars
  BY <1>10 DEF vars
<1>11. 1 .. MaxChunks \subseteq 0 .. MaxChunks
  BY BoundsAssumption
<1> QED BY <1>1, <1>2, <1>3, <1>4, <1>5, <1>6, <1>7, <1>8, <1>9, <1>10, <1>11
        DEF Next, CallStep, IndexFiling, IndexPart

\* Type correctness: every store holds what belongs in it, and a worker has a
\* draft exactly while a call of it runs.
THEOREM TypeCorrect == Spec => []TypeOK
<1>1. TypeOK /\ [Next]_vars => TypeOK'
  BY TypeStep
<1> QED BY TypeInit, <1>1, PTL DEF Spec

-----------------------------------------------------------------------------
(* The strengthening: call numbers are used once, an uncommitted insert     *)
(* holds its content, and a draft carries what its earlier steps have done. *)

FreshIds ==
    /\ \A d \in documents : d.id \in 1 .. attempts
    /\ \A r \in Runs : pc[r] # "idle" =>
          /\ draft[r].id \in 1 .. attempts
          /\ \A d \in documents : d.id # draft[r].id
          /\ \A s \in Runs \ {r} : pc[s] # "idle" => draft[s].id # draft[r].id

ContentHeld ==
    \A r \in Runs : pc[r] \in InTransaction =>
        /\ \A d \in documents : d.content # draft[r].content
        /\ \A s \in Runs \ {r} : pc[s] \in InTransaction => draft[s].content # draft[r].content

Linked(d) ==
    \/ d.version = 1 /\ d.supersedes = 0
    \/ \E p \in documents : /\ p.id = d.supersedes
                            /\ p.identity = d.identity
                            /\ d.version = p.version + 1

Prepared ==
    \A r \in Runs :
        /\ pc[r] # "idle" => Linked(draft[r])
        /\ pc[r] \in {"version", "flush", "index", "commit"} => draft[r].content \in objects
        /\ pc[r] = "commit" => ChunkIds(draft[r]) \subseteq points

IInv == TypeOK /\ FreshIds /\ ContentHeld /\ Prepared /\ SucceededIsWhole

LEMMA SafetyInit == Init => IInv
BY TypeInit DEF Init, IInv, FreshIds, ContentHeld, Prepared, SucceededIsWhole, InTransaction

\* The steps of a call leave every other call alone.
LEMMA OthersKeep ==
    ASSUME TypeOK, NEW r \in Runs,
           \/ StartFiling(r) \/ StartPart(r) \/ CallStep(r) \/ IndexFails(r) \/ Abort(r)
    PROVE  \A s \in Runs \ {r} : pc'[s] = pc[s] /\ draft'[s] = draft[s]
BY DEF TypeOK, StartFiling, StartPart, CallStep, PutObject, DetermineVersion, Flush,
       IndexFiling, IndexPart, IndexChunks, Commit, IndexFails, Abort, Rollback, Goto

\* A new call: a fresh number and a first version, or the gate turned it away.
LEMMA StartEffect ==
    ASSUME TypeOK, NEW r \in Runs, StartFiling(r) \/ StartPart(r)
    PROVE  /\ pc[r] = "idle" /\ attempts' = attempts + 1
           /\ UNCHANGED <<documents, chunkRows, points, objects>>
           /\ \/ pc'[r] = "idle"
              \/ /\ pc'[r] = "put" /\ draft'[r].id = attempts + 1
                 /\ draft'[r].version = 1 /\ draft'[r].supersedes = 0
BY DEF TypeOK, StartFiling, StartPart, NewDraft, Goto

\* The end of a call, however it ends.
LEMMA RollbackEffect ==
    ASSUME TypeOK, NEW r \in Runs, Rollback(r)
    PROVE  pc'[r] = "idle"
BY DEF TypeOK, Rollback, Goto

LEMMA FreshIdsStep ==
    ASSUME IInv, [Next]_vars
    PROVE  FreshIds'
<1> USE DEF IInv
<1>0. attempts \in Nat
  BY BoundsAssumption DEF TypeOK
<1>1. ASSUME NEW r \in Runs, StartFiling(r) \/ StartPart(r) PROVE FreshIds'
  BY <1>0, <1>1, StartEffect, OthersKeep DEF FreshIds
<1>2. ASSUME NEW r \in Runs, UNCHANGED <<documents, attempts>>,
             pc'[r] = "idle" \/ (pc[r] # "idle" /\ draft'[r].id = draft[r].id),
             \A s \in Runs \ {r} : pc'[s] = pc[s] /\ draft'[s] = draft[s]
      PROVE  FreshIds'
  BY <1>2 DEF FreshIds
<1>3. ASSUME NEW r \in Runs, CallStep(r) \/ IndexFails(r) \/ Abort(r), ~Commit(r)
      PROVE  FreshIds'
  <2>1. \A s \in Runs \ {r} : pc'[s] = pc[s] /\ draft'[s] = draft[s]
    BY <1>3, OthersKeep
  <2>2. UNCHANGED <<documents, attempts>>
    BY <1>3 DEF CallStep, PutObject, DetermineVersion, Flush, IndexFiling, IndexPart,
                IndexChunks, IndexFails, Abort
  <2>3. pc'[r] = "idle" \/ (pc[r] # "idle" /\ draft'[r].id = draft[r].id)
    <3>1. CASE PutObject(r)
      BY <1>3, <3>1 DEF PutObject
    <3>2. CASE DetermineVersion(r)
      <4>1. pc[r] # "idle" /\ draft[r] \in Draft
        BY <1>3, <3>2 DEF TypeOK, DetermineVersion
      <4> QED BY <1>3, <3>2, <4>1 DEF TypeOK, DetermineVersion, Draft
    <3>3. CASE Flush(r)
      BY <1>3, <3>3, RollbackEffect DEF Flush
    <3>4. CASE IndexFiling(r) \/ IndexPart(r)
      <4>1. pc[r] # "idle" /\ draft[r] \in Draft
        BY <1>3, <3>4 DEF TypeOK, IndexFiling, IndexPart
      <4>2. PICK n : draft' = [draft EXCEPT ![r] = [draft[r] EXCEPT !.chunks = n]]
        BY <3>4 DEF IndexFiling, IndexPart, IndexChunks
      <4>3. draft'[r] = [draft[r] EXCEPT !.chunks = n]
        BY <1>3, <4>2 DEF TypeOK
      <4> QED BY <4>1, <4>3 DEF Draft
    <3>5. CASE IndexFails(r) \/ Abort(r)
      BY <1>3, <3>5, RollbackEffect DEF IndexFails, Abort
    <3> QED BY <1>3, <3>1, <3>2, <3>3, <3>4, <3>5 DEF CallStep
  <2> QED BY <1>2, <2>1, <2>2, <2>3
<1>4. ASSUME NEW r \in Runs, Commit(r) PROVE FreshIds'
  <2>1. /\ pc[r] # "idle" /\ pc'[r] = "idle"
        /\ documents' = documents \cup {draft[r]} /\ UNCHANGED attempts
    BY <1>4, RollbackEffect DEF Commit
  <2>2. \A s \in Runs \ {r} : pc'[s] = pc[s] /\ draft'[s] = draft[s]
    BY <1>4, OthersKeep DEF CallStep
  <2> QED BY <2>1, <2>2 DEF FreshIds
<1>5. CASE UNCHANGED vars
  BY <1>5 DEF vars, FreshIds
<1> QED BY <1>1, <1>3, <1>4, <1>5 DEF Next

LEMMA ContentHeldStep ==
    ASSUME IInv, [Next]_vars
    PROVE  ContentHeld'
<1> USE DEF IInv, InTransaction
<1>1. ASSUME NEW r \in Runs, UNCHANGED documents, pc'[r] \notin InTransaction,
             \A s \in Runs \ {r} : pc'[s] = pc[s] /\ draft'[s] = draft[s]
      PROVE  ContentHeld'
  BY <1>1 DEF ContentHeld
<1>2. ASSUME NEW r \in Runs, StartFiling(r) \/ StartPart(r) PROVE ContentHeld'
  BY <1>1, <1>2, StartEffect, OthersKeep
<1>3. ASSUME NEW r \in Runs, PutObject(r) \/ DetermineVersion(r) \/ IndexFails(r) \/ Abort(r)
      PROVE  ContentHeld'
  <2>1. UNCHANGED documents /\ pc'[r] \notin InTransaction
    BY <1>3, RollbackEffect
       DEF TypeOK, PutObject, DetermineVersion, IndexFails, Abort, Goto
  <2> QED BY <1>1, <1>3, <2>1, OthersKeep DEF CallStep
<1>4. ASSUME NEW r \in Runs, Flush(r) PROVE ContentHeld'
  <2>1. UNCHANGED documents
    BY <1>4 DEF Flush
  <2>2. \A s \in Runs \ {r} : pc'[s] = pc[s] /\ draft'[s] = draft[s]
    BY <1>4, OthersKeep DEF CallStep
  <2>3. CASE Rollback(r)
    BY <2>1, <2>2, <2>3, <1>1, RollbackEffect
  <2>4. CASE UNCHANGED draft /\ \A d \in documents : d.content # draft[r].content
    BY <1>4, <2>1, <2>2, <2>4 DEF Flush, ContentHeld
  <2> QED BY <1>4, <2>3, <2>4 DEF Flush
<1>5. ASSUME NEW r \in Runs, IndexFiling(r) \/ IndexPart(r) PROVE ContentHeld'
  <2>1. /\ UNCHANGED documents
        /\ pc[r] \in InTransaction /\ draft'[r].content = draft[r].content
    BY <1>5 DEF TypeOK, IndexFiling, IndexPart, IndexChunks, Draft
  <2>2. \A s \in Runs \ {r} : pc'[s] = pc[s] /\ draft'[s] = draft[s]
    BY <1>5, OthersKeep DEF CallStep
  <2> QED BY <2>1, <2>2 DEF ContentHeld
<1>6. ASSUME NEW r \in Runs, Commit(r) PROVE ContentHeld'
  <2>1. /\ pc[r] \in InTransaction /\ pc'[r] = "idle"
        /\ documents' = documents \cup {draft[r]}
    BY <1>6, RollbackEffect DEF Commit
  <2>2. \A s \in Runs \ {r} : pc'[s] = pc[s] /\ draft'[s] = draft[s]
    BY <1>6, OthersKeep DEF CallStep
  <2> QED BY <2>1, <2>2 DEF ContentHeld
<1>7. CASE UNCHANGED vars
  BY <1>7 DEF vars, ContentHeld
<1> QED BY <1>2, <1>3, <1>4, <1>5, <1>6, <1>7 DEF Next, CallStep

LEMMA PreparedStep ==
    ASSUME IInv, [Next]_vars
    PROVE  Prepared'
<1> USE DEF IInv
<1>1. ASSUME NEW r \in Runs,
             documents \subseteq documents', points \subseteq points', objects \subseteq objects',
             \A s \in Runs \ {r} : pc'[s] = pc[s] /\ draft'[s] = draft[s],
             pc'[r] # "idle" =>
                /\ Linked(draft'[r])
                /\ pc'[r] # "put" => draft'[r].content \in objects'
                /\ pc'[r] = "commit" => ChunkIds(draft'[r]) \subseteq points'
      PROVE  Prepared'
  <2>1. \A d : Linked(d) => (\/ d.version = 1 /\ d.supersedes = 0
                             \/ \E p \in documents' : /\ p.id = d.supersedes
                                                      /\ p.identity = d.identity
                                                      /\ d.version = p.version + 1)
    BY <1>1 DEF Linked
  <2>2. \A s \in Runs \ {r} :
            /\ pc'[s] # "idle" => Linked(draft[s])
            /\ pc'[s] \in {"version", "flush", "index", "commit"} => draft[s].content \in objects
            /\ pc'[s] = "commit" => ChunkIds(draft[s]) \subseteq points
    BY <1>1 DEF Prepared
  <2> QED BY <1>1, <2>1, <2>2 DEF Prepared, Linked, ChunkIds
<1>2. ASSUME NEW r \in Runs, StartFiling(r) \/ StartPart(r) PROVE Prepared'
  <2>1. pc'[r] # "idle" => Linked(draft'[r]) /\ pc'[r] = "put"
    BY <1>2, StartEffect DEF Linked
  <2> QED BY <1>1, <1>2, <2>1, StartEffect, OthersKeep
<1>3. ASSUME NEW r \in Runs, PutObject(r) PROVE Prepared'
  <2>1. \A s \in Runs \ {r} : pc'[s] = pc[s] /\ draft'[s] = draft[s]
    BY <1>3, OthersKeep DEF CallStep
  <2>2. pc'[r] \in {"version", "flush"} /\ Linked(draft[r]) /\ UNCHANGED <<documents, points, draft>>
    BY <1>3 DEF TypeOK, PutObject, Goto, Prepared
  <2>3. objects' = objects \cup {draft[r].content}
    BY <1>3 DEF PutObject
  <2> QED BY <1>1, <2>1, <2>2, <2>3
<1>4. ASSUME NEW r \in Runs, DetermineVersion(r) PROVE Prepared'
  <2>1. \A s \in Runs \ {r} : pc'[s] = pc[s] /\ draft'[s] = draft[s]
    BY <1>4, OthersKeep DEF CallStep
  <2>2. /\ pc[r] = "version" /\ pc'[r] = "flush" /\ UNCHANGED <<documents, points, objects>>
        /\ draft[r] \in Draft /\ Linked(draft[r]) /\ draft[r].content \in objects
    BY <1>4 DEF TypeOK, DetermineVersion, Goto, Prepared
  <2>3. Linked(draft'[r]) /\ draft'[r].content = draft[r].content
    <3>1. CASE UNCHANGED draft
      BY <2>2, <3>1
    <3>2. CASE \E p \in documents :
                  /\ p.identity = draft[r].identity
                  /\ draft' = [draft EXCEPT ![r] = [draft[r] EXCEPT !.version = p.version + 1,
                                                                    !.supersedes = p.id]]
      <4>1. PICK p \in documents :
               /\ p.identity = draft[r].identity
               /\ draft'[r] = [draft[r] EXCEPT !.version = p.version + 1, !.supersedes = p.id]
        BY <1>4, <3>2 DEF TypeOK
      <4> QED BY <2>2, <4>1 DEF Linked, Draft
    <3> QED BY <1>4, <3>1, <3>2 DEF DetermineVersion, PriorVersions, NextVersion
  <2> QED BY <1>1, <2>1, <2>2, <2>3
<1>5. ASSUME NEW r \in Runs, Flush(r) PROVE Prepared'
  <2>1. \A s \in Runs \ {r} : pc'[s] = pc[s] /\ draft'[s] = draft[s]
    BY <1>5, OthersKeep DEF CallStep
  <2>2. /\ UNCHANGED <<documents, points, objects>>
        /\ Linked(draft[r]) /\ draft[r].content \in objects
    BY <1>5 DEF Flush, Prepared
  <2>3. \/ pc'[r] = "idle"
        \/ pc'[r] = "index" /\ UNCHANGED draft
    BY <1>5, RollbackEffect DEF TypeOK, Flush, Goto
  <2> QED BY <1>1, <2>1, <2>2, <2>3
<1>6. ASSUME NEW r \in Runs, IndexFiling(r) \/ IndexPart(r) PROVE Prepared'
  <2>1. \A s \in Runs \ {r} : pc'[s] = pc[s] /\ draft'[s] = draft[s]
    BY <1>6, OthersKeep DEF CallStep
  <2>2. PICK n : IndexChunks(r, n)
    BY <1>6 DEF IndexFiling, IndexPart
  <2>3. /\ draft[r] \in Draft /\ Linked(draft[r]) /\ draft[r].content \in objects
        /\ UNCHANGED <<documents, objects>>
    BY <1>6, <2>2 DEF TypeOK, IndexFiling, IndexPart, IndexChunks, Prepared
  <2>4. /\ draft'[r] = [draft[r] EXCEPT !.chunks = n]
        /\ points' = points \cup ChunkIds(draft'[r])
    BY <2>2 DEF TypeOK, IndexChunks
  <2>5. Linked(draft'[r]) /\ draft'[r].content = draft[r].content
    BY <2>3, <2>4 DEF Linked, Draft
  <2> QED BY <1>1, <2>1, <2>3, <2>4, <2>5
<1>7. ASSUME NEW r \in Runs, IndexFails(r) \/ Commit(r) \/ Abort(r) PROVE Prepared'
  <2>1. \A s \in Runs \ {r} : pc'[s] = pc[s] /\ draft'[s] = draft[s]
    BY <1>7, OthersKeep DEF CallStep
  <2>2. /\ documents \subseteq documents' /\ points \subseteq points' /\ UNCHANGED objects
        /\ pc'[r] = "idle"
    BY <1>7, RollbackEffect DEF IndexFails, Commit, Abort
  <2> QED BY <1>1, <2>1, <2>2
<1>8. CASE UNCHANGED vars
  BY <1>8 DEF vars, Prepared, Linked, ChunkIds
<1> QED BY <1>2, <1>3, <1>4, <1>5, <1>6, <1>7, <1>8 DEF Next, CallStep

LEMMA WholeStep ==
    ASSUME IInv, [Next]_vars
    PROVE  SucceededIsWhole'
<1> USE DEF IInv
<1>1. /\ points \subseteq points' /\ objects \subseteq objects' /\ chunkRows \subseteq chunkRows'
  BY DEF Next, StartFiling, StartPart, CallStep, PutObject, DetermineVersion, Flush,
         IndexFiling, IndexPart, IndexChunks, IndexFails, Commit, Abort, vars
<1>2. CASE UNCHANGED documents
  BY <1>1, <1>2 DEF SucceededIsWhole, ChunkIds
<1>3. ASSUME NEW r \in Runs, Commit(r) PROVE SucceededIsWhole'
  <2>1. draft[r].content \in objects /\ ChunkIds(draft[r]) \subseteq points
    BY <1>3 DEF Commit, Prepared
  <2>2. /\ documents' = documents \cup {draft[r]}
        /\ chunkRows' = chunkRows \cup ChunkIds(draft[r])
        /\ UNCHANGED <<points, objects>>
    BY <1>3 DEF Commit
  <2> QED BY <2>1, <2>2 DEF SucceededIsWhole, ChunkIds
<1>4. UNCHANGED documents \/ \E r \in Runs : Commit(r)
  BY DEF Next, StartFiling, StartPart, CallStep, PutObject, DetermineVersion, Flush,
         IndexFiling, IndexPart, IndexChunks, IndexFails, Abort, vars
<1> QED BY <1>2, <1>3, <1>4

LEMMA SafetyStep ==
    ASSUME IInv, [Next]_vars
    PROVE  IInv'
BY TypeStep, FreshIdsStep, ContentHeldStep, PreparedStep, WholeStep DEF IInv

\* The inductive invariant of ingestion.
THEOREM SafetyInvariant == Spec => []IInv
<1>1. IInv /\ [Next]_vars => IInv'
  BY SafetyStep
<1> QED BY SafetyInit, <1>1, PTL DEF Spec

-----------------------------------------------------------------------------
\* A document marked SUCCEEDED is whole in all three stores, for any number of
\* concurrent workers and whatever fails.
THEOREM SucceededWhole == Spec => []SucceededIsWhole
<1>1. IInv => SucceededIsWhole
  BY DEF IInv
<1> QED BY SafetyInvariant, <1>1, PTL

\* Content that is in the corpus is never indexed again: the uncommitted insert
\* holds the content between the flush and the commit.
THEOREM IndexedOnce == Spec => NeverIndexedTwice
<1>1. ASSUME IInv, [Next]_vars
      PROVE  [\A p \in points' \ points : \A d \in documents : d.content # p.text]_vars
  <2>1. ASSUME NEW r \in Runs, NEW n, pc[r] = "index",
               points' = points \cup ChunkIds([draft[r] EXCEPT !.chunks = n])
        PROVE  \A p \in points' \ points : \A d \in documents : d.content # p.text
    <3>1. \A d \in documents : d.content # draft[r].content
      BY <1>1, <2>1 DEF IInv, ContentHeld, InTransaction
    <3>2. draft[r] \in Draft
      BY <1>1, <2>1 DEF IInv, TypeOK
    <3>3. \A p \in points' \ points : p.text = draft[r].content
      BY <2>1, <3>2 DEF ChunkIds, Draft
    <3> QED BY <3>1, <3>3
  <2>2. CASE UNCHANGED points
    BY <2>2
  <2>3. \/ UNCHANGED points
        \/ \E r \in Runs, n \in 0 .. MaxChunks :
              /\ pc[r] = "index"
              /\ points' = points \cup ChunkIds([draft[r] EXCEPT !.chunks = n])
    <3>1. 1 .. MaxChunks \subseteq 0 .. MaxChunks
      BY BoundsAssumption
    <3> QED BY <1>1, <3>1
            DEF Next, StartFiling, StartPart, CallStep, PutObject, DetermineVersion, Flush,
                IndexFiling, IndexPart, IndexChunks, IndexFails, Commit, Abort, vars
  <2> QED BY <2>1, <2>2, <2>3
<1> QED BY SafetyInvariant, <1>1, PTL DEF Spec, NeverIndexedTwice

-----------------------------------------------------------------------------
(* Refinement: only a commit changes what Corpus sees, and it publishes.    *)

Seen(d) == [id |-> d.id, identity |-> d.identity, content |-> d.content,
            version |-> d.version, supersedes |-> d.supersedes]

LEMMA CommitPublishes ==
    ASSUME IInv, NEW r \in Runs, Commit(r)
    PROVE  CorpusSpec!Next
<1> DEFINE new == Seen(draft[r])
<1>1. /\ draft[r] \in Draft /\ pc[r] = "commit"
      /\ documents' = documents \cup {draft[r]}
  BY DEF Commit, IInv, TypeOK
<1>2. Published = {Seen(d) : d \in documents} /\ Published' = {Seen(d) : d \in documents'}
  BY DEF Published, Seen
<1>3. Published' = Published \cup {new}
  BY <1>1, <1>2
<1>4. new \in CorpusSpec!Document
  BY <1>1, BoundsAssumption DEF Seen, Draft, CorpusSpec!Document
<1>5. \A p \in Published : p.id # new.id /\ p.content # new.content
  <2>1. \A d \in documents : d.id # draft[r].id /\ d.content # draft[r].content
    BY <1>1 DEF IInv, FreshIds, ContentHeld, InTransaction
  <2> QED BY <1>2, <2>1 DEF Seen
<1>6. CorpusSpec!Follows(new)
  <2>1. Linked(draft[r])
    BY <1>1 DEF IInv, Prepared
  <2>2. CASE draft[r].version = 1 /\ draft[r].supersedes = 0
    BY <2>2 DEF CorpusSpec!Follows, Seen
  <2>3. CASE \E p \in documents : /\ p.id = draft[r].supersedes
                                  /\ p.identity = draft[r].identity
                                  /\ draft[r].version = p.version + 1
    <3>1. PICK p \in documents : /\ p.id = draft[r].supersedes
                                 /\ p.identity = draft[r].identity
                                 /\ draft[r].version = p.version + 1
      BY <2>3
    <3>2. Seen(p) \in Published
      BY <1>2
    <3> QED BY <3>1, <3>2 DEF CorpusSpec!Follows, Seen
  <2> QED BY <2>1, <2>2, <2>3 DEF Linked
<1>7. CorpusSpec!Publish(new)
  BY <1>3, <1>5, <1>6 DEF CorpusSpec!Publish
<1> QED BY <1>3, <1>4, <1>7 DEF CorpusSpec!Next

\* Concurrent ingestion implements Corpus: documents appear whole, no content
\* twice, and every version follows one exactly one below it.
THEOREM IngestionImplementsCorpus == Spec => ImplementsCorpus
<1>1. Init => CorpusSpec!Init
  BY DEF Init, Published, CorpusSpec!Init
<1>2. ASSUME IInv, [Next]_vars PROVE [CorpusSpec!Next]_Published
  <2>1. UNCHANGED documents \/ \E r \in Runs : Commit(r)
    BY <1>2 DEF Next, StartFiling, StartPart, CallStep, PutObject, DetermineVersion, Flush,
                IndexFiling, IndexPart, IndexChunks, IndexFails, Abort, vars
  <2>2. CASE UNCHANGED documents
    BY <2>2 DEF Published
  <2>3. CASE \E r \in Runs : Commit(r)
    BY <1>2, <2>3, CommitPublishes
  <2> QED BY <2>1, <2>2, <2>3
<1> QED BY <1>1, <1>2, SafetyInvariant, PTL DEF Spec, ImplementsCorpus, CorpusSpec!Spec
=============================================================================
