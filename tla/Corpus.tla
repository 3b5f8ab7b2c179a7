------------------------------- MODULE Corpus -------------------------------
(***************************************************************************)
(* What the document table promises whoever ingests into it, however many  *)
(* at a time and whatever fails: documents appear whole, no content twice, *)
(* and each version of a filing points back at one exactly one below it    *)
(* (src/rag/ingestion/dedup.py: "supersedes_id forms an append-only chain").*)
(***************************************************************************)
EXTENDS Naturals

CONSTANTS Ids, Identities, Contents

VARIABLE corpus   \* the published documents

Document == [id : Ids, identity : Identities, content : Contents,
             version : Nat, supersedes : Ids \cup {0}]

\* A first version, or the next version of a document of the same identity. Two
\* documents may follow the same one: the chain may fork, but has no gap.
Follows(d) ==
    \/ d.version = 1 /\ d.supersedes = 0
    \/ \E p \in corpus : /\ p.id = d.supersedes
                         /\ p.identity = d.identity
                         /\ d.version = p.version + 1

Publish(d) ==
    /\ \A p \in corpus : p.id # d.id /\ p.content # d.content
    /\ Follows(d)
    /\ corpus' = corpus \cup {d}

Init == corpus = {}
Next == \E d \in corpus' \cap Document : Publish(d)
Spec == Init /\ [][Next]_corpus
=============================================================================
