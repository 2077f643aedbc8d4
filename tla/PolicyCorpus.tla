---------------------------- MODULE PolicyCorpus ----------------------------
(***************************************************************************)
(* The policy documents of the organizations and what their actions cite:  *)
(* document_ingest replaces a document and its chunks in one transaction,  *)
(* search ranks the chunks an organization may see, and a proposal keeps   *)
(* the citations as evidence, which is compared when the action resumes.   *)
(*                                                                         *)
(* A document is an organization, a source and a version; source names and *)
(* versions are sequences of words, those between their colons.  What it   *)
(* says is a content, cut into chunks, each with a score for the one query *)
(* that an action asks.  The transaction is modelled statement by statement on a   *)
(* draft that others do not see before it commits; a query is one SELECT.  *)
(***************************************************************************)
EXTENDS Naturals, Sequences, FiniteSets

CONSTANTS
  Organizations, \* tenants
  Sources,       \* document names, in the order of the query
  Versions,      \* their versions
  Uploads,       \* <<namespace, source, version>>: documents that are ingested
  Contents,      \* what documents say
  Scores,        \* Scores[c]: scores of the chunks of c, in their order
  Authors,       \* Authors[o]: principals of o that may write policy
  Keys,          \* idempotency keys of actions
  Asker,         \* Asker[k]: organization of the action of key k
  TopK,          \* k of search
  Global,        \* the namespace of documents for everybody
  None           \* no row, no transaction

ASSUME CorpusAssumption ==
  /\ \A c \in Contents : Scores[c] \in Seq(0 .. 3)
  /\ Asker \in [Keys -> Organizations]
  /\ Global \notin Organizations /\ TopK \in Nat
  /\ Uploads \subseteq (Organizations \cup {Global}) \X (DOMAIN Sources) \X Versions

\* Needed for the bound on what search returns, and for nothing else.
ASSUME FinityAssumption ==
  IsFiniteSet(Organizations) /\ IsFiniteSet(DOMAIN Sources) /\ IsFiniteSet(Versions)

Namespaces == Organizations \cup {Global}
Actors == UNION {Authors[n] : n \in Namespaces}
Positions == DOMAIN Sources

\* What '%s:%s:%s' makes of namespace, source and version: the namespace is one
\* word, but where the source ends and the version begins cannot be told.
Named(n, s, v) == <<n, Sources[s] \o v>>

\* Variant: versions of one source share an identifier.
DocumentOfSource(n, s, v) == <<n, Sources[s]>>

\* document_id, a hash of that string.
DocumentId(n, s, v) == Named(n, s, v)

Ids == {DocumentId(n, s, v) : n \in Namespaces, s \in Positions, v \in Versions}

VARIABLES
  documents, \* documents[d]: row of the document, with the hash of its content
  chunks,    \* chunks[d]: rows of its chunks, in order
  draft,     \* the write transaction that is open
  action,    \* action[k]: evidence of the action, and the contents it quotes
  texts      \* what each version of a document ever said

tables == <<documents, chunks>>
vars == <<documents, chunks, draft, action, texts>>

ASSUME NoneAssumption ==
  None \notin [source : Positions, version : Versions, content : Contents,
              actor : Actors]

\* The chunks of a content; a score is that of its embedding.
ChunksOf(c) == [i \in DOMAIN Scores[c] |-> [content |-> c, ordinal |-> i]]
Score(chunk) == Scores[chunk.content][chunk.ordinal]

Init ==
  /\ documents = [d \in Ids |-> None]
  /\ chunks = [d \in Ids |-> <<>>]
  /\ draft = None
  /\ action = [k \in Keys |-> None]
  /\ texts = {}

-----------------------------------------------------------------------------
(* document_ingest and document_upsert.                                    *)

\* Variant: a row that exists is left as it is.
RowKept(d, row) == IF documents[d] = None THEN row ELSE documents[d]

\* INSERT ... ON CONFLICT: source, version and author of a row that exists are
\* left as they are.
RowAfter(d, row) ==
  IF documents[d] = None THEN row ELSE [documents[d] EXCEPT !.content = row.content]

\* BEGIN IMMEDIATE waits until no other transaction writes.
Begin(n, s, v, c, a) ==
  LET d == DocumentId(n, s, v)
      row == [source |-> s, version |-> v, content |-> c, actor |-> a] IN
  /\ draft = None
  /\ a \in Authors[n]
  /\ draft' = [id |-> d, row |-> RowAfter(d, row), chunks |-> chunks[d],
               left |-> ChunksOf(c), step |-> "delete",
               document |-> <<n, s, v>>, content |-> c, by |-> a]
  /\ UNCHANGED <<tables, action, texts>>

\* DELETE FROM document_chunks.
Delete ==
  /\ draft # None /\ draft.step = "delete"
  /\ draft' = [draft EXCEPT !.chunks = <<>>, !.step = "insert"]
  /\ UNCHANGED <<tables, action, texts>>

\* One chunk after the other.
Insert ==
  /\ draft # None /\ draft.step = "insert" /\ draft.left # <<>>
  /\ draft' = [draft EXCEPT !.chunks = Append(@, Head(draft.left)),
                            !.left = Tail(@)]
  /\ UNCHANGED <<tables, action, texts>>

Publish(d) ==
  /\ documents' = [documents EXCEPT ![d] = draft.row]
  /\ chunks' = [chunks EXCEPT ![d] = draft.chunks]

Commit ==
  LET d == draft.id IN
  /\ draft # None /\ draft.step = "insert" /\ draft.left = <<>>
  /\ Publish(d)
  /\ texts' = texts \cup {<<draft.document, draft.content>>}
  /\ draft' = None
  /\ UNCHANGED action

\* rollback.
Undone == UNCHANGED tables

\* A statement raises, or the process stops.
Abort ==
  /\ draft # None
  /\ Undone
  /\ draft' = None
  /\ UNCHANGED <<action, texts>>

-----------------------------------------------------------------------------
(* search, and the actions that cite what it finds.                        *)

\* The citation of a chunk.
Citation(d, i) == [id |-> d, ordinal |-> i, score |-> Score(chunks[d][i])]

\* Variant: the bound is not the least score that passes.
IsAnything(chunk) == Score(chunk) >= 0

\* MIN_SCORE; 0 stands for every score below it.
IsRelevant(chunk) == Score(chunk) > 0

\* chunk_list: the chunks of the organization and of everybody, of all
\* versions; those that score too low are dropped.
Candidates(o) ==
  {Citation(x[1], x[2]) : x \in {y \in UNION {{d} \X DOMAIN chunks[d] : d \in Ids} :
                                  /\ y[1][1] \in {o, Global}
                                  /\ IsRelevant(chunks[y[1]][y[2]])}}

\* The order of the query, then the stable sort by score.
Before(x, y) ==
  \/ x.score > y.score
  \/ x.score = y.score /\ documents[x.id].source < documents[y.id].source
  \/ /\ x.score = y.score /\ documents[x.id].source = documents[y.id].source
     /\ x.ordinal < y.ordinal

\* The first k, which the order leaves open where two tie.
Found(o) ==
  LET all == Candidates(o)
      size == IF Cardinality(all) < TopK THEN Cardinality(all) ELSE TopK IN
  {T \in SUBSET all : Cardinality(T) = size
                      /\ \A x \in T, y \in all \ T : ~Before(y, x)}

Text(e) == chunks[e.id][e.ordinal].content

\* The document and the text behind a citation.
Quote(e) == [document |-> <<e.id[1], documents[e.id].source, documents[e.id].version>>,
             text |-> Text(e)]

\* transfer_prepare and application_prepare: without evidence the action is
\* denied, with evidence it waits for approval.
Propose(k) ==
  /\ action[k] = None
  /\ \E T \in Found(Asker[k]) :
       action' = [action EXCEPT ![k] =
                    [evidence |-> T, quotes |-> [e \in T |-> Quote(e)],
                     status |-> IF T = {} THEN "denied" ELSE "pending"]]
  /\ UNCHANGED <<tables, draft, texts>>

\* The action resumes when the evidence found anew is that of the digest; it
\* fails otherwise and may be tried again.
Resume(k) ==
  /\ action[k] # None /\ action[k].status = "pending"
  /\ action[k].evidence \in Found(Asker[k])
  /\ action' = [action EXCEPT ![k].status = "resumed"]
  /\ UNCHANGED <<tables, draft, texts>>

Write ==
  \/ \E u \in Uploads, c \in Contents :
       \E a \in Authors[u[1]] : Begin(u[1], u[2], u[3], c, a)
  \/ Delete \/ Insert \/ Commit \/ Abort

Next == Write \/ \E k \in Keys : Propose(k) \/ Resume(k)

Spec == Init /\ [][Next]_vars

-----------------------------------------------------------------------------
(* Safety.                                                                 *)

Evidence == [id : Ids, ordinal : Nat, score : 1 .. 3]

\* Rows, chunks and evidence have their types.
TypeOK ==
  LET Rows == [source : Positions, version : Versions, content : Contents,
               actor : Actors]
      Chunks == Seq([content : Contents, ordinal : Nat]) IN
  /\ documents \in [Ids -> Rows \cup {None}]
  /\ chunks \in [Ids -> Chunks]
  /\ draft # None => /\ draft.id \in Ids /\ draft.row \in Rows
                     /\ draft.chunks \in Chunks /\ draft.left \in Chunks
  /\ texts \subseteq (Namespaces \X Positions \X Versions) \X Contents
  /\ \A k \in Keys : action[k] # None =>
       /\ action[k].evidence \subseteq Evidence
       /\ Cardinality(action[k].evidence) <= TopK
       /\ action[k].status \in {"denied", "pending", "resumed"}

\* Readers never find a document whose hash is not that of its chunks,
\* whichever statement of an ingestion fails and whatever was ingested under
\* it before.
ChunksMatchDocument ==
  \A d \in Ids :
    chunks[d] = IF documents[d] = None THEN <<>> ELSE ChunksOf(documents[d].content)

\* What was ingested under the identifier of a document.
SameId(u) == {x \in texts : Named(x[1][1], x[1][2], x[1][3]) = Named(u[1], u[2], u[3])}

\* A citation pins the text it quotes for as long as only that was ingested under
\* its identifier, and names a document that said so unless another one shares
\* the identifier: failed ingestions, and those of any other identifier, be they
\* of the same source or the same version, do not touch it.
CitationsPinText ==
  \A k \in Keys : action[k] # None =>
    \A e \in action[k].evidence :
      LET quote == action[k].quotes[e]
          same == SameId(quote.document) IN
      /\ {x[2] : x \in same} = {quote.text} =>
           e.ordinal \in DOMAIN chunks[e.id] /\ Text(e) = quote.text
      /\ {x[1] : x \in same} = {quote.document} =>
           <<quote.document, quote.text>> \in texts

=============================================================================
