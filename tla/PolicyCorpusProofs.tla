-------------------------- MODULE PolicyCorpusProofs --------------------------
(***************************************************************************)
(* Theorems about PolicyCorpus, for any organizations, documents, contents *)
(* and actions; finitely many documents are assumed for TypeCorrect alone. *)
(*                                                                         *)
(* The open transaction carries what is missing until its commit (Drafts), *)
(* a row that exists once stays, with the content it was last given        *)
(* (Documents), and a quote is of a content that was ingested under the    *)
(* identifier it cites (Quotes).  Documents that share an identifier share *)
(* its row, which keeps the source and version it was first given: only    *)
(* the identifier of these is that of the row.                             *)
(***************************************************************************)
EXTENDS PolicyCorpus, SequenceTheorems, FiniteSetTheorems, TLAPS

Rows == [source : Positions, version : Versions, content : Contents,
         actor : Actors]
Chunk == [content : Contents, ordinal : Nat]

Triples == Namespaces \X Positions \X Versions

Transactions ==
  [id : Ids, row : Rows, chunks : Seq(Chunk), left : Seq(Chunk),
   step : {"delete", "insert"}, document : Triples, content : Contents,
   by : Actors]

\* Of the ingestions ts, one of content c was under the identifier d.
Said(ts, d, c) ==
  \E x \in ts : x[2] = c /\ d = DocumentId(x[1][1], x[1][2], x[1][3])

\* What the tables hold at any time.
Documents ==
  /\ documents \in [Ids -> Rows \cup {None}]
  /\ chunks \in [Ids -> Seq(Chunk)]
  /\ texts \subseteq Triples \X Contents
  /\ \A d \in Ids : documents[d] # None =>
       /\ DocumentId(d[1], documents[d].source, documents[d].version) = d
       /\ Said(texts, d, documents[d].content)

\* What the open transaction is going to commit.
Drafts ==
  draft # None =>
    /\ draft \in Transactions
    /\ draft.row.content = draft.content
    /\ draft.id = DocumentId(draft.document[1], draft.document[2], draft.document[3])
    /\ draft.id = DocumentId(draft.id[1], draft.row.source, draft.row.version)
    /\ draft.step = "delete" => draft.left = ChunksOf(draft.content)
    /\ draft.step = "insert" =>
         draft.chunks \o draft.left = ChunksOf(draft.content)

\* A citation's document still exists, and had the chunk that it quotes.
Quotes ==
  /\ action = [k \in Keys |-> action[k]]
  /\ \A k \in Keys : action[k] # None =>
       \A e \in action[k].evidence :
         /\ e.id \in Ids /\ documents[e.id] # None
         /\ LET u == action[k].quotes[e].document IN
              DocumentId(u[1], u[2], u[3]) = e.id
         /\ action[k].quotes[e].text \in Contents
         /\ Said(texts, e.id, action[k].quotes[e].text)
         /\ e.ordinal \in DOMAIN ChunksOf(action[k].quotes[e].text)

Inv == Documents /\ Drafts /\ Quotes /\ ChunksMatchDocument

LEMMA ChunksAre ==
  ASSUME NEW c \in Contents
  PROVE  /\ ChunksOf(c) \in Seq(Chunk)
         /\ DOMAIN ChunksOf(c) = DOMAIN Scores[c]
         /\ \A i \in DOMAIN ChunksOf(c) : ChunksOf(c)[i].content = c
  <1>1. Scores[c] \in Seq(0 .. 3)
    BY CorpusAssumption
  <1>2. PICK n \in Nat : DOMAIN Scores[c] = 1 .. n
    BY <1>1
  <1>3. \A i \in 1 .. n : [content |-> c, ordinal |-> i] \in Chunk
    BY DEF Chunk
  <1>4. ChunksOf(c) = [i \in 1 .. n |-> [content |-> c, ordinal |-> i]]
    BY <1>2 DEF ChunksOf
  <1>5. ChunksOf(c) \in Seq(Chunk)
    BY <1>3, <1>4, IsASeq
  <1>6. QED
    BY <1>2, <1>4, <1>5

\* The namespace of a document can be read off its identifier.
LEMMA IdIs ==
  ASSUME NEW n \in Namespaces, NEW s \in Positions, NEW v \in Versions
  PROVE  DocumentId(n, s, v) \in Ids /\ DocumentId(n, s, v)[1] = n
  <1>1. PICK w : w = Sources[s] \o v
    OBVIOUS
  <1>2. DocumentId(n, s, v) = <<n, w>>
    BY <1>1 DEF DocumentId, Named
  <1>3. DocumentId(n, s, v) \in Ids
    BY DEF Ids
  <1>4. QED
    BY <1>2, <1>3

-----------------------------------------------------------------------------
(* The write transaction.                                                  *)

LEMMA BeginInv ==
  ASSUME Inv, NEW n \in Namespaces, NEW s \in Positions, NEW v \in Versions,
         NEW c \in Contents, NEW a \in Authors[n], Begin(n, s, v, c, a)
  PROVE  Inv'
  <1> DEFINE d == DocumentId(n, s, v)
             row == [source |-> s, version |-> v, content |-> c, actor |-> a]
             u == <<n, s, v>>
  <1>1. d \in Ids /\ d[1] = n /\ row \in Rows
    BY IdIs DEF Rows, Actors
  <1>2. /\ RowAfter(d, row) \in Rows /\ RowAfter(d, row).content = c
        /\ d = DocumentId(d[1], RowAfter(d, row).source, RowAfter(d, row).version)
    <2>1. CASE documents[d] = None
      BY <1>1, <2>1 DEF RowAfter
    <2>2. CASE documents[d] # None
      <3> DEFINE old == documents[d]
      <3>1. old \in Rows /\ d = DocumentId(d[1], old.source, old.version)
        BY <1>1, <2>2 DEF Inv, Documents
      <3>2. RowAfter(d, row) = [old EXCEPT !.content = c]
        BY <2>2 DEF RowAfter
      <3> HIDE DEF old, d, row
      <3>3. /\ RowAfter(d, row) \in Rows /\ RowAfter(d, row).content = c
            /\ RowAfter(d, row).source = old.source
            /\ RowAfter(d, row).version = old.version
        BY <3>1, <3>2 DEF Rows
      <3>4. QED
        BY <3>1, <3>3
    <2>3. QED
      BY <2>1, <2>2
  <1>3. draft' = [id |-> d, row |-> RowAfter(d, row), chunks |-> chunks[d],
                  left |-> ChunksOf(c), step |-> "delete",
                  document |-> u, content |-> c, by |-> a]
    BY DEF Begin
  <1>4. chunks[d] \in Seq(Chunk) /\ ChunksOf(c) \in Seq(Chunk)
    BY <1>1, ChunksAre DEF Inv, Documents
  <1>5. u \in Triples /\ d = DocumentId(u[1], u[2], u[3])
    BY DEF Triples
  <1> HIDE DEF d, row, u
  <1>6. Drafts'
    <2>1. a \in Actors
      BY DEF Actors
    <2>2. draft' \in Transactions
      BY <1>1, <1>2, <1>3, <1>4, <1>5, <2>1 DEF Transactions
    <2>3. QED
      BY <1>1, <1>2, <1>3, <1>5, <2>2 DEF Drafts
  <1>7. Documents' /\ Quotes' /\ ChunksMatchDocument'
    BY DEF Inv, Documents, Quotes, Said, ChunksMatchDocument, Begin, tables
  <1>8. QED
    BY <1>6, <1>7 DEF Inv

\* Steps inside the transaction, which others do not see.
LEMMA InsideInv ==
  ASSUME Inv, Drafts', UNCHANGED <<tables, action, texts>> PROVE Inv'
  BY DEF Inv, Documents, Quotes, Said, ChunksMatchDocument, tables

LEMMA DeleteInv == Inv /\ Delete => Inv'
  <1> SUFFICES ASSUME Inv, Delete PROVE Inv'
    OBVIOUS
  <1>1. <<>> \o draft.left = draft.left /\ <<>> \in Seq(Chunk)
    BY ConcatEmptySeq, EmptySeq DEF Inv, Drafts, Delete, Transactions
  <1>2. Drafts'
    BY <1>1 DEF Inv, Drafts, Delete, Transactions
  <1>3. QED
    BY <1>2, InsideInv DEF Delete

LEMMA OneOver ==
  ASSUME NEW S, NEW s \in Seq(S), NEW t \in Seq(S), t # <<>>
  PROVE  /\ Append(s, Head(t)) \in Seq(S) /\ Tail(t) \in Seq(S)
         /\ Append(s, Head(t)) \o Tail(t) = s \o t
  <1>1. Head(t) \in S /\ Tail(t) \in Seq(S) /\ t = <<Head(t)>> \o Tail(t)
    BY HeadTailProperties, ConcatProperties
  <1>2. Append(s, Head(t)) = s \o <<Head(t)>> /\ <<Head(t)>> \in Seq(S)
    BY <1>1, AppendIsConcat
  <1>3. (s \o <<Head(t)>>) \o Tail(t) = s \o (<<Head(t)>> \o Tail(t))
    BY <1>1, <1>2, ConcatAssociative
  <1>4. QED
    BY <1>1, <1>2, <1>3, AppendProperties

LEMMA InsertInv == Inv /\ Insert => Inv'
  <1> SUFFICES ASSUME Inv, Insert PROVE Inv'
    OBVIOUS
  <1>1. /\ draft.chunks \in Seq(Chunk) /\ draft.left \in Seq(Chunk)
        /\ draft.left # <<>>
    BY DEF Inv, Drafts, Insert, Transactions
  <1>2. /\ Append(draft.chunks, Head(draft.left)) \in Seq(Chunk)
        /\ Tail(draft.left) \in Seq(Chunk)
        /\ Append(draft.chunks, Head(draft.left)) \o Tail(draft.left)
             = draft.chunks \o draft.left
    BY <1>1, OneOver
  <1>3. Drafts'
    BY <1>2 DEF Inv, Drafts, Insert, Transactions
  <1>4. QED
    BY <1>3, InsideInv DEF Insert

LEMMA AbortInv == Inv /\ Abort => Inv'
  BY InsideInv DEF Abort, Undone, Drafts

LEMMA CommitInv == Inv /\ Commit => Inv'
  <1> SUFFICES ASSUME Inv, Commit PROVE Inv'
    OBVIOUS
  <1> DEFINE d == draft.id
             r == draft.row
             u == draft.document
  <1>1. /\ d \in Ids /\ r \in Rows /\ r # None /\ u \in Triples
        /\ d = DocumentId(u[1], u[2], u[3]) /\ r.content = draft.content
        /\ d = DocumentId(d[1], r.source, r.version)
    BY NoneAssumption DEF Inv, Drafts, Commit, Rows, Transactions
  <1>2. /\ draft.chunks \in Seq(Chunk)
        /\ draft.chunks = ChunksOf(draft.content)
    <2>1. /\ draft.chunks \in Seq(Chunk)
          /\ draft.chunks \o <<>> = ChunksOf(draft.content)
      BY DEF Inv, Drafts, Commit, Transactions
    <2>2. QED
      BY <2>1, ConcatEmptySeq
  <1>3. /\ documents' = [documents EXCEPT ![d] = r]
        /\ chunks' = [chunks EXCEPT ![d] = draft.chunks]
        /\ texts' = texts \cup {<<u, r.content>>}
        /\ draft' = None /\ UNCHANGED action
    BY <1>1 DEF Commit, Publish
  <1> HIDE DEF d, r, u
  <1>new. /\ Said(texts', d, r.content)
          /\ \A i, c : Said(texts, i, c) => Said(texts', i, c)
          /\ texts' \subseteq Triples \X Contents
    <2>1. <<u, r.content>> \in texts' /\ texts \subseteq texts'
      BY <1>3
    <2>2. /\ <<u, r.content>>[1] = u /\ <<u, r.content>>[2] = r.content
          /\ <<u, r.content>> \in Triples \X Contents
      BY <1>1 DEF Rows
    <2>3. Said(texts', d, r.content)
      BY <1>1, <2>1, <2>2 DEF Said
    <2>4. QED
      BY <1>3, <2>1, <2>2, <2>3 DEF Inv, Documents, Said
  <1>4. /\ documents' \in [Ids -> Rows \cup {None}]
        /\ documents'[d] = r
        /\ \A i \in Ids \ {d} : documents'[i] = documents[i]
    BY <1>1, <1>3 DEF Inv, Documents
  <1>5. /\ chunks' \in [Ids -> Seq(Chunk)]
        /\ chunks'[d] = draft.chunks
        /\ \A i \in Ids \ {d} : chunks'[i] = chunks[i]
    BY <1>1, <1>2, <1>3 DEF Inv, Documents
  <1>6. Documents'
    <2>1. /\ documents'[d] # None /\ documents'[d] = r
          /\ DocumentId(d[1], r.source, r.version) = d
          /\ Said(texts', d, r.content)
      BY <1>1, <1>new, <1>4
    <2>2. \A i \in Ids \ {d} : documents'[i] # None =>
            /\ DocumentId(i[1], documents'[i].source, documents'[i].version) = i
            /\ Said(texts', i, documents'[i].content)
      BY <1>new, <1>4 DEF Inv, Documents
    <2>3. QED
      BY <1>new, <1>4, <1>5, <2>1, <2>2 DEF Documents
  <1>7. Drafts'
    BY <1>3 DEF Drafts
  <1>8. Quotes'
    <2>1. action' = action /\ documents'[d] # None
      BY <1>1, <1>3, <1>4
    <2>2. \A i \in Ids : documents[i] # None => documents'[i] # None
      BY <1>4, <2>1
    <2>3. QED
      BY <1>new, <2>1, <2>2 DEF Inv, Quotes
  <1>9. ChunksMatchDocument'
    <2>1. chunks'[d] = ChunksOf(documents'[d].content) /\ documents'[d] # None
      BY <1>1, <1>2, <1>4, <1>5
    <2>2. \A i \in Ids \ {d} :
            chunks'[i] = IF documents'[i] = None THEN <<>>
                         ELSE ChunksOf(documents'[i].content)
      BY <1>4, <1>5 DEF Inv, ChunksMatchDocument
    <2>3. QED
      BY <2>1, <2>2 DEF ChunksMatchDocument
  <1>10. QED
    BY <1>6, <1>7, <1>8, <1>9 DEF Inv

-----------------------------------------------------------------------------
(* Actions.                                                                *)

\* What is cited is a chunk of a document that exists.
LEMMA CandidateIs ==
  ASSUME Inv, NEW o, NEW e \in Candidates(o)
  PROVE  /\ e.id \in Ids /\ documents[e.id] # None
         /\ documents[e.id].content \in Contents
         /\ LET u == Quote(e).document IN DocumentId(u[1], u[2], u[3]) = e.id
         /\ Quote(e).text = documents[e.id].content
         /\ Said(texts, e.id, documents[e.id].content)
         /\ e.ordinal \in DOMAIN ChunksOf(documents[e.id].content)
  <1> PICK d \in Ids : \E i \in DOMAIN chunks[d] : e = Citation(d, i)
    BY DEF Candidates
  <1>1. PICK i \in DOMAIN chunks[d] : e = Citation(d, i)
    OBVIOUS
  <1>2. e.id = d /\ e.ordinal = i
    BY <1>1 DEF Citation
  <1>3. documents[d] # None
    BY DEF Inv, ChunksMatchDocument
  <1>4. documents[d] \in Rows /\ chunks[d] = ChunksOf(documents[d].content)
    BY <1>3 DEF Inv, ChunksMatchDocument, Documents
  <1>5. documents[d].content \in Contents
    BY <1>4 DEF Rows
  <1>6. Text(e) = documents[d].content
    BY <1>2, <1>4, <1>5, ChunksAre DEF Text
  <1>7. /\ DocumentId(d[1], documents[d].source, documents[d].version) = d
        /\ Said(texts, d, documents[d].content)
    BY <1>3 DEF Inv, Documents
  <1>8. QED
    BY <1>2, <1>3, <1>4, <1>5, <1>6, <1>7 DEF Quote

LEMMA ProposeInv == ASSUME Inv, NEW k \in Keys, Propose(k) PROVE Inv'
  <1> PICK T \in Found(Asker[k]) :
        action' = [action EXCEPT ![k] =
                     [evidence |-> T, quotes |-> [e \in T |-> Quote(e)],
                      status |-> IF T = {} THEN "denied" ELSE "pending"]]
    BY DEF Propose
  <1>1. T \subseteq Candidates(Asker[k])
    BY DEF Found
  <1>2. UNCHANGED <<tables, draft, texts>>
    BY DEF Propose
  <1> DEFINE x == [evidence |-> T, quotes |-> [e \in T |-> Quote(e)],
                   status |-> IF T = {} THEN "denied" ELSE "pending"]
  <1>3. x.evidence = T /\ \A e \in T : x.quotes[e] = Quote(e)
    OBVIOUS
  <1> HIDE DEF x
  <1>4. /\ action' = [i \in Keys |-> action'[i]] /\ action'[k] = x
        /\ \A i \in Keys \ {k} : action'[i] = action[i]
    BY DEF Inv, Quotes, x
  <1>5. ASSUME NEW e \in T
        PROVE  /\ e.id \in Ids /\ documents[e.id] # None
               /\ LET u == x.quotes[e].document IN
                    DocumentId(u[1], u[2], u[3]) = e.id
               /\ x.quotes[e].text \in Contents
               /\ Said(texts, e.id, x.quotes[e].text)
               /\ e.ordinal \in DOMAIN ChunksOf(x.quotes[e].text)
    BY <1>1, <1>3, CandidateIs
  <1>6. Quotes'
    BY <1>2, <1>3, <1>4, <1>5 DEF Inv, Quotes, Said, tables
  <1>7. QED
    BY <1>2, <1>6 DEF Inv, Documents, Said, Drafts, ChunksMatchDocument, tables

LEMMA ResumeInv == ASSUME Inv, NEW k \in Keys, Resume(k) PROVE Inv'
  <1>1. /\ UNCHANGED <<tables, draft, texts>> /\ action[k] # None
        /\ action' = [action EXCEPT ![k].status = "resumed"]
    BY DEF Resume
  <1> DEFINE x == [action[k] EXCEPT !.status = "resumed"]
  <1>2. /\ action' = [i \in Keys |-> action'[i]] /\ action'[k] = x
        /\ \A i \in Keys \ {k} : action'[i] = action[i]
    BY <1>1 DEF Inv, Quotes
  <1>3. x.evidence = action[k].evidence /\ x.quotes = action[k].quotes
    OBVIOUS
  <1> HIDE DEF x
  <1>4. Quotes'
    BY <1>1, <1>2, <1>3 DEF Inv, Quotes, Said, tables
  <1>5. QED
    BY <1>1, <1>4 DEF Inv, Documents, Said, Drafts, ChunksMatchDocument, tables

-----------------------------------------------------------------------------
(* The theorems.                                                           *)

LEMMA InitInv == Init => Inv
  <1> SUFFICES ASSUME Init PROVE Inv
    OBVIOUS
  <1>1. Documents /\ ChunksMatchDocument
    BY EmptySeq DEF Init, Documents, ChunksMatchDocument
  <1>2. Drafts /\ Quotes
    BY DEF Init, Drafts, Quotes
  <1>3. QED
    BY <1>1, <1>2 DEF Inv

LEMMA NextInv == Inv /\ [Next]_vars => Inv'
  <1> SUFFICES ASSUME Inv, [Next]_vars PROVE Inv'
    OBVIOUS
  <1>1. CASE Write
    <2>1. ASSUME NEW u \in Uploads, NEW c \in Contents, NEW a \in Authors[u[1]],
                 Begin(u[1], u[2], u[3], c, a)
          PROVE  Inv'
      <3>1. u[1] \in Namespaces /\ u[2] \in Positions /\ u[3] \in Versions
        BY CorpusAssumption DEF Namespaces, Positions
      <3>2. QED
        BY <2>1, <3>1, BeginInv
    <2>2. QED
      BY <1>1, <2>1, DeleteInv, InsertInv, CommitInv, AbortInv DEF Write
  <1>2. CASE \E k \in Keys : Propose(k) \/ Resume(k)
    BY <1>2, ProposeInv, ResumeInv
  <1>3. CASE UNCHANGED vars
    BY <1>3 DEF vars, tables, Inv, Documents, Drafts, Quotes, Said,
                ChunksMatchDocument
  <1>4. QED
    BY <1>1, <1>2, <1>3 DEF Next

\* What the transaction, the tables and the citations rely on.
THEOREM InvHolds == Spec => []Inv
  BY InitInv, NextInv, PTL DEF Spec

\* A reader finds the chunks of the content whose hash the document's row has
\* (document_upsert), whichever statement of an ingestion failed.
THEOREM ChunksAlwaysMatch == Spec => []ChunksMatchDocument
  <1>1. Inv => ChunksMatchDocument
    BY DEF Inv
  <1>2. QED
    BY <1>1, InvHolds, PTL

\* The evidence of an action pins what it quotes while nothing else is ingested
\* under the identifier it cites, and names a document that said it unless another
\* one shares that identifier (source_id of a citation, document_upsert).
THEOREM EvidencePinsText == Spec => []CitationsPinText
  <1>1. Inv => CitationsPinText
    <2> SUFFICES ASSUME Inv, NEW k \in Keys, action[k] # None,
                        NEW e \in action[k].evidence
                 PROVE  LET quote == action[k].quotes[e]
                            same == SameId(quote.document) IN
                        /\ {x[2] : x \in same} = {quote.text} =>
                             /\ e.ordinal \in DOMAIN chunks[e.id]
                             /\ Text(e) = quote.text
                        /\ {x[1] : x \in same} = {quote.document} =>
                             <<quote.document, quote.text>> \in texts
      BY DEF CitationsPinText
    <2> DEFINE d == e.id
               q == action[k].quotes[e]
               c == documents[d].content
    <2>1. /\ d \in Ids /\ documents[d] # None /\ q.text \in Contents
          /\ DocumentId(q.document[1], q.document[2], q.document[3]) = d
          /\ Said(texts, d, q.text)
          /\ e.ordinal \in DOMAIN ChunksOf(q.text)
      BY DEF Inv, Quotes
    <2>2. c \in Contents /\ Said(texts, d, c)
      BY <2>1 DEF Inv, Documents, Rows
    <2> HIDE DEF q, c, d
    <2>3. ASSUME NEW y, Said(texts, d, y)
          PROVE  \E x \in SameId(q.document) : x[2] = y /\ x \in texts
      BY <2>1, <2>3 DEF Said, SameId, DocumentId
    <2>4. ASSUME {x[2] : x \in SameId(q.document)} = {q.text}
          PROVE  e.ordinal \in DOMAIN chunks[d] /\ Text(e) = q.text
      <3>1. c = q.text
        BY <2>2, <2>3, <2>4
      <3>2. chunks[d] = ChunksOf(q.text)
        BY <2>1, <3>1 DEF Inv, ChunksMatchDocument, c
      <3>3. QED
        BY <2>1, <3>2, ChunksAre DEF Text, d
    <2>5. ASSUME {x[1] : x \in SameId(q.document)} = {q.document}
          PROVE  <<q.document, q.text>> \in texts
      <3>1. PICK x \in SameId(q.document) : x[2] = q.text /\ x \in texts
        BY <2>1, <2>3
      <3>2. x[1] = q.document
        BY <2>5
      <3>3. x \in Triples \X Contents
        BY <3>1 DEF Inv, Documents
      <3>4. QED
        BY <3>1, <3>2, <3>3
    <2>6. QED
      BY <2>4, <2>5 DEF q, d
  <1>2. QED
    BY <1>1, InvHolds, PTL

-----------------------------------------------------------------------------
(* Types, and the bound on what search returns.                            *)

LEMMA ImageFinite ==
  ASSUME NEW S, IsFiniteSet(S), NEW f, f = [x \in S |-> f[x]]
  PROVE  IsFiniteSet({f[x] : x \in S})
  <1>1. f \in Surjection(S, {f[x] : x \in S})
    BY DEF Surjection
  <1>2. QED
    BY <1>1, FS_Surjection

LEMMA IdsFinite == IsFiniteSet(Ids)
  <1>1. IsFiniteSet(Namespaces)
    BY FinityAssumption, FS_AddElement DEF Namespaces
  <1>2. IsFiniteSet(Namespaces \X Positions)
    BY <1>1, FinityAssumption, FS_Product DEF Positions
  <1>3. IsFiniteSet((Namespaces \X Positions) \X Versions)
    BY <1>2, FinityAssumption, FS_Product
  <1> DEFINE S == (Namespaces \X Positions) \X Versions
             f == [x \in S |-> DocumentId(x[1][1], x[1][2], x[2])]
  <1>4. IsFiniteSet({f[x] : x \in S})
    <2> HIDE DEF f
    <2>1. f = [x \in S |-> f[x]]
      BY DEF f
    <2>2. QED
      BY <1>3, <2>1, ImageFinite
  <1>5. Ids \subseteq {f[x] : x \in S}
    <2> SUFFICES ASSUME NEW n \in Namespaces, NEW s \in Positions,
                        NEW v \in Versions
                 PROVE  DocumentId(n, s, v) \in {f[x] : x \in S}
      BY DEF Ids
    <2>1. <<<<n, s>>, v>> \in S /\ f[<<<<n, s>>, v>>] = DocumentId(n, s, v)
      OBVIOUS
    <2>2. QED
      BY <2>1
  <1>6. QED
    BY <1>4, <1>5, FS_Subset

LEMMA ScoreIs ==
  ASSUME Inv, NEW d \in Ids, NEW i \in DOMAIN chunks[d]
  PROVE  i \in Nat /\ Score(chunks[d][i]) \in 0 .. 3
  <1> DEFINE c == documents[d].content
  <1>1. documents[d] # None
    BY DEF Inv, ChunksMatchDocument
  <1>2. c \in Contents /\ chunks[d] = ChunksOf(c)
    BY <1>1 DEF Inv, Documents, ChunksMatchDocument, Rows
  <1>3. Scores[c] \in Seq(0 .. 3) /\ i \in DOMAIN Scores[c]
    BY <1>2, CorpusAssumption, ChunksAre
  <1>4. chunks[d][i].content = c /\ chunks[d][i].ordinal = i
    BY <1>2, <1>3 DEF ChunksOf
  <1>5. i \in Nat /\ Scores[c][i] \in 0 .. 3
    BY <1>3
  <1>6. QED
    BY <1>4, <1>5 DEF Score

LEMMA CandidatesTyped ==
  ASSUME Inv, NEW o PROVE Candidates(o) \subseteq Evidence
  <1> SUFFICES ASSUME NEW e \in Candidates(o) PROVE e \in Evidence
    OBVIOUS
  <1> PICK d \in Ids : \E i \in DOMAIN chunks[d] :
              e = Citation(d, i) /\ IsRelevant(chunks[d][i])
    BY DEF Candidates
  <1>1. PICK i \in DOMAIN chunks[d] :
          e = Citation(d, i) /\ IsRelevant(chunks[d][i])
    OBVIOUS
  <1>2. i \in Nat /\ Score(chunks[d][i]) \in 1 .. 3
    BY <1>1, ScoreIs DEF IsRelevant
  <1>3. QED
    BY <1>1, <1>2 DEF Citation, Evidence

LEMMA CandidatesFinite ==
  ASSUME Inv, NEW o PROVE IsFiniteSet(Candidates(o))
  <1> DEFINE g == [d \in Ids |-> {d} \X DOMAIN chunks[d]]
             S == UNION {g[d] : d \in Ids}
             f == [x \in S |-> Citation(x[1], x[2])]
  <1>1. ASSUME NEW d \in Ids PROVE IsFiniteSet(g[d])
    <2>1. chunks[d] \in Seq(Chunk)
      BY DEF Inv, Documents
    <2>2. PICK n \in Nat : DOMAIN chunks[d] = 1 .. n
      BY <2>1
    <2>3. IsFiniteSet(DOMAIN chunks[d])
      BY <2>2, FS_Interval
    <2>4. QED
      BY <2>3, FS_Singleton, FS_Product
  <1>2. IsFiniteSet(S)
    <2>1. g = [d \in Ids |-> g[d]]
      OBVIOUS
    <2> HIDE DEF g
    <2>2. IsFiniteSet({g[d] : d \in Ids})
      BY <2>1, IdsFinite, ImageFinite
    <2>3. QED
      BY <1>1, <2>2, FS_UNION
  <1>3. IsFiniteSet({f[x] : x \in S})
    <2>1. f = [x \in S |-> f[x]]
      OBVIOUS
    <2> HIDE DEF f, S
    <2>2. QED
      BY <1>2, <2>1, ImageFinite
  <1>4. Candidates(o) \subseteq {f[x] : x \in S}
    <2> SUFFICES ASSUME NEW e \in Candidates(o)
                 PROVE  \E x \in S : e = f[x]
      OBVIOUS
    <2> PICK d \in Ids : \E i \in DOMAIN chunks[d] : e = Citation(d, i)
      BY DEF Candidates
    <2>1. PICK i \in DOMAIN chunks[d] : e = Citation(d, i)
      OBVIOUS
    <2>2. <<d, i>> \in g[d]
      OBVIOUS
    <2>3. <<d, i>> \in S
      BY <2>2
    <2>4. f[<<d, i>>] = Citation(d, i)
      BY <2>3
    <2>5. QED
      BY <2>1, <2>3, <2>4
  <1>5. QED
    BY <1>3, <1>4, FS_Subset

\* Search returns at most TopK citations of the right type.
LEMMA FoundBounded ==
  ASSUME Inv, NEW o, NEW T \in Found(o)
  PROVE  T \subseteq Evidence /\ Cardinality(T) <= TopK
  <1> DEFINE all == Candidates(o)
  <1>1. /\ T \subseteq all
        /\ Cardinality(T) = IF Cardinality(all) < TopK
                            THEN Cardinality(all) ELSE TopK
    BY DEF Found
  <1>2. Cardinality(all) \in Nat /\ TopK \in Nat
    BY CandidatesFinite, FS_CardinalityType, CorpusAssumption
  <1>3. QED
    BY <1>1, <1>2, CandidatesTyped

\* What TypeOK says beyond Inv.
Recorded ==
  /\ \A k \in Keys : action[k] # None =>
       /\ action[k].evidence \subseteq Evidence
       /\ Cardinality(action[k].evidence) <= TopK
       /\ action[k].status \in {"denied", "pending", "resumed"}

LEMMA InitRecorded == Init => Recorded
  BY DEF Init, Recorded

LEMMA NextRecorded == Inv /\ Recorded /\ [Next]_vars => Recorded'
  <1> SUFFICES ASSUME Inv, Recorded, [Next]_vars PROVE Recorded'
    OBVIOUS
  <1>1. CASE UNCHANGED action
    BY <1>1 DEF Recorded
  <1>2. Commit => UNCHANGED action
    BY DEF Commit
  <1>3. ASSUME NEW k \in Keys, Propose(k) PROVE Recorded'
    <2>1. PICK T \in Found(Asker[k]) :
            action' = [action EXCEPT ![k] =
                         [evidence |-> T, quotes |-> [e \in T |-> Quote(e)],
                          status |-> IF T = {} THEN "denied" ELSE "pending"]]
      BY <1>3 DEF Propose
    <2>2. T \subseteq Evidence /\ Cardinality(T) <= TopK
      BY FoundBounded
    <2>3. \A i \in Keys \ {k} : action'[i] = action[i]
      BY <2>1 DEF Inv, Quotes
    <2>4. /\ action'[k].evidence = T
          /\ action'[k].status \in {"denied", "pending", "resumed"}
      BY <2>1 DEF Inv, Quotes
    <2>5. QED
      BY <2>2, <2>3, <2>4 DEF Recorded
  <1>4. ASSUME NEW k \in Keys, Resume(k) PROVE Recorded'
    <2>1. /\ action[k] # None
          /\ action' = [action EXCEPT ![k].status = "resumed"]
      BY <1>4 DEF Resume
    <2> DEFINE x == [action[k] EXCEPT !.status = "resumed"]
    <2>2. action'[k] = x /\ \A i \in Keys \ {k} : action'[i] = action[i]
      BY <2>1 DEF Inv, Quotes
    <2>3. x.evidence = action[k].evidence
          /\ (x.status = "resumed" \/ x.status = action[k].status)
      OBVIOUS
    <2> HIDE DEF x
    <2>4. QED
      BY <2>1, <2>2, <2>3 DEF Recorded
  <1>5. CASE Write
    <2>1. ASSUME NEW n, NEW s, NEW v, NEW c, NEW a, Begin(n, s, v, c, a)
          PROVE  UNCHANGED action
      BY <2>1 DEF Begin
    <2>2. Delete \/ Insert \/ Abort => UNCHANGED action
      BY DEF Delete, Insert, Abort
    <2>3. QED
      BY <1>1, <1>2, <1>5, <2>1, <2>2 DEF Write
  <1>6. UNCHANGED vars => UNCHANGED action
    BY DEF vars
  <1>7. QED
    BY <1>1, <1>3, <1>4, <1>5, <1>6 DEF Next

\* Rows, chunks and evidence keep their types, and an action cites at most
\* TopK chunks (search).
THEOREM TypeCorrect == Spec => []TypeOK
  <1>1. Spec => []Recorded
    BY InitRecorded, NextRecorded, InvHolds, PTL DEF Spec
  <1>2. Inv /\ Recorded => TypeOK
    <2> SUFFICES ASSUME Inv, Recorded PROVE TypeOK
      OBVIOUS
    <2>1. /\ documents \in [Ids -> Rows \cup {None}]
          /\ chunks \in [Ids -> Seq(Chunk)]
      BY DEF Inv, Documents
    <2>2. draft # None =>
            /\ draft.id \in Ids /\ draft.row \in Rows
            /\ draft.chunks \in Seq(Chunk) /\ draft.left \in Seq(Chunk)
      BY DEF Inv, Drafts, Transactions
    <2>3. texts \subseteq (Namespaces \X Positions \X Versions) \X Contents
      BY DEF Inv, Documents, Triples
    <2>4. QED
      BY <2>1, <2>2, <2>3 DEF TypeOK, Recorded, Rows, Chunk
  <1>3. QED
    BY <1>1, <1>2, InvHolds, PTL
=============================================================================
