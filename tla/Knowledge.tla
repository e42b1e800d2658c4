------------------------------ MODULE Knowledge ------------------------------
(***************************************************************************)
(* knowledge-service: documents cut into overlapping windows, a corpus     *)
(* scoped by metadata and version, and a ranking whose best rows are       *)
(* cited.  A text is a set of terms, the position of a character a number, *)
(* and the cosine similarity of a row to a query is a given number.        *)
(***************************************************************************)
EXTENDS Integers, FiniteSets, Sequences, SequencesExt

CONSTANTS
  NoTitle,     \* the empty title
  AnyVersion   \* a request that names no corpus_version

\* A row of the corpus: one chunk of a document.  similarity is in halves.
Row(id, doc, window, title, titleTerms, keywords, meta, version, similarity) ==
  [id |-> id, doc |-> doc, window |-> window, title |-> title, titleTerms |-> titleTerms,
   keywords |-> keywords, meta |-> meta, version |-> version,
   similarity |-> similarity]

\* What scoring and sorting need of a row: keywords to count and an id to compare.
IsRow(row) == IsFiniteSet(row.keywords) /\ row.similarity \in Nat /\ row.id \in Int

IsCorpus(rows) ==
  rows \in Seq(ToSet(rows)) /\ rows # <<>> /\ \A i \in DOMAIN rows : IsRow(rows[i])

(***************************************************************************)
(* ingestion.py                                                            *)
(***************************************************************************)
\* Mutant of ChunkText: the overlap is added, so windows leave gaps.
ChunkTextSkipping(n, size, overlap) ==
  LET from[start \in 0 .. n] ==
        LET end == Min({n, start + size})
        IN  <<<<start, end>>>> \o (IF end >= n THEN <<>>
                                   ELSE from[Min({n, end + overlap})])
  IN  IF n = 0 THEN <<>> ELSE from[0]

\* The windows <<first, past the last>> of a normalised text of n characters.
ChunkText(n, size, overlap) ==
  LET from[start \in 0 .. n] ==
        LET end == Min({n, start + size})
        IN  <<<<start, end>>>> \o (IF end >= n THEN <<>>
                                   ELSE from[Max({0, end - overlap})])
  IN  IF n = 0 THEN <<>> ELSE from[0]

\* The rows of a document; one empty chunk if it has no text.
DocumentRows(d, size, overlap) ==
  LET windows == ChunkText(d.length, size, overlap)
      parts == IF windows = <<>> THEN <<<<0, 0>>>> ELSE windows
  IN  [i \in DOMAIN parts |->
         Row(d.id + i - 1, d.id, parts[i], d.title, d.titleTerms, d.keywords,
             d.meta, d.version, d.similarity)]

(***************************************************************************)
(* retrieval.py                                                            *)
(***************************************************************************)
MetadataMatches(meta, filters) ==
  \A key \in DOMAIN filters \ {"corpus_version"} :
    key \in DOMAIN meta /\ meta[key] = filters[key]

InScope(row, request) ==
  /\ request.version \in {AnyVersion, row.version}
  /\ MetadataMatches(row.meta, request.filters)

\* The places of the rows in scope or, when there is none, of the whole corpus.
FilterCorpus(corpus, request) ==
  LET scoped == {i \in DOMAIN corpus : InScope(corpus[i], request)}
  IN  IF scoped = {} THEN DOMAIN corpus ELSE scoped

\* In halves.  An empty title is part of every query.
Score(row, query) ==
  2 * Cardinality(query \cap row.keywords)
    + (IF row.title = NoTitle \/ query \cap row.titleTerms # {} THEN 1 ELSE 0)
    + 2 * row.similarity

Chunk(row, title, score) ==
  [id |-> row.id, doc |-> row.doc, title |-> title, meta |-> row.meta,
   version |-> row.version, score |-> score]

\* The rows with a score, each with its place.
Scored(corpus, places, query) ==
  {a \in {[score |-> Score(corpus[i], query), id |-> corpus[i].id, place |-> i] : i \in places} :
     a.score > 0}

\* Mutant of Better: the sort is ascending.
Worse(a, b) == a.score < b.score \/ (a.score = b.score /\ a.place < b.place)

\* The key of the sort: the best first, then by chunk_id; the sort is stable.
Better(a, b) ==
  \/ a.score > b.score
  \/ a.score = b.score /\ (a.id < b.id \/ (a.id = b.id /\ a.place < b.place))

\* Sorted: the k-th is the one that k - 1 others are ahead of.
Ranked(scored) ==
  LET ahead == {<<a, Cardinality({b \in scored : Better(b, a)})>> : a \in scored}
  IN  [k \in 1 .. Cardinality(scored) |-> (CHOOSE p \in ahead : p[2] = k - 1)[1]]

\* The best max rows, with scores in tenths.  Every one of them gets the title the
\* scoring loop read last, and the first row is cited when nothing scores.
ScoreAndRank(query, corpus, places, max) ==
  LET scored == Scored(corpus, places, query)
      Cited(a) == Chunk(corpus[a.place], corpus[Max(places)].title, Min({10, a.score}))
  IN  IF scored # {}
        THEN [k \in 1 .. Min({max, Cardinality(scored)}) |-> Cited(Ranked(scored)[k])]
        ELSE IF places = {} THEN <<>>
        ELSE <<Chunk(corpus[Min(places)], corpus[Min(places)].title, 1)>>

\* KnowledgeService.retrieve: the cited chunks and the corpus version it reports.
Retrieve(request, corpus) ==
  [request |-> request,
   chunks  |-> ScoreAndRank(request.query, corpus, FilterCorpus(corpus, request), request.max),
   version |-> IF request.version = AnyVersion THEN corpus[1].version
               ELSE request.version]

(***************************************************************************)
(* What a retrieval promises.                                              *)
(***************************************************************************)
\* Windows are never longer than the size, consecutive ones share exactly the
\* overlap, and together they are the text: no sentence is lost between chunks.
Covers(windows, n, size, overlap) ==
  /\ windows # <<>> <=> n > 0
  /\ \A i \in DOMAIN windows :
       /\ windows[i][1] < windows[i][2] /\ windows[i][2] - windows[i][1] <= size
       /\ i > 1 => windows[i][1] = windows[i - 1][2] - overlap
  /\ n > 0 => windows[1][1] = 0 /\ windows[Len(windows)][2] = n

\* The rows a retrieval may cite: those in scope or, when no row is, every row.
\* retrieval.py:140 gives the whole corpus back rather than nothing, so the filters of a
\* request, which knowledge-service/README.md:16 says "must match chunk metadata", narrow
\* the search only if some row matches them.  The incident_id of gather_evidence matches no
\* row of DEFAULT_CORPUS: there an incident triage always cites rows outside its filter.
Searched(request, corpus) ==
  LET rows == {corpus[i] : i \in DOMAIN corpus}
      scope == {row \in rows : InScope(row, request)}
  IN  IF scope = {} THEN rows ELSE scope

\* A retrieval cites searched rows and at least one, in order of their score, and no
\* searched row it leaves out is better than one it cites.
Grounded(response, corpus) ==
  LET request == response.request
      chunks == response.chunks
      Source(chunk) ==
        {row \in Searched(request, corpus) :
           /\ row.id = chunk.id /\ row.doc = chunk.doc
           /\ row.meta = chunk.meta /\ row.version = chunk.version}
  IN  /\ Len(chunks) \in 1 .. request.max
      /\ \A k \in DOMAIN chunks :
           /\ Source(chunks[k]) # {}
           /\ \A l \in 1 .. k - 1 : chunks[l].score >= chunks[k].score
      /\ \A row \in Searched(request, corpus) :
           \/ \E k \in DOMAIN chunks : chunks[k].id = row.id
           \/ Min({10, Score(row, request.query)}) <= chunks[Len(chunks)].score
=============================================================================
