----------------------------- MODULE Retrieval -----------------------------
(***************************************************************************)
(* From a question to the rows of a retrieval debug or evaluation          *)
(* (src/backend/app/services/retrieval_debug.py): the dense, sparse and    *)
(* hybrid retrievers (src/backend/app/rag/retrievers/), reranking, the     *)
(* evidence of each row and the metrics of                                 *)
(* src/backend/app/rag/evaluation/metrics.py.                              *)
(*                                                                         *)
(* The stores are sequences, best first: points of the vector collection,  *)
(* [chunk, score], and chunk rows that match the query, [chunk, score,     *)
(* completed], with the state of their document.  A request is             *)
(* [mode, topK, candidateK, blank]; env is what it meets:                  *)
(* [owned, up, points, rows, threshold, p, answer, fallback].              *)
(***************************************************************************)
EXTENDS Ranking

Modes == {"dense", "sparse", "hybrid", "rerank"}

None == -1

Firsts(s, n) == SubSeq(s, 1, Min({n, Len(s)}))

ChunksOf(results) == [i \in DOMAIN results |-> results[i].chunk]

\* The score a result list gives a chunk, None when it has not found it.
ScoreIn(results, c) ==
    LET at == {i \in DOMAIN results : results[i].chunk = c}
    IN  IF at = {} THEN None ELSE results[Min(at)].score

\* What QdrantVectorStore.search answers: the nearest points of the collection.
Search(points, limit) == Firsts(points, limit)

\* Points below the threshold and repeated chunks are passed over; a threshold of None
\* lets every point through.
Collect(found, point, topK, threshold) ==
    IF \/ threshold # None /\ point.score < threshold
       \/ point.chunk \in ToSet(ChunksOf(found))
       \/ Len(found) >= topK
    THEN found ELSE Append(found, point)

\* DenseRetriever.retrieve.
Dense(points, topK, threshold) ==
    LET results == Search(points, topK)
        found[i \in 0 .. Len(results)] ==
            IF i = 0 THEN <<>> ELSE Collect(found[i - 1], results[i], topK, threshold)
    IN  found[Len(results)]

\* SparseRetriever.retrieve: the database orders and limits the matching chunks of
\* completed documents.
Sparse(rows, topK) == Firsts(Kept(rows, {row \in ToSet(rows) : row.completed}), topK)

\* _to_hybrid_result: a fused chunk with the score of each list.
HybridResult(dense, sparse, c, p) ==
    [chunk  |-> c,
     dense  |-> ScoreIn(dense, c),
     sparse |-> ScoreIn(sparse, c),
     fusion |-> Score(ChunksOf(dense), ChunksOf(sparse), c, p)]

Fused(dense, sparse, topK, p) ==
    LET fused == Fuse(ChunksOf(dense), ChunksOf(sparse), topK, p)
    IN  [i \in DOMAIN fused |-> HybridResult(dense, sparse, fused[i], p)]

\* HybridRetriever.retrieve: candidateK results of each, without a threshold, fused.
Hybrid(env, topK, candidateK) ==
    Fused(Dense(env.points, candidateK, None), Sparse(env.rows, candidateK), topK, env.p)

\* Variant: the reranker is given every candidate that was fetched.
ShortlistAll(env, request) == Hybrid(env, 2 * request.candidateK, request.candidateK)

\* The candidates of the reranker: the hybrid result, cut to topK already.
Shortlist(env, request) == Hybrid(env, request.topK, request.candidateK)

\* Variant: the evidence of a reranked row is looked up by its rank.
EvidenceByRank(shortlist, chunk, rank) == shortlist[rank]

\* hybrid_by_id: the evidence of a reranked row.
Evidence(shortlist, chunk, rank) ==
    shortlist[CHOOSE i \in DOMAIN shortlist : shortlist[i].chunk = chunk]

\* _basic_item, _hybrid_item and _reranked_item; final_rank is the position.
BasicRow(result, sparse) ==
    [chunk  |-> result.chunk,
     dense  |-> IF sparse THEN None ELSE result.score,
     sparse |-> IF sparse THEN result.score ELSE None,
     fusion |-> None]

BasicRows(results, sparse) ==
    [i \in DOMAIN results |-> BasicRow(results[i], sparse)]

RerankedRows(shortlist, chunks) ==
    [i \in DOMAIN chunks |-> [Evidence(shortlist, chunks[i], i) EXCEPT !.chunk = chunks[i]]]

Ok(rows) == [status |-> 200, rows |-> rows]
Error(status) == [status |-> status, rows |-> <<>>]

RerankedItems(shortlist, reranked) ==
    IF reranked.error THEN Error(502) ELSE Ok(RerankedRows(shortlist, reranked.chunks))

Reranked(env, topK, shortlist) ==
    RerankedItems(shortlist, Rerank(ChunksOf(shortlist), env.answer, topK, env.fallback))

\* _retrieve_items, by mode.  All but sparse need the vector store.
RetrieveItems(env, request) ==
    IF request.blank \/ (request.mode \in {"hybrid", "rerank"} /\ request.candidateK < request.topK)
    THEN Error(422)
    ELSE IF request.mode # "sparse" /\ ~env.up THEN Error(502)
    ELSE CASE request.mode = "dense" ->
                Ok(BasicRows(Dense(env.points, request.topK, env.threshold), FALSE))
           [] request.mode = "sparse" -> Ok(BasicRows(Sparse(env.rows, request.topK), TRUE))
           [] request.mode = "hybrid" -> Ok(Hybrid(env, request.topK, request.candidateK))
           [] request.mode = "rerank" -> Reranked(env, request.topK, Shortlist(env, request))

\* debug: only the owner of the knowledge base gets to retrieve.
Debug(env, request) == IF env.owned THEN RetrieveItems(env, request) ELSE Error(404)

-----------------------------------------------------------------------------
(* Metrics, as fractions <<numerator, denominator>>. *)

\* evaluate_case.  Without citations the retrieved chunks count as cited.
EvaluateCase(expected, retrieved, citations) ==
    LET cited == IF citations = {} THEN ToSet(retrieved) ELSE citations
        found == expected \cap ToSet(retrieved)
    IN  [retrieved |-> retrieved,
         hit       |-> found # {},
         recall    |-> <<Cardinality(found), Max({1, Cardinality(expected)})>>,
         citation  |-> <<Cardinality(expected \cap cited), Max({1, Cardinality(cited)})>>]

\* The first error ends an evaluation.
Evaluated(debug, cases) ==
    IF debug.status # 200 THEN [status |-> debug.status, results |-> <<>>]
    ELSE [status  |-> 200,
          results |-> [i \in DOMAIN cases |->
              EvaluateCase(cases[i].expected, ChunksOf(debug.rows), cases[i].citations)]]

\* evaluate: the cases are retrieved one by one.  All cases of a data set ask the
\* same question here and expect different chunks.
Evaluate(env, request, cases) == Evaluated(Debug(env, request), cases)

\* summarize_cases: the sum of the recalls, over a denominator that all expected
\* sets of up to three chunks divide; the mean is this over the number of cases.
TotalRecall(results) ==
    LET sum[i \in 0 .. Len(results)] ==
            IF i = 0 THEN 0
            ELSE sum[i - 1] + (6 * results[i].recall[1]) \div results[i].recall[2]
    IN  sum[Len(results)]

-----------------------------------------------------------------------------
\* At most topK rows, each of a chunk of its own that one of the result lists holds,
\* with the scores the lists give this chunk.
ShowsScores(rows, topK, dense, sparse) ==
    /\ Len(rows) <= topK
    /\ IsInjective(ChunksOf(rows))
    /\ \A i \in DOMAIN rows :
        /\ rows[i].dense = ScoreIn(dense, rows[i].chunk)
        /\ rows[i].sparse = ScoreIn(sparse, rows[i].chunk)
        /\ rows[i].dense # None \/ rows[i].sparse # None

\* The rows of a debug show what its mode has looked at in the stores.
KeepsEvidence(env, request) ==
    LET k == IF request.mode \in {"hybrid", "rerank"} THEN request.candidateK ELSE request.topK
    IN  ShowsScores(Debug(env, request).rows, request.topK,
                    IF request.mode = "sparse" THEN <<>> ELSE Firsts(env.points, k),
                    IF request.mode = "dense" THEN <<>> ELSE Sparse(env.rows, k))

\* Reranked results recall no more than the hybrid ones, and as much when there are as
\* many of them.
KeepsRecall(env, request, cases) ==
    LET evaluated(mode) == Evaluate(env, [request EXCEPT !.mode = mode], cases)
        keeps(reranked, hybrid) ==
            reranked.status = 200 =>
                /\ TotalRecall(reranked.results) <= TotalRecall(hybrid.results)
                /\ (\A i \in DOMAIN cases : Len(reranked.results[i].retrieved)
                                              = Len(hybrid.results[i].retrieved)) =>
                       TotalRecall(reranked.results) = TotalRecall(hybrid.results)
    IN  keeps(evaluated("rerank"), evaluated("hybrid"))
=============================================================================
