------------------------------ MODULE Ranking ------------------------------
(***************************************************************************)
(* The order of retrieved chunks: RRFusion.fuse of dense and sparse        *)
(* results (src/backend/app/rag/fusion/rrf.py) and CohereReranker's        *)
(* reading of the provider's answer                                        *)
(* (src/backend/app/rag/rerankers/cohere.py).  A chunk is its chunk_id, a  *)
(* natural number; results are sequences of ids, best first.               *)
(***************************************************************************)
EXTENDS Integers, Sequences, SequencesExt, FiniteSetsExt, Selection

\* _rank_candidates: the first occurrence of each chunk counts.
Unique(results) ==
    LET unique[i \in 0 .. Len(results)] ==
            IF i = 0 THEN <<>>
            ELSE IF Contains(unique[i - 1], results[i]) THEN unique[i - 1]
            ELSE Append(unique[i - 1], results[i])
    IN  unique[Len(results)]

\* The rank of a chunk that is among the results.
RankIn(results, c) == CHOOSE r \in DOMAIN Unique(results) : Unique(results)[r] = c

\* weight / (rrf_k + rank), in units of 1 / Scale.  A list that has not found the
\* chunk adds nothing.
Scale(p) ==
    LET product[r \in 0 .. p.longest] == IF r = 0 THEN 1 ELSE product[r - 1] * (p.k + r)
    IN  product[p.longest]

Reciprocal(results, c, weight, p) ==
    IF c \in ToSet(results) THEN (weight * Scale(p)) \div (p.k + RankIn(results, c)) ELSE 0

\* Variant: a chunk both lists have found keeps its score of the dense list.
ScoreOfFirst(dense, sparse, c, p) ==
    IF c \in ToSet(dense) THEN Reciprocal(dense, c, p.dense, p)
    ELSE Reciprocal(sparse, c, p.sparse, p)

\* fusion_score.
Score(dense, sparse, c, p) ==
    Reciprocal(dense, c, p.dense, p) + Reciprocal(sparse, c, p.sparse, p)

\* The sort key (-fusion_score, chunk_id).
Before(a, b, dense, sparse, p) ==
    LET x == Score(dense, sparse, a, p)
        y == Score(dense, sparse, b, p)
    IN  x > y \/ (x = y /\ a < b)

\* The chunks of both lists by that key, and the first top_k of them.
Fuse(dense, sparse, topK, p) ==
    LET found == ToSet(dense) \cup ToSet(sparse)
        before == {pair \in found \X found : Before(pair[1], pair[2], dense, sparse, p)}
        fused == Sorted(found, before)
    IN  SubSeq(fused, 1, Min({topK, Len(fused)}))

-----------------------------------------------------------------------------
\* Variant: an index the provider repeats is accepted.
BadRepeated(item, seen, n) == item.index \notin 1..n \/ ~item.finite

\* A result of the provider's answer is refused: its index is not one of the n
\* candidates or was seen before, or its score is not a finite number.
Bad(item, seen, n) == item.index \notin 1..n \/ item.index \in seen \/ ~item.finite

\* One turn of the loop: results are taken until there are top_k; a bad one before
\* that makes the whole answer invalid.
TakeItem(r, item, n, topK) ==
    IF r.invalid \/ Len(r.taken) >= topK THEN r
    ELSE IF Bad(item, ToSet(r.taken), n) THEN [r EXCEPT !.invalid = TRUE]
    ELSE [r EXCEPT !.taken = Append(@, item.index)]

NothingTaken == [taken |-> <<>>, invalid |-> FALSE]

\* _parse_response, in the provider's order (indexes count from 1).
Parse(answer, n, topK) ==
    LET parsed[i \in 0 .. Len(answer)] ==
            IF i = 0 THEN NothingTaken ELSE TakeItem(parsed[i - 1], answer[i], n, topK)
    IN  parsed[Len(answer)]

\* The fallback: the candidates as they were retrieved.
InOrder(candidates, topK) == SubSeq(candidates, 1, Min({topK, Len(candidates)}))

\* rerank: an empty list of candidates is not sent; an answer that did not come
\* (timeout, HTTP error, no key) or is invalid ends in the candidates' own
\* order, or in an error when the fallback is not enabled.
Rerank(candidates, answer, topK, fallback) ==
    LET parsed == Parse(answer.results, Len(candidates), topK)
    IN  IF candidates = <<>> THEN [error |-> FALSE, fallback |-> FALSE, chunks |-> <<>>]
        ELSE IF answer.came /\ ~parsed.invalid
             THEN [error |-> FALSE, fallback |-> FALSE,
                   chunks |-> [i \in DOMAIN parsed.taken |-> candidates[parsed.taken[i]]]]
        ELSE IF fallback THEN [error |-> FALSE, fallback |-> TRUE, chunks |-> InOrder(candidates, topK)]
        ELSE [error |-> TRUE, fallback |-> FALSE, chunks |-> <<>>]

-----------------------------------------------------------------------------
\* a is found no later than b by either list, and earlier by one of them.
Dominates(dense, sparse, a, b) ==
    LET rank(results, c) ==
            IF c \in ToSet(results)
            THEN Min({i \in DOMAIN results : results[i] = c})
            ELSE Len(dense) + Len(sparse) + 1
    IN  /\ rank(dense, a) <= rank(dense, b)
        /\ rank(sparse, a) <= rank(sparse, b)
        /\ a # b

\* A chunk of either list that dominates a fused one comes before it.
KeepsDominance(dense, sparse, topK, p) ==
    LET fused == Fuse(dense, sparse, topK, p)
    IN  \A i \in DOMAIN fused, a \in ToSet(dense) \cup ToSet(sparse) :
            Dominates(Unique(dense), Unique(sparse), a, fused[i]) =>
                \E j \in 1..(i - 1) : fused[j] = a
=============================================================================
