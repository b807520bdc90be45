---------------------------- MODULE MCAlgorithms ----------------------------
(***************************************************************************)
(* Every input of the pure algorithms up to the bounds below is a state;   *)
(* the invariants compare what the algorithm makes of it with what is      *)
(* promised.                                                               *)
(***************************************************************************)
EXTENDS Chunking, PromptBudget, Retrieval, ToolAnswers

CONSTANTS
    MaxPage,      \* characters of a page
    MaxWindow,    \* chunk_size
    MaxMessage,   \* characters of a message
    MaxMessages,  \* messages of a conversation
    MaxBudget,    \* tokens
    Chunks,       \* chunk ids
    MaxResults    \* results of one retriever

ASSUME BoundsAssumption ==
    /\ {MaxPage, MaxWindow, MaxMessage, MaxMessages, MaxBudget, MaxResults} \subseteq Nat
    /\ Chunks \subseteq Nat

VARIABLE input

Documents ==
    {[what |-> "document", pages |-> pages, size |-> w[1], overlap |-> w[2]] :
        pages \in BoundedSeq(0..MaxPage, 2), w \in WindowSizes(MaxWindow)}

Histories ==
    {[what |-> "history", messages |-> messages, max |-> max, budget |-> budget] :
        messages \in BoundedSeq(0..MaxMessage, MaxMessages),
        max \in 1..MaxMessages, budget \in 1..MaxBudget}

\* Headers of a length the token size divides and of one it does not; texts that
\* are blank, short or long, with or without a gap.
Retrieved ==
    {[header |-> h, len |-> t[1], blanks |-> t[2]] :
        h \in {3, 4}, t \in {<<0, {}>>, <<1, {}>>, <<5, {}>>, <<5, {2, 3}>>, <<5, {4}>>}}

Contexts ==
    {[what |-> "context", chunks |-> chunks, budget |-> budget, cpt |-> cpt] :
        chunks \in BoundedSeq(Retrieved, 3), budget \in 1..(2 * MaxBudget), cpt \in {2, 4}}

Searches ==
    {[what |-> "search", dense |-> dense, sparse |-> sparse, topK |-> topK,
      p |-> [k |-> 2, dense |-> weights[1], sparse |-> weights[2], longest |-> MaxResults]] :
        dense \in BoundedSeq(Chunks, MaxResults), sparse \in BoundedSeq(Chunks, MaxResults),
        topK \in {1, 2, 3}, weights \in {<<1, 1>>, <<1, 3>>}}

\* Results of each store, the better the score the earlier; the document of chunk 3
\* may still be at work.
Orders == {s \in BoundedSeq(Chunks, MaxResults) : IsInjective(s)}

Points == {[i \in DOMAIN s |-> [chunk |-> s[i], score |-> MaxResults + 1 - i]] : s \in Orders}

Rows == {[i \in DOMAIN s |-> [chunk |-> s[i], score |-> MaxResults + 6 - i,
                              completed |-> s[i] # 3 \/ done]] :
            s \in Orders, done \in BOOLEAN}

\* top_k and candidate_k.
Sizes == {<<1, 1>>, <<1, 3>>, <<2, 2>>, <<2, 3>>, <<3, 2>>, <<3, 3>>}

\* The reranker answers in some order, leaves candidates out, or repeats or invents an
\* index or a score, or does not answer.
Silent == [came |-> FALSE, results |-> <<>>]

Answers ==
    {Silent} \cup
    {[came |-> TRUE, results |-> [i \in DOMAIN a |-> [index |-> a[i], finite |-> a[i] # 4]]] :
        a \in {<<1>>, <<2, 1>>, <<2, 3, 1>>, <<2, 2>>, <<3, 4>>}}

Debugged(mode, sizes, up, points, rows, threshold, answer, fallback) ==
    [what    |-> "debug",
     request |-> [mode |-> mode, topK |-> sizes[1], candidateK |-> sizes[2], blank |-> FALSE],
     env     |-> [owned |-> TRUE, up |-> up, points |-> points, rows |-> rows,
                  threshold |-> threshold, answer |-> answer, fallback |-> fallback,
                  p |-> [k |-> 2, dense |-> 1, sparse |-> 1, longest |-> MaxResults]]]

\* Of the environment only what the mode looks at varies.
DenseDebugs ==
    {Debugged("dense", sizes, up, points, <<>>, threshold, Silent, FALSE) :
        sizes \in Sizes, up \in BOOLEAN, points \in Points, threshold \in {None, 3}}

SparseDebugs ==
    {Debugged("sparse", sizes, TRUE, <<>>, rows, None, Silent, FALSE) :
        sizes \in Sizes, rows \in Rows}

HybridDebugs ==
    {Debugged("hybrid", sizes, up, points, rows, None, Silent, FALSE) :
        sizes \in Sizes, up \in BOOLEAN, points \in Points, rows \in Rows}

RerankDebugs ==
    {Debugged("rerank", sizes, TRUE, points, rows, None, answer, TRUE) :
        sizes \in {<<1, 3>>, <<2, 3>>, <<3, 3>>}, points \in Points, rows \in Rows,
        answer \in Answers}

\* Without the fallback to the order of the fused list.
StrictDebugs ==
    {Debugged("rerank", <<2, 2>>, TRUE, points, rows, None, answer, FALSE) :
        points \in Points, rows \in Rows, answer \in Answers}

Debugs == DenseDebugs \cup SparseDebugs \cup HybridDebugs \cup RerankDebugs \cup StrictDebugs

\* Two questions a data set may put.
Cases == <<[expected |-> {1, 3}, citations |-> {}], [expected |-> {2}, citations |-> {1, 2}]>>

\* Arguments with and without a count, of the right type and of others.
Tools == {"knowledge_search", "web_search", "sql_query"}

ArgumentLists ==
    LET queries == {[type |-> "string", value |-> text] : text \in BOOLEAN}
        counts == {[type |-> "integer", value |-> n] : n \in 0..4}
                      \cup {[type |-> "boolean", value |-> 1]}
    IN  {[x \in {"query"} |-> q] : q \in queries}
            \cup {[x \in {"query", name} |-> IF x = "query" THEN q ELSE n] :
                    q \in queries, name \in {"top_k", "max_results"}, n \in counts}
            \cup {[x \in {"max_results"} |-> n] : n \in counts}

ToolCalls ==
    {[what |-> "tool", tool |-> tool, arguments |-> arguments, limits |-> [default |-> 2, max |-> 3],
      bound |-> bound, works |-> works, limit |-> [kind |-> "none", n |-> 0], found |-> found] :
        tool \in Tools \ {"sql_query"}, arguments \in ArgumentLists, bound, works \in BOOLEAN,
        found \in BoundedSeq(BOOLEAN, 4)}
    \cup
    {[what |-> "tool", tool |-> "sql_query", arguments |-> arguments,
      limits |-> [default |-> 2, max |-> 3], bound |-> TRUE, works |-> works, limit |-> limit,
      found |-> found] :
        arguments \in ArgumentLists, works \in BOOLEAN, limit \in Limits(5),
        found \in {[i \in 1..n |-> TRUE] : n \in 0..5}}

Inputs(kind) ==
    CASE kind = "chunking" -> Documents
      [] kind = "memory" -> Histories
      [] kind = "context" -> Contexts
      [] kind = "fusion" -> Searches
      [] kind = "debug" -> Debugs
      [] kind = "tools" -> ToolCalls

Init ==
    \E kind \in {"chunking", "memory", "context", "fusion", "debug", "tools"} :
        input = [what |-> "none", kind |-> kind]

Next ==
    \/ input.what = "none" /\ input' \in Inputs(input.kind)
    \/ input.what # "none" /\ UNCHANGED input

Spec == Init /\ [][Next]_input

Is(what) == input.what = what

-----------------------------------------------------------------------------
\* No character of a page is lost between two chunks, none is repeated beyond the
\* overlap, and no chunk lies within another, for every page of a document
\* (FixedCharacterChunker.split).
ChunksTile == Is("document") => PagesTile(input.pages, input.size, input.overlap)

\* The model sees the newest contiguous messages that fit, all of them, and never
\* none when there is one (ShortTermMemory.select).
WindowIsLongest ==
    Is("history") =>
        Select(input.messages, input.max, input.budget, 2).kept
            = LongestFit(input.messages, input.max, input.budget, 2)

\* The context the model is given keeps to its budget, also when the whole text is
\* measured, with its separators (ContextBuilder.build).
ContextWithinBudget ==
    Is("context") => KeepsToBudget(input.chunks, input.budget, input.cpt)

\* The result is marked as truncated exactly when some text is missing from it.
TruncationIsReported ==
    Is("context") => ReportsTruncation(input.chunks, input.budget, input.cpt)

\* A chunk that both retrievers rank above another comes before it, however often
\* they repeat chunks and however they are weighted (RRFusion.fuse).
FusionKeepsDominance ==
    Is("search") => KeepsDominance(input.dense, input.sparse, input.topK, input.p)

\* Every row of a debug is a chunk of its own, there are at most top_k, and each shows
\* exactly the scores the retrievers gave its chunk, whatever a reranker answers
\* (RetrievalDebugService._retrieve_items).
RowsKeepEvidence == Is("debug") => KeepsEvidence(input.env, input.request)

\* Reranking orders the chunks of the hybrid result anew and brings in no other: on a
\* data set its recall is never above that of mode "hybrid", and the same when the
\* provider answers for every candidate or the fallback is used, however large
\* candidate_k is (RetrievalDebugService.evaluate).
RerankKeepsRecall ==
    (Is("debug") /\ input.request.mode = "rerank") =>
        KeepsRecall(input.env, input.request, Cases)

\* A tool never returns more results than it was asked for or than its limit, and the
\* rows of a query that are not marked as truncated are all the rows it selects
\* (the built-in tools, SqlQueryTool.execute).
ToolsKeepLimits == Is("tool") => KeepsLimits(input)
=============================================================================
