---------------------------- MODULE ToolAnswers ----------------------------
(***************************************************************************)
(* What the built-in tools accept and how much they return: the check of   *)
(* arguments by the registry (src/backend/app/tools/registry.py), and the  *)
(* limits of knowledge_search, web_search and sql_query                    *)
(* (src/backend/app/tools/).                                               *)
(*                                                                         *)
(* Arguments are a function from their names to values [type, value]; a    *)
(* string's value is whether it has more than blanks.  An answer is        *)
(* [error, count, truncated]: the number of results, and whether they are  *)
(* marked as cut.                                                          *)
(***************************************************************************)
EXTENDS Integers, Sequences, SequencesExt, FiniteSetsExt

\* The input_schema of a tool: its arguments, of which query is required, and their
\* types.
Properties(tool) ==
    {"query"} \cup CASE tool = "knowledge_search" -> {"top_k"}
                     [] tool = "web_search" -> {"max_results"}
                     [] OTHER -> {}

TypeOf(name) == IF name = "query" THEN "string" ELSE "integer"

\* The argument that sets how many results are wanted.
CountArgument(tool) == IF tool = "knowledge_search" THEN "top_k" ELSE "max_results"

\* _validate_arguments and _matches_type: Python's True is no integer here.
ValidArguments(tool, arguments) ==
    /\ "query" \in DOMAIN arguments
    /\ \A name \in DOMAIN arguments :
        /\ name \in Properties(tool)
        /\ arguments[name].type = TypeOf(name)

Failed(error) == [error |-> error, count |-> 0, truncated |-> FALSE]
Answered(count, truncated) == [error |-> "none", count |-> count, truncated |-> truncated]

\* The number of results a search is to return, the default when it is not given.
Wanted(tool, arguments, default) ==
    IF CountArgument(tool) \in DOMAIN arguments
    THEN arguments[CountArgument(tool)].value ELSE default

\* KnowledgeSearchTool.execute: whether the context has a knowledge base, whether the
\* retriever works, and how many chunks it could return.
KnowledgeSearch(arguments, limits, bound, works, matching) ==
    LET k == Wanted("knowledge_search", arguments, limits.default)
    IN  IF ~arguments["query"].value THEN Failed("invalid_input")
        ELSE IF ~bound THEN Failed("no_knowledge_base")
        ELSE IF k \notin 1..limits.max THEN Failed("invalid_input")
        ELSE IF ~works THEN Failed("search_failed")
        ELSE Answered(Min({k, matching}), FALSE)

\* TavilyWebSearchProvider.search: of the provider's results, TRUE for one that has a
\* URL, the first max_results are read; a bad one among them spoils all.
WebSearchProvider(results, max) ==
    LET read == SubSeq(results, 1, Min({max, Len(results)}))
    IN  IF \A i \in DOMAIN read : read[i] THEN Answered(Len(read), FALSE)
        ELSE Failed("invalid_response")

\* WebSearchTool.execute; it fails too without a key, on a timeout or an HTTP error.
WebSearch(arguments, limits, reachable, results) ==
    LET k == Wanted("web_search", arguments, limits.default)
    IN  IF ~arguments["query"].value \/ k \notin 1..limits.max THEN Failed("invalid_input")
        ELSE IF ~reachable THEN Failed("request_failed")
        ELSE WebSearchProvider(results, k)

\* The LIMIT of a query: none, a number, or any other expression.
Limits(max) == {[kind |-> "none", n |-> 0]} \cup
               {[kind |-> k, n |-> n] : k \in {"number", "other"}, n \in 0..max}

\* The rows the query as it was written selects.
Selected(limit, matching) == IF limit.kind = "none" THEN matching ELSE Min({limit.n, matching})

\* _prepare_query: a limit that is missing, not a number or above row_limit becomes
\* row_limit.
PreparedLimit(limit, rowLimit) ==
    IF limit.kind # "number" \/ limit.n > rowLimit THEN rowLimit ELSE limit.n

\* Variant: a result of exactly row_limit rows is taken for whole.
TruncatedAbove(count, rowLimit) == count > rowLimit

Truncated(count, rowLimit) == count >= rowLimit

\* SqlQueryTool.execute; matching rows answer the query without its LIMIT.
SqlQuery(arguments, rowLimit, allowed, inTime, limit, matching) ==
    LET count == Min({PreparedLimit(limit, rowLimit), matching})
    IN  IF ~arguments["query"].value THEN Failed("invalid_input")
        ELSE IF ~allowed THEN Failed("forbidden")
        ELSE IF ~inTime THEN Failed("timeout")
        ELSE Answered(count, Truncated(count, rowLimit))

\* ToolRegistry.execute up to the tool's answer.
Execute(tool, arguments, answer) ==
    IF ValidArguments(tool, arguments) THEN answer ELSE Failed("invalid_input")

\* A call of a tool: [tool, arguments, limits, bound, works, limit, found], with what
\* it finds, for a search whether there is a knowledge base and, for a query, its
\* LIMIT.
AnswerOf(call) ==
    LET n == Len(call.found)
    IN  CASE call.tool = "knowledge_search" ->
                KnowledgeSearch(call.arguments, call.limits, call.bound, call.works, n)
          [] call.tool = "web_search" ->
                WebSearch(call.arguments, call.limits, call.works, call.found)
          [] OTHER ->
                SqlQuery(call.arguments, call.limits.max, TRUE, call.works, call.limit, n)

-----------------------------------------------------------------------------
\* It never returns more results than it was asked for or than its limit, and the
\* rows of a query that are not marked as truncated are all the rows it selects.
KeepsLimits(call) ==
    LET got == Execute(call.tool, call.arguments, AnswerOf(call))
    IN  got.error = "none" =>
            /\ got.count <= call.limits.max
            /\ call.tool = "sql_query" =>
                   got.truncated \/ got.count >= Selected(call.limit, Len(call.found))
            /\ call.tool # "sql_query" =>
                   got.count <= Wanted(call.tool, call.arguments, call.limits.default)

=============================================================================
