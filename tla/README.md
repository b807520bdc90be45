# TLA+ models of AgentHub

AgentHub is a FastAPI backend (with a Vue frontend) for knowledge bases, retrieval
chat and tool-using agents. State lives in PostgreSQL (through SQLAlchemy's async ORM),
MinIO (uploaded files) and Qdrant (vectors). This directory holds models of the parts
whose correctness depends on the order in which things happen, the TLC runs that check
them and the TLAPS proofs about them. Paths below are relative to `src/`;
`app/` stands for `backend/app/`.

## 1. Inventory

| Component | State it keeps | Operations | Interacts with |
|---|---|---|---|
| Agent runs and approvals (`app/services/agents.py`, `repositories/agent_runs.py`, `repositories/approvals.py`) | `agents`, `agent_runs` (status, JSON state), `agent_approvals`, `tool_call_records` rows | run, approve, reject, resume, expire, create/update/delete agent | runtime, registry, conversations |
| Agent graph and runtime (`app/agents/`) | `AgentState` in memory: steps, pending call, approved call | agent node, tool node, routing, timeout, failure state | model handler, registry |
| Tool registry (`app/tools/registry.py`) | tool call records through its recorder | execute: validate, gate, call, record | tools, repositories |
| Built-in tools (`app/tools/`) | none (the SQL tool uses the request's session) | calculator, sql_query, knowledge_search, web_search | database, Qdrant, HTTP |
| Documents and ingestion (`app/services/documents.py`, `ingestion.py`) | `documents`, `document_chunks` rows, MinIO objects, Qdrant points | upload, process, delete, list | MinIO, Qdrant, embedder |
| Knowledge bases (`app/services/knowledge_bases.py`) | `knowledge_bases` rows | CRUD | documents (cascade) |
| Chat and conversations (`app/services/chat.py`) | `conversations`, `messages` rows | chat, list, delete | retriever, model, agent runs |
| Retrieval (`app/rag/`, `services/retrieval_debug.py`) | none | dense, sparse, hybrid, rerank, context, debug | Qdrant, PostgreSQL |
| Memory (`app/memory/`, `services/long_term_memories.py`) | `long_term_memories` rows | select history, extract, CRUD | chat, agents |
| Authentication (`app/services/auth.py`) | `users` rows | register, login | all routes |
| Observability (`app/observability/`) | none | observe, safe_emit | chat, agents, retrieval |
| Infrastructure (`app/core/`, `app/integrations/`) | one database session per request | session, settings, health | all |
| Frontend (`frontend/src/`) | stores | views | the REST API |

What is hard here: requests about one run, document or conversation interleave at
every `await`; each request works on ORM copies of rows that nothing versions and no
`SELECT` locks (ingestion excepted); operations span several commits and several
stores; agent and tool timeouts cancel code in flight; a crash can fall between any two
commits and no background job repairs anything. What makes each component correct:

* agent runs: a dangerous tool runs only after its own approval, once, within the step
  budget; an ended run stays ended; a waiting run can be decided; every call is audited;
* documents: a completed document has its chunks, vectors and object; what was deleted
  leaves nothing searchable behind; processing twice is harmless;
* conversations: every answer follows its question, the window a model sees is the
  newest that fits the budget;
* algorithms: chunks cover the text, fusion ranks by the sum of reciprocal ranks, a
  rerank never invents or repeats a candidate.

The hazards found while reading are in `PROJECT.json`, each at its line.

## 2. Plan

All modules of the plan are written. In the order of their importance:

1. **AgentRuns**: the approval runtime with concurrent requests, against the abstract
   specification **ApprovalGate**; proofs in **AgentRunsProofs**.
2. **DocumentLifecycle**: upload, process and delete over row, chunks, object and points,
   with failing and late stores and crashes; proofs in **DocumentLifecycleProofs**.
3. **AgentGraph**: one run from the inside, with both of its limits (step count and
   LangGraph's visits), edits of the agent during a pause, the JSON round trip of the
   state and the tool records; proofs in **AgentGraphProofs**.
4. **Conversations**: chats and agent runs that write to one conversation; proofs in
   **ConversationsProofs**. What the queries make of a table, and a set in sorted
   order, is in **Selection**; **SelectionProofs** has the lemmas about it and about
   recursive functions in general.
5. **Session** and **Memories**: registration, sign-in and the token the tabs of a browser
   share; the long-term memories page over them. **Memories** extends **Session**, the
   proofs of both are in **MemoriesProofs**.
6. **Chunking, PromptBudget, Ranking, Retrieval, ToolAnswers**: the pure algorithms as
   operators, against reference definitions on bounded inputs (**MCAlgorithms**) and on all
   inputs (**RankingProofs** for fusion, retrieval and reranking, **AlgorithmsProofs** for
   the others).

What a continuation could take up is in section 6.

## 3. Modules

### ApprovalGate

The promise, without requests or rows: each call is asked, then granted or denied once;
a call takes effect at most once, and a guarded one only when granted.

### AgentRuns

One run of one agent and the requests about it. A request `q` is a record `sess[q]`:
a program counter, the copies of the run row (`run`) and of the newest approval
(`call`, `seen`) in its session's identity map, the graph state it started with (`init`)
and has now (`g`), the runtime's outcome (`out`), and the tool records it has flushed
but not committed (`rec`). Committed rows are `run`, `approval`, `latest` (the approval
row with the newest `created_at`) and `record`.

| Action | Code |
|---|---|
| StartRun, EnterRuntime | `AgentService.run`: two commits (pending, running), then the runtime |
| Receive | `_get_owned_run` of approve, reject, resume |
| LoadApproval, Approve | `approve`, `reject` up to their commit |
| DenyFlush, DenyCommit | `reject`, `_expire_approval`, `_finish_rejected_run` |
| Reenter, LoadForResume, Resume | `resume` up to the runtime |
| StepsExhausted, DecideAnswer, DecideCall | `agent_node` with the parsed reply of the model |
| InvalidCall, PauseForApproval, CallTool, ToolTakesEffect, ToolReturns, ToolFails | `tool_node` and `ToolRegistry.execute` |
| RuntimeFails | the agent timeout and the error paths of `AgentRuntime.run` |
| PersistEnd, PersistWaiting, PersistDuplicate | `_persist_runtime_result` |
| Abort | a crash, a lost connection, or an exception that leaves the request: rollback |
| Lapse, UserApproves, DeleteAgent | the clock, the user in `AgentDetailView.vue`, `DELETE /agents/{id}` |

Points that matter for faithfulness:

* An ORM session reads a row once. `resume` called from `approve` therefore decides on
  the run that was loaded before the approval was committed (`LoadForResume`).
* The ORM updates only the columns whose value differs from the loaded one: `Updated`
  keeps the committed status when the session writes the status it believes is there.
* A flushed row stays locked until commit or rollback. Waits that can last (the tool
  record of a resumed run, an approval under decision) are the guards `RecordFree` and
  `ApprovalFree`; where flush and commit follow each other directly they are one action.
* Reads and the three immediate answers (404, 409, the run as loaded) have no effect on
  rows and all end in `Answer`.
* Deadlock checking is off: a run that has ended, or whose agent is gone, stays as it is.

Abstractions: messages, arguments, results and metadata are left out; an approval's
expiry is a fact that becomes true (`Lapse`); calls are uuid4 values that are never
reused (`Fresh`); validation of arguments and lookup of the tool are the
nondeterministic `InvalidCall`. `max_steps` and the tool configuration are fixed while
the run exists, and the run has no conversation: edits of the agent are in AgentGraph,
conversations in Conversations.

`clicked`, `granted` and `executed` are history variables. **MCAgentRuns** holds the
symmetry of its instances.

### DocumentLifecycle

One document: its status (`row`), its `document_chunks` (`chunked`), its file (`object`)
and its points (`vectors`), whether its knowledge base exists (`kb`), and the requests
`sess[q]` that upload, process and delete it. The chunks of one ingestion get new ids
(uuid4), so a *batch* stands for the chunks an attempt has drawn: two stores agree when
they hold the same batch.

| Action | Code |
|---|---|
| Create, Put, Mark, Refresh, Unwind, UploadFailed | `DocumentService.upload` and its handler, with `MinioAdapter` |
| Claim, Fetch, Clear, Upsert, Complete, RecordFailure | `IngestionService.process` and its handler, with `QdrantVectorStore` and the repositories |
| BeginDelete, Erase, Remove, Drop | `DocumentService.delete` |
| DropKnowledgeBase | `KnowledgeBaseService.delete` and its ON DELETE CASCADE |
| Land | the thread of a MinIO call that `asyncio.wait_for` gave up on |
| Crash | the process dies (also: a transaction fails and its handler fails too) |

Points that matter for faithfulness:

* Each call to a store is an action, and its failure may come before or after its effect.
  A MinIO call runs in a thread that a timeout does not stop, so it may also take effect
  later (`late`, `Land`). Operations of Qdrant are applied in the order it receives them
  and are not delayed.
* `process` reads the row FOR UPDATE and commits before it calls a store, so `Claim` is
  atomic. Snapshot and COMPLETED are one transaction, and a DELETE of the row waits for
  its locks, so `Complete` is atomic too.
* The first part of a failed ingestion has no open transaction, so `rollback()` does
  nothing and the handler can read `document.id`. After the second transaction has begun,
  `rollback()` expires `document`, and the handler fails (`Complete`, second branch).
* Deleting a row that is gone only warns (`Drop`); updating one raises (`Mark`).
* Failures of a commit that are not handled leave the row as it was: that is `Crash`.
  `MayDisconnect` adds the one that matters, of the refresh after a commit.
* `deletes` is a history variable: which deletes were begun, and whether any ran beside
  an upload or an ingestion.
* Deadlock checking is off: a deleted document stays deleted.

The file is one of four kinds: with text, without any, refused by the parser, or with
text PostgreSQL cannot store. Validation of name and size happens before anything is
written and is left out, as are listing and reading.

### AgentGraph

One run and one request at a time, with what AgentRuns leaves out: the agent row that can
be edited at any time (`agent`), the run row with its copied `max_steps`, its error and
its JSON state (`row`), the statuses of the tool call records in order (`record`), and the
request at work (`sess`: the limit and the tools as it loaded them, the state the runtime
was given and the one the graph has now, the node visits used up, its records).

| Action | Code |
|---|---|
| UpdateAgent | `AgentService.update` (PATCH) |
| StartRun, ResumeRun, RejectRun | `run`, `approve` and `resume`, `reject` and expiry |
| RegistryFails, EnterGraph | `_build_registry` and the start of `AgentRuntime.run` |
| StepsExhausted, DecideAnswer, DecideCall | `agent_node` |
| RefuseCall, PauseForApproval, CallTool, ToolReturns, ToolFails | `tool_node`, `ToolRegistry.execute` |
| ModelFails, Timeout, RecursionStop | the error paths of `AgentRuntime.run` |
| Return, Save | the end of the graph and `_persist_runtime_result` |
| Abort | a crash or an exception that leaves the request |

* A call is named by its place in `calls`; that ids are fresh is AgentRuns' subject.
* The runtime calls LangGraph without a configuration, so the graph is cut off after a
  fixed number of node visits (`Recursion`, 25 in the code). Every node action spends one.
* `JsonState` is what `_json_value` makes of the state: UUIDs become text (`kb`).
* `largest` (the largest limit the agent had since the run began) and `lost` (a request
  ended without saving) are history variables.

### Conversations

One conversation (`conv`, its messages `log` in the order of `created_at`), the runs with
their status and JSON state (`run`), and the requests `sess[q]`. A *turn* is one question
of the user, put to the chat service or to an agent.

| Action | Code |
|---|---|
| Begin, LoadHistory, Ask, CommitQuestion, Retrieve, Generate | `ChatService._chat` and `AgentService.run` up to the answer |
| CreateRun, Resume, FinishRun, FailRun, PauseRun, BeginResume, Reject | the run's row in `AgentService` |
| FlushAnswer, CommitAnswer, Refresh | the assistant message and the response |
| DeleteConversation, Abort | deletion with its cascade; a crash, or an exception |

* `created_at` is set when the row is flushed, and others see it with the commit: a message
  carries the session that has it flushed (`lock`), and readers skip locked ones.
* Chat and agent read their windows differently: the chat reads one message more than it
  needs, because its own question is already written and is filtered out by its id; the
  agent reads before it writes.
* Both then keep what `ShortTermMemory.select` admits (`Windowed`): the newest `History`
  messages, of these as many from the newest back as cost no more than `Budget` tokens
  (`Room` is its loop), but the newest always; one longer than the whole budget is shown
  alone and cut (`cut`). What a message costs (`estimate_tokens`) is `Size`, by turn and
  role. The settings have a limit and a budget for chats and another for runs, with the
  same defaults; the model has one pair. The model handler of a run makes its window a
  second time, within the same limits, which leaves it as it is.
* Question and answer are two transactions. A conversation that is deleted in between
  fails the second by its foreign key (`ForeignKeyFails`).
* `told`, `aborted` and `contended` are history variables.

### Session and Memories

`Session` has the users table with registration as its look-up and its insert (`reg`), and
the auth store of one tab: the token in `localStorage` (`storage`), the store (`tab`), its
request under way (`auth`). `OtherTab` changes the shared token at any time between two
requests of the store, and `foreign` remembers that it did. `Memories` adds the rows of
`long_term_memories`, and `MemoriesView.vue` with its requests: each is sent with the token
that `localStorage` has at that moment, is served at some time, and is heard, is lost, or
comes after the page gave up on it (`GiveUp`); replies overtake each other.

| Action | Code |
|---|---|
| Check, Insert, OtherRegisters, Forget | `AuthService.register`; another client; a registration that is over |
| Restore, Restored, Login, LoggedIn, UserFetched, Register, Registered, RegisterTimesOut, Logout, Reload | `stores/auth.ts` and its callers |
| ServeList, ServeCreate, ServeUpdate, ServeRemove, Refuse | `LongTermMemoryService` and the error replies |
| OpenPage, Load, OpenDialog, CancelDialog, Save, Remove | the handlers of `MemoriesView.vue` |
| HearList, HearSave, HearRemove, GiveUp, ClosePage | their continuations after the `await` |

* A sign-in or a reload leaves the page (`Leave`); the next page opens when no reply of the
  last one is under way (`Quiet`), a bound of the model: no reply of a page that is left
  is heard, so it makes no difference to the page that follows.
* `made`, `retried` and `gone` are history variables of the dialog and of removals.
* Contents of a memory, its kind and importance, and hashing of passwords are left out; a
  token stands for its account.

### Chunking, PromptBudget, Ranking, Retrieval, ToolAnswers, MCAlgorithms

Pure algorithms as operators. A text is its length (and, where `rstrip` matters, the set
of its blank positions); a chunk in a ranking is its id, an integer, so that ids are
ordered; a store is the sequence of what it holds, best first.

| Operator | Code |
|---|---|
| `Split`, `Windows`, `Turn`, `Window` | `FixedCharacterChunker.split` |
| `Kept`, `Newest` | WHERE, and ORDER BY ... DESC LIMIT turned round, of the repositories |
| `Select`, `Scan`, `Keep` | `ShortTermMemory.select` |
| `Build`, `Add`, `Fit`, `Cut` | `ContextBuilder.build` |
| `Unique`, `Score`, `Before`, `Sorted`, `Fuse` | `RRFusion._rank_candidates`, `fuse` |
| `Parse`, `TakeItem`, `Rerank`, `InOrder` | `CohereReranker._parse_response`, `rerank`, `_fallback_or_raise` |
| `Dense`, `Collect`, `Sparse`, `Hybrid` | the three retrievers |
| `RetrieveItems`, `Debug`, `Evidence`, the rows | `RetrievalDebugService` |
| `EvaluateCase`, `Evaluate`, `TotalRecall` | `evaluation/metrics.py`, `evaluate` |
| `ValidArguments`, `Execute` | `ToolRegistry.execute` before and after the tool |
| `KnowledgeSearch`, `WebSearch`, `SqlQuery` | the limits of the built-in tools |

Loops are recursive functions over the number of turns made (`Turn`, `Scan`, `Add`,
`TakeItem`, `Collect` are one turn); a loop that meets a `break` carries a flag (`done`,
`full`, `invalid`). The scores of the stores only matter by their order, so they are natural
numbers, and -1 stands for `None` (no score, no threshold). Fusion scores are rationals, compared after
multiplication with a common denominator (`Scale`); the code's floating-point sums of two
reciprocals can only differ from them in the last bit. Indexes of a rerank answer are
counted from 1. In **MCAlgorithms** a behaviour picks a kind of input and then an input of
that kind, so that every bounded input is a state, and the properties are stated against
definitions that do not follow the loops: a tiling, the longest suffix that fits, dominance
of ranks, the scores of the stores themselves.

Reading the context builder this way shows a boundary: the room for a snippet is computed
from the header alone, the entry is measured with the newline after it. When the header
ends exactly on a token boundary, a chunk that has to be cut comes out one token too long
and is dropped; as the first chunk, it leaves the context empty although it would fit cut
shorter. The result is marked as truncated (`TruncationIsReported`), so nothing documented
is violated.

## 4. Runs

| Run | Instance | Checks | Result |
|---|---|---|---|
| serial | 1 request at a time, 3 calls (2 guarded), 2 steps | TypeOK, AtMostOneEffect, WaitingIsDecidable, StepBudget, TerminalIsFinal, FollowsGate | pass |
| concurrent | 2 requests, 2 calls (both guarded), 2 steps, symmetric | NoEffectWithoutApproval, ApprovalIsAudited | pass |
| answered | 2 requests, 2 calls (1 guarded), 2 steps, fair | EveryRequestAnswered | pass |
| double_effect | 2 requests, 2 guarded calls | AtMostOneEffect | violated |
| unseen_call | 1 request, 2 guarded calls | ApprovedAsShown | violated |
| graph | limits up to 4, 7 visits, a search and a guarded tool | TypeOK, StateAccounts, RecordsAgree, BudgetHolds, NothingAbandoned, SmallLimitIsReported | pass |
| restored_search | the same | SearchUsable | violated |
| conversations | 3 chats and 1 run, 2 requests, windows of 2 messages and 3 tokens, 1 pause, symmetric | TypeOK, OwnTurnUnseen, TurnIsWhole, CompletedRunIsAnswered, OneAnswer, ResponseIsOwn, WindowIsFull | pass |
| documents | 3 requests, 3 batches, all kinds of files, crashes, late calls | TypeOK, OneIngestion, CompletedIsWhole, DeletedLeavesNothing, StatusFlow | pass |
| stuck_processing | 1 request, no crash | FailureIsRecorded | violated |
| memories | 2 accounts, 2 memories, 2 requests of the page, symmetric | TypeOK, RegistrationIsDecided, ActsAsItsUser, SavedOnce, DeletedStaysAway | pass |
| algorithms | all inputs up to the bounds below | ChunksTile, WindowIsLongest, ContextWithinBudget, TruncationIsReported, FusionKeepsDominance, RowsKeepEvidence, RerankKeepsRecall, ToolsKeepLimits | pass |

### What they show

**Agent runs.** The serial run also covers crashes: `Abort` may strike at every point. So
the approval runtime is right when the requests about a run are served one at a time, and
the violation runs show what is lost when they are not (double_effect) and what is wrong
even then (unseen_call). With two requests `TerminalIsFinal` and `WaitingIsDecidable` fail
too, for the same reason: a session decides on the copy of the run it loaded, so a resume
may write `running` over an end another request has committed. The concurrent run shows
what survives; it is also the run in which a second approval of one call
(`PersistDuplicate`) happens: a resume that holds an old copy of the run meets the approval
of a later call.

**Inside a run.** The JSON state and the tool records agree on every call of a run that was
saved as its graph left it. Two kinds of run set them apart, and `RecordsAgree` has a clause
for each. A reject or an expiry fails the run and the record of the call it waited for, but
leaves that call as `waiting_approval` in the state, and pending: `RecordsAgree` says that
this call, and no other, is told of differently, and `StateAccounts` that it stays pending.
A run that was cut off (a timeout, the model, LangGraph's limit, a crash) is saved with the
state it had before its graph ran, or not at all: all that is said of it is that the calls
this state shows as completed or failed have that status in their records. The record of a
call that a timeout cancels stays `running` for ever. `SmallLimitIsReported` says how far a limit is a run's own: with
LangGraph's 25 visits a limit above about 12 is never reported as `MAX_STEPS_EXCEEDED`,
the run ends as `AGENT_RUNTIME_FAILED` and its state is the one it began with. restored_search
is the JSON round trip: a search of a resumed run gets its knowledge base as text.

**Conversations.** What a client was told is in the conversation, no model is shown its own
question as history, and the window shows the newest messages of other turns that are
committed, as many as count and budget admit (backend/README.md:75-79 promises the newest
contiguous history within those limits): the own question takes no place in it and no
tokens. The properties exclude what the
code does not promise: a run that is cut off between its two commits (`aborted`), and two
requests that resume the same run (`contended`). `ResponseIsOwn` is about completed runs:
the response of a run that waits or has failed carries the last answer of the history it
was given, an earlier turn's.

**Documents.** The row lock, the 409 and the replacement of points suffice for everything
but three things: what stuck_processing shows; a database connection lost between the
commit and the refresh of an upload (with `MayDisconnect` set, two ingestions can overlap,
which is why the theorems carry the proviso); and a delete beside an upload or an
ingestion, which leaves points or an object of a deleted document (DeletedLeavesNothing
excludes it, the hazards list it). A delete that fails half way takes the points of a
completed document, which CompletedIsWhole excludes.

**Sessions and memories.** The unique constraint decides a race of registrations and the
loser is told; a tab acts as the user it shows for as long as no other tab changes the
shared token. After that it does not, and that is reached in the run: a second tab's
sign-in makes the first send requests as the new user (hazards). A save that is given up
and tried again may create a second memory; nothing else does.

### Bounds

* Agent runs: two steps and three calls let a run pause twice, exhaust its budget on the
  second pause and still have a call left that must not be used; the conflicts between
  requests are pairwise, so two sessions show them, and a session returns to `idle` and may
  serve any number of further requests. Each call id is used once, which makes the state
  space finite.
* Inside a run: LangGraph's 7 visits are enough for a limit of 2, perhaps for 3, never for
  4, so limits fall on both sides; `MaxSteps` bounds the edits of the agent.
* Conversations: four turns fill a window of two, with one in it, one pushed out and one
  being asked while a run is under way; one pause is enough for a resume beside a chat.
  With a budget of 3 a question costs 1, the answer of a chat 2 and that of a run 4: two
  messages may fit or not, and the newest may be longer than the budget by itself.
* Documents: three requests let an upload, an ingestion and a delete meet. Three batches
  are more than can be in use at once: one in the collection, one in the snapshot and one
  just drawn. Requests are unbounded in number: a session is reused.
* Memories: two requests of the page are what overtaking takes (a list beside a removal, a
  save beside a list), two memories let a dialog create one too many, of two accounts one
  exists and one is yet to be registered.
* Algorithms: up to 2 pages of up to 9 characters with every legal window of up to 4; up to
  4 messages of up to 5 characters, budgets of up to 4 tokens of 2 characters; contexts of
  up to 3 chunks with budgets of up to 8 tokens of 2 or 4 characters, headers that do and
  do not end on a token boundary; pairs of result lists of up to 3 out of 3 chunks,
  repetitions included, with equal and unequal weights; stores with every order of 3
  chunks, a chunk of an unfinished document, every mode, sizes with `candidate_k` below,
  at and above `top_k`, and rerank answers that are good, partial, repeated, invented or
  missing; tool arguments of right and wrong types, counts around the default and the
  limit, up to 5 rows around a `row_limit` of 3. Each boundary of the loops (empty, one
  short of, exactly at and one beyond a window, a budget or a limit) occurs.

### Fairness

Only `answered` uses it: `SF_vars(Serve(q))` for each request. The event loop runs every
coroutine; the model, the tools and the graph have timeouts; the only unbounded wait is for
a row lock, and PostgreSQL queues its waiters, so a lock that is free again and again is
obtained. Nothing is assumed about clients, the clock, crashes or deletions. All other
properties are safety properties.

## 5. Proofs

Each theorem holds for every value of the constants that satisfies the assumption of its
module.

**AgentRunsProofs**, from `RunAssumption` (guarded calls are calls, `NoCall` is none of
them, `max_steps` is positive), for any number of concurrent requests:

* `TypeCorrect`: `Spec => []TypeOK`;
* `GateHolds`: `Spec => []NoEffectWithoutApproval`.

`NoEffectWithoutApproval` is not inductive: the approved call travels from the approval row
through a session's copy of it, the run's JSON state and the graph's state to the gate. The
invariant `IInv` therefore says of each of these places that it names only granted calls:
`Backed` for states, and `Good` for sessions, which also records what the program counter
implies (a session that approves has loaded an approval; one that resumes has seen it
approved; one that executes is past the gate). `GotoGood` reduces a step to the one session
it replaces, `HoldGood` treats the three places an approval is loaded, and each action has
its own lemma.

* `ApprovalsAudited`: `Spec => []ApprovalIsAudited`, in the second part of the module, for
  any number of requests too.

It starts with a table of what each step does to the fields of its session, which
everything that follows uses. The invariant `AuditInv` says of every session what it will
commit (`Noting`): it decides on a call that has an approval, no flushed record unmakes one,
and a session about to save a pause has flushed the waiting record of that very call. It is
inductive beside `IInv`.

The last part of the module has the proviso `OneAtATime` (there is at most one request at a
time; it may crash at any step and be followed by any other), for every set of calls and
every step budget:

* `EffectsOnce`: `OneAtATime => (Spec => []AtMostOneEffect)`;
* `WaitingDecidable`: `OneAtATime => (Spec => []WaitingIsDecidable)`;
* `EffectsWithinBudget`: `OneAtATime => (Spec => []StepBudget)`;
* `EndedStaysEnded`: `OneAtATime => (Spec => TerminalIsFinal)`;
* `ImplementsGate`: `OneAtATime => (Spec => FollowsGate)`.

The proviso is needed: double_effect is a counterexample with two requests. The invariant
has two halves. `RowsInv` relates the rows: a pending approval belongs to the waiting run's
call, a granted one stays granted, and the effects of a waiting run are recorded, do not
include the call it waits for and leave a step for it. `Serving` says what the session knows
of the rows: its copy of the run is the run, the approval it decides is the newest and
undecided, and in the graph every effect is recorded or flushed and covered by a step
(`Ahead`: strictly, when a call is still to be made). That last fact is what makes the call
ids and the budget work: a fresh call has no record, so it has had no effect. For the
refinement, approve, reject or expiry, the commit of a pause and the effect of a tool map to
Grant, Deny, Ask and TakeEffect of ApprovalGate; every other step leaves its two variables
alone.

**AgentGraphProofs**, from `GraphAssumption` (search and guarded tools are tools; the limits
are positive), so for any limit of the agent and of LangGraph: `TypeCorrect`, `BudgetKept`
(`BudgetHolds`), `RunsEnd` (`NothingAbandoned`), `LimitsReported` (`SmallLimitIsReported`),
`StatesAccount` (`StateAccounts`), `RecordsAgreeAlways` (`RecordsAgree`). They follow
from one invariant, `GraphInv`, and `RecordsAgreeAlways` from a further layer, `TellInv`. `LooseInv` is the types without the exact bounds, `RowInv`
says what the committed state accounts for by the status of the run, `SessInv` the same of
the graph's state at each program counter, relating it and its records to the row it
started from, and `VisitInv` ties the visits spent to the steps made: at the agent node a graph has
spent at most two visits per step, in the tool node one less, and at its end at most
`2 * largest + 1`, which is what makes small limits reachable before LangGraph's. `TellInv`
says what the records keep of a state whatever becomes of the run: what the saved state
shows as settled is recorded as such (`Kept`), a session under way touches no record but
that of a call after these (`Below`), a run that is cut off is saved with the state its
session began with, and a rejected run has turned down its last call and no other
(`TurnedDown`).

**MemoriesProofs**, from `SessionAssumption` (`Nobody` is no account) and, where rows are
compared with accounts, `MemoryAssumption` (`"unborn"` and `"deleted"` are no accounts), for
any number of accounts, memories and requests of the page: `TypeCorrect`, and
four properties, each from an invariant of its own:

* `RegistrationsDecide` (`RegistrationIsDecided`) is nearly inductive: `DecidedInv` adds that
  a registration under way has an account;
* `ActsForOne` (`ActsAsItsUser`) rests on `UserInv`: the shared token is the tab's unless
  another tab changed it, and the user shown is the one it stands for (`StoreInv`); an open
  page belongs to a signed-in tab whose store is idle, and a closed one waits for nothing
  (`OpenInv`); requests and the lists they bring are the user's (`CallInv`);
* `DeletedMemories` (`DeletedStaysAway`), by `GoneInv`: what the page has deleted is deleted
  in the table for good, and no list under way still holds it;
* `SavesOnce` (`SavedOnce`), by `DialogInv`: one save is waited for at a time (`SaveInv`), and
  a create is sent only by a dialog that has created nothing, whose success closes it before
  it can be repeated (`OnceInv`).

**DocumentLifecycleProofs**, for every set of requests and batches, every kind of file and
every choice of crashes and late calls:

* `TypeCorrect`: `Spec => []TypeOK`;
* `IngestionsExclude`: `~MayDisconnect => (Spec => []OneIngestion)`;
* `StatusFlows`: `~MayDisconnect => (Spec => StatusFlow)`;
* `WholeDocuments`: `~MayDisconnect => (Spec => []CompletedIsWhole)`;
* `DeletionIsWhole`: `Spec => []DeletedLeavesNothing`, without the proviso.

`OneIngestion` is not inductive because an upload also writes the status: `WInv` says that
whoever *works* (an ingestion, or an upload up to its handler, but not one that only
refreshes) owns the row while it is processing; once the row is deleted an upload may find
that out while an ingestion runs, so exclusion of ingestions is kept separately. `Whole`
adds what the one ingestion under way has made of the collection: nothing before the
upsert, its own batch after it.

`DeletionIsWhole` rests on `Left`, which says nothing once a delete has overlapped other
work. While none has, whoever deletes finds nobody storing a file and no put thread left
behind (`Resting`), the points are gone once it is past erasing them and the file once it
is past removing it (`Erased`), and the row goes after everything else, so nothing can
begin on the document any more (`Gone`).

**SelectionProofs** has no specification of its own. Loops and queries are recursive
functions here, and a fact about one needs an induction; the provers cannot instantiate an
induction theorem with an operator, so the module states induction over *sets*:
`SetInduction` (a set of naturals that has 0 and with each number the next has them all)
comes from the least element of what is missing, a fact about a set that is its value.
From it follow that a recursive function exists and is what its equation says
(`Recursion`, `Iteration`), that two functions with one equation agree (`Agreement`), and
what `Kept` and `Newest` return, keep and do to a row that is added, that what every turn of
a loop keeps holds at its end (`Invariance`), and that a set sorted by a strict total order
holds every element once and in that order (`SortedInOrder`).

**ConversationsProofs**, for any number of turns and requests, every count limit and token
budget, messages of any size and any number of pauses:

* `TypeCorrect`: `Spec => []TypeOK`;
* `QuestionGivenOnce`: `Spec => []OwnTurnUnseen`;
* `TurnsAreWhole`: `Spec => []TurnIsWhole`;
* `CompletedRunsAreAnswered`: `Spec => []CompletedRunIsAnswered`;
* `AnsweredOnce`: `Spec => []OneAnswer`;
* `ResponsesAreOwn`: `Spec => []ResponseIsOwn`;
* `WindowsAreFull`: `Spec => WindowIsFull`.

The invariant `ConversationInv` is built in layers, each inductive beside those before it.
`Control` says what a program counter implies about its session and its turn; `Writing`, that
a message locked by a session is the one this session has flushed; `Keeping`, that the
committed question (and after it the answer) a session counts on is in the log until the
conversation goes; `Order`, that questions stand before answers; `Apart`, that two sessions
serve one turn only when that is `contended`. With these, `OneAnswer`,
`HistoryOfOthers` (no history holds a message of the turn it was read for, which is
`OwnTurnUnseen` carried through the model call) and `CompletedHasAnswer` are inductive, and
the properties follow. `WindowIsFull` is an action property. The one row more that a chat
reads pays for its own question, which the filter by id takes out again, so the newest
`History` messages of other turns are among what is read (`NewestTail`, `HistoryIsFull`).
Of these the loop takes the longest run that fits (`RoomFacts`, by induction over its
rounds), and as a message costs the same in a list and in its tail (`TokensOfTail`), this is
also what fits of the whole conversation (`WindowedShows`).

**RankingProofs** is about result lists, stores and requests of every size:

* `FusionsKeepDominance`: a chunk that one list ranks above another, and the other no lower,
  comes before it, for weights and `rrf_k` that are positive, as `RRFusion.__init__`
  requires. Shares are weight / (rrf_k + rank) in units of 1 / `Scale`; every denominator up
  to the length of the longer list divides the scale, so they are exact and fall strictly
  with the rank (`ScaleDivides`, `SharesFall`). `Parameters.longest` has to be at least this
  length: it belongs to the representation of fractions and has no counterpart in the code;
* `DebugsKeepEvidence`: in each of the four modes and for any answer of the reranker the rows
  are distinct chunks of the stores, at most `top_k`, with the scores they were found with.
  The collection answers best first and the table holds each chunk once (`Environments`): the
  dense retriever keeps the first passing point of a chunk, and a threshold passes over only
  worse ones (`DenseResults`); hybrid rows are chunks of one of the lists (`HybridShows`);
  reranked ones are a selection of the shortlist without repetition (`RerankSelects`);
* `RerankingKeepsRecall`: since the reranked chunks are a selection of the hybrid result, they
  hit no more of any case, and the same when there are as many (`TakenChunks`); recall is a
  sum of quotients, each of which grows with its hits (`TotalsCompare`, `DivisionGrows`).

**AlgorithmsProofs** is about inputs of every size. Its theorems come in pairs, one without
any bound and the property of the run, for all bounds, as a corollary:

* `ChunksTilePages`, `PagesAreTiled` (`ChunksTile`): after each turn the chunks so far tile
  the page up to the point that has been reached, and the page is used up after at most as
  many turns as it has characters;
* `WindowsAreLongest`, `MemoryIsLongest` (`WindowIsLongest`): after k messages the scan
  has kept them all and counted their tokens, or has stopped at the first that did not fit;
  the tokens of a longer suffix only grow, so no longer one fits;
* `ContextsKeepToBudget`, `ContextsFit` (`ContextWithinBudget`), for two or more characters
  per token: after each chunk the joined text takes no more tokens than are counted. With one
  character per token this is false, as the break between entries is two characters and
  counted as one token; the program never sets another value than the default of 4;
* `ContextsReportTruncation`, `ContextsTell` (`TruncationIsReported`): until something is
  dropped or cut, the entries are the whole texts so far, and afterwards they never are again;
* `ToolAnswersKeepLimits`, `ToolsKeep` (`ToolsKeepLimits`), by cases;
* `FusionsKeepDominance`, `FusionsKeep` (`FusionKeepsDominance`);
  `DebugsKeepEvidence`, `RowsKeep` (`RowsKeepEvidence`);
  `RerankingKeepsRecall`, `RerankKeeps` (`RerankKeepsRecall`), from **RankingProofs**.

`BoundsAssumption` says that the bounds of **MCAlgorithms** and the ids of its chunks are
natural numbers; the corollaries need it to know that the inputs are lengths and ids.

Every invariant and action property of the passing runs, and the refinement, is a theorem.
Only model-checked is liveness (`EveryRequestAnswered`), which is out of the provers' reach
with ENABLED.

## 6. Not modelled

* Observability (`app/observability/`): it reports and catches its own errors; no state of
  the program depends on it.
* Configuration, logging, health and the schema migrations: read once, or no state.
* Parsing of SQL (what the guard of the SQL tool lets through) and of arithmetic, the
  extractor of long-term memories (regular expressions), parsers and cleaner of documents,
  prompts, hashing and signing of tokens: conversions no property here is about; the
  repository's tests cover them by example.
* The metrics MRR, latency and the answer scores of the evaluation; recall, hits and
  citations are modelled.
* The rest of the frontend: its other views show what the API returns and keep no state
  beyond their forms. The approval dialog of `AgentDetailView.vue` is `UserApproves`.
* Knowledge bases: creation and renaming are single inserts and updates; deletion with its
  cascade is `DropKnowledgeBase`.
