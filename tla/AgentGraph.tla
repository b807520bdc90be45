----------------------------- MODULE AgentGraph -----------------------------
(***************************************************************************)
(* One agent run from the inside: the two nodes of the graph               *)
(* (agents/graph.py), the runtime around them (agents/runtime.py), the     *)
(* tool registry, and the two copies that are kept of what it did: the     *)
(* JSON state of the run and the tool_call_records.  The agent can be      *)
(* edited at any time.  Requests about the run come one at a time, a call  *)
(* is named by its place in the run; AgentRuns has concurrent requests and *)
(* call ids.                                                               *)
(***************************************************************************)
EXTENDS Naturals, Sequences, SequencesExt

CONSTANTS
    Tools,      \* names of the built-in and injected tools
    Search,     \* knowledge_search
    Guarded,    \* tools with requires_approval
    MaxSteps,   \* the largest max_steps an agent may have
    Recursion   \* node visits LangGraph grants one invocation (25)

ASSUME GraphAssumption ==
    /\ Search \in Tools
    /\ Guarded \subseteq Tools
    /\ MaxSteps \in Nat \ {0}
    /\ Recursion \in Nat \ {0}

VARIABLES
    agent,      \* the agents row: max_steps and tool_names
    row,        \* the agent_runs row
    record,     \* statuses of the tool_call_records rows, in order
    sess,       \* the request at work on the run
    largest,    \* the largest max_steps the agent had since the run began
    lost        \* a request ended without saving the run: crash, or no registry

vars == <<agent, row, record, sess, largest, lost>>
ghosts == <<largest, lost>>

-----------------------------------------------------------------------------
CallStatuses == {"pending", "waiting_approval", "completed", "failed"}
RecordStatuses == {"running", "waiting_approval", "completed", "failed"}

\* tool_names: which tools, and whether one is named twice.
Agents == [max : 1 .. MaxSteps, tools : SUBSET Tools, repeated : BOOLEAN]

\* AgentState.  kb is knowledge_base_id: a UUID, or its text once it has been
\* through JSON.  pending: pending_tool_call is set, to the last call.
States == [steps    : 0 .. MaxSteps,
           calls    : BoundedSeq([tool : Tools, status : CallStatuses], MaxSteps),
           results  : 0 .. MaxSteps,
           pending  : BOOLEAN,
           approved : BOOLEAN,
           resume   : BOOLEAN,
           kb       : {"none", "uuid", "text"}]

NewState(kb) == [steps |-> 0, calls |-> <<>>, results |-> 0, pending |-> FALSE,
                 approved |-> FALSE, resume |-> FALSE, kb |-> kb]

Errors == {"none", "MAX_STEPS_EXCEEDED", "AGENT_RUNTIME_FAILED", "AGENT_TIMEOUT",
           "AGENT_LLM_FAILED", "TOOL_FAILED", "APPROVAL_REJECTED"}

Rows == [status : {"absent", "running", "waiting_approval", "completed", "failed"},
         max    : 0 .. MaxSteps,      \* max_steps as copied when the run was created
         state  : States,
         error  : Errors]

NoRow == [status |-> "absent", max |-> 0, state |-> NewState("none"), error |-> "none"]

\* limit and tools: the agent as the request has loaded it.
Sessions == [pc     : {"idle", "building", "agent", "tool", "executing", "ended", "saving"},
             limit  : 0 .. MaxSteps,
             tools  : SUBSET Tools,
             twice  : BOOLEAN,      \* one of them is named twice
             init   : States,       \* what the runtime was given
             g      : States,       \* the graph's state
             visits : 0 .. Recursion,
             out    : {"none", "waiting_approval", "completed", "failed"},
             error  : Errors,
             record : BoundedSeq(RecordStatuses, MaxSteps)] \* with what it has flushed

Idle == [pc |-> "idle", limit |-> 0, tools |-> {}, twice |-> FALSE,
         init |-> NewState("none"), g |-> NewState("none"),
         visits |-> 0, out |-> "none", error |-> "none", record |-> <<>>]

WithLast(seq, status) == [seq EXCEPT ![Len(seq)] = status]

Init ==
    /\ agent \in {a \in Agents : ~a.repeated}
    /\ row = NoRow
    /\ record = <<>>
    /\ sess = Idle
    /\ largest = agent.max
    /\ lost = FALSE

-----------------------------------------------------------------------------
(* Agents and requests *)

\* PATCH /agents/{id}: the validation checks which tools are named, not how often.
UpdateAgent ==
    /\ \E a \in Agents :
        /\ agent' = a
        /\ largest' = IF a.max > largest THEN a.max ELSE largest
    /\ UNCHANGED <<row, record, sess, lost>>

\* _json_state: what the JSON column gives back of the state.
JsonState(g) == [g EXCEPT !.kb = IF @ = "none" THEN "none" ELSE "text"]

Enter(g) == [Idle EXCEPT !.pc = "building", !.limit = agent.max, !.tools = agent.tools,
                         !.twice = agent.repeated, !.init = g, !.g = g, !.record = record]

\* run: the row is created with the agent's limits and committed as running.
StartRun(kb) ==
    /\ row.status = "absent"
    /\ sess.pc = "idle"
    /\ row' = [status |-> "running", max |-> agent.max, state |-> JsonState(NewState(kb)),
               error |-> "none"]
    /\ sess' = Enter(NewState(kb))
    /\ largest' = agent.max
    /\ UNCHANGED <<agent, record, lost>>

\* Variant: the state loses its step count on the way.
ResumeUncounted ==
    /\ row.status = "waiting_approval"
    /\ sess.pc = "idle"
    /\ LET g == [row.state EXCEPT !.approved = TRUE, !.resume = TRUE, !.steps = 0]
       IN  /\ row' = [row EXCEPT !.status = "running", !.state = g, !.error = "none"]
           /\ sess' = Enter(g)
    /\ UNCHANGED <<agent, record, ghosts>>

\* Variant: the pending call is left behind and the model asked again.
ResumeAsking ==
    /\ row.status = "waiting_approval"
    /\ sess.pc = "idle"
    /\ LET g == [row.state EXCEPT !.pending = FALSE, !.resume = TRUE]
       IN  /\ row' = [row EXCEPT !.status = "running", !.state = g, !.error = "none"]
           /\ sess' = Enter(g)
    /\ UNCHANGED <<agent, record, ghosts>>

\* approve and resume: the saved state, with the agent as it is now.
ResumeRun ==
    /\ row.status = "waiting_approval"
    /\ sess.pc = "idle"
    /\ LET g == [row.state EXCEPT !.approved = TRUE, !.resume = TRUE]
       IN  /\ row' = [row EXCEPT !.status = "running", !.state = g, !.error = "none"]
           /\ sess' = Enter(g)
    /\ UNCHANGED <<agent, record, ghosts>>

\* reject or expiry; the calls in the JSON state are left as they are.
RejectRun ==
    /\ row.status = "waiting_approval"
    /\ sess.pc = "idle"
    /\ row' = [row EXCEPT !.status = "failed", !.state.resume = FALSE,
                          !.error = "APPROVAL_REJECTED"]
    /\ record' = WithLast(record, "failed")
    /\ UNCHANGED <<agent, sess, ghosts>>

\* _build_registry: a tool named twice raises, after the run was committed as
\* running; nothing catches it, and the response is 500.
RegistryFails ==
    /\ sess.pc = "building"
    /\ sess.twice
    /\ sess' = Idle
    /\ lost' = TRUE
    /\ UNCHANGED <<agent, row, record, largest>>

\* The runtime starts; a resumed run with a pending call goes to its tool first.
EnterGraph ==
    /\ sess.pc = "building"
    /\ ~sess.twice
    /\ sess' = [sess EXCEPT !.pc = IF sess.g.resume /\ sess.g.pending THEN "tool" ELSE "agent"]
    /\ UNCHANGED <<agent, row, record, ghosts>>

-----------------------------------------------------------------------------
(* The graph *)

\* A node is visited and the graph goes on, or ends.
Visit(node) == sess.pc = node /\ sess.visits < Recursion

GoOn(pc, g, rec) ==
    /\ sess' = [sess EXCEPT !.pc = pc, !.g = g, !.record = rec,
                            !.visits = IF pc = "executing" THEN @ ELSE @ + 1]
    /\ UNCHANGED <<agent, row, record, ghosts>>

End(g, out, error, rec) ==
    /\ sess' = [sess EXCEPT !.pc = "ended", !.g = g, !.out = out, !.error = error,
                            !.record = rec, !.visits = @ + 1]
    /\ UNCHANGED <<agent, row, record, ghosts>>

\* agent_node: the step check comes before the model is asked,
StepsExhausted ==
    /\ Visit("agent")
    /\ sess.g.steps >= sess.limit
    /\ End(sess.g, "failed", "MAX_STEPS_EXCEEDED", sess.record)

\* which gives an answer
DecideAnswer ==
    /\ Visit("agent")
    /\ sess.g.steps < sess.limit
    /\ End([sess.g EXCEPT !.steps = @ + 1, !.pending = FALSE], "completed", "none",
           sess.record)

\* Variant: one step more than the limit.
DecideCallOneMore(tool) ==
    /\ Visit("agent")
    /\ sess.g.steps <= sess.limit
    /\ GoOn("tool",
            [sess.g EXCEPT !.steps = @ + 1, !.pending = TRUE,
                           !.calls = Append(@, [tool |-> tool, status |-> "pending"])],
            sess.record)

\* or asks for a tool, one of the catalogue or any other.
DecideCall(tool) ==
    /\ Visit("agent")
    /\ sess.g.steps < sess.limit
    /\ GoOn("tool",
            [sess.g EXCEPT !.steps = @ + 1, !.pending = TRUE,
                           !.calls = Append(@, [tool |-> tool, status |-> "pending"])],
            sess.record)

Call(g) == Last(g.calls)

\* The pending call, the last of the state, gets its status in the state,
Marked(g, status) == [g EXCEPT !.calls[Len(g.calls)].status = status]

\* Variant: a new record for a resumed call as well.
NotedAnew(status) == Append(sess.record, status)

\* and in its record, which a resumed call has already; another call is recorded
\* beside those of the run.
Noted(status) ==
    IF sess.g.resume /\ sess.record # <<>> THEN WithLast(sess.record, status)
    ELSE Append(sess.record, status)

\* The tool node is through with its call.
Cleared(g, status) ==
    [Marked(g, status) EXCEPT !.pending = FALSE, !.approved = FALSE, !.resume = FALSE,
                              !.results = @ + 1]

NeedsApproval == Call(sess.g).tool \in Guarded /\ ~sess.g.approved

\* ToolRegistry.execute up to the tool: not registered or arguments refused,
RefuseCall ==
    /\ Visit("tool")
    /\ End(Cleared(sess.g, "failed"), "failed", "TOOL_FAILED", Noted("failed"))

\* needing an approval,
PauseForApproval ==
    /\ Visit("tool")
    /\ Call(sess.g).tool \in sess.tools
    /\ NeedsApproval
    /\ End([Marked(sess.g, "waiting_approval") EXCEPT !.resume = FALSE],
           "waiting_approval", "none", Noted("waiting_approval"))

\* or called.
CallTool ==
    /\ Visit("tool")
    /\ Call(sess.g).tool \in sess.tools
    /\ ~NeedsApproval
    /\ GoOn("executing", sess.g, Noted("running"))

Finished(status) == WithLast(sess.record, status)

\* A search needs a knowledge base, and the collection name is made of the hex
\* form of its UUID, which a text does not have.
CanSucceed == Call(sess.g).tool = Search => sess.g.kb = "uuid"

ToolReturns ==
    /\ sess.pc = "executing"
    /\ CanSucceed
    /\ GoOn("agent", Cleared(sess.g, "completed"), Finished("completed"))

\* The tool raises or exceeds its own timeout.
ToolFails ==
    /\ sess.pc = "executing"
    /\ End(Cleared(sess.g, "failed"), "failed", "TOOL_FAILED", Finished("failed"))

-----------------------------------------------------------------------------
(* The runtime and what it saves *)

\* _failure_state: the state the runtime was given; what the graph did since is
\* only in the flushed records.
FailWith(error) ==
    /\ sess' = [sess EXCEPT !.pc = "saving", !.g = sess.init, !.out = "failed",
                            !.error = error]
    /\ UNCHANGED <<agent, row, record, ghosts>>

\* The model's reply is an error or no decision.
ModelFails ==
    /\ Visit("agent")
    /\ sess.g.steps < sess.limit
    /\ FailWith("AGENT_LLM_FAILED")

\* Variant: a tool in flight has no agent timeout over it, and the request ends.
TimeoutLost ==
    /\ sess.pc \in {"agent", "tool", "executing"}
    /\ sess' = Idle
    /\ UNCHANGED <<agent, row, record, ghosts>>

\* The agent's timeout cancels the graph wherever it is.
Timeout ==
    /\ sess.pc \in {"agent", "tool", "executing"}
    /\ FailWith("AGENT_TIMEOUT")

\* Variant: LangGraph is given max_steps for its limit of node visits.
RecursionStopAtSteps ==
    /\ sess.pc \in {"agent", "tool"} /\ sess.visits >= sess.limit
    /\ FailWith("AGENT_RUNTIME_FAILED")

\* LangGraph gives up: after the last visit it grants, or, as its count takes in
\* steps of its own, one visit earlier or when the last visit has ended the graph.
RecursionStop ==
    /\ \/ sess.pc \in {"agent", "tool"} /\ sess.visits >= Recursion - 1
       \/ sess.pc = "ended" /\ sess.visits = Recursion
    /\ FailWith("AGENT_RUNTIME_FAILED")

Return ==
    /\ sess.pc = "ended"
    /\ sess' = [sess EXCEPT !.pc = "saving"]
    /\ UNCHANGED <<agent, row, record, ghosts>>

\* _persist_runtime_result: the run and its records, in one transaction.
Save ==
    /\ sess.pc = "saving"
    /\ row' = [row EXCEPT !.status = sess.out, !.state = JsonState(sess.g),
                          !.error = sess.error]
    /\ record' = sess.record
    /\ sess' = Idle
    /\ UNCHANGED <<agent, ghosts>>

\* A crash, or a lost connection.
Abort ==
    /\ sess.pc # "idle"
    /\ sess' = Idle
    /\ lost' = TRUE
    /\ UNCHANGED <<agent, row, record, largest>>

Next ==
    \/ UpdateAgent \/ (\E kb \in {"none", "uuid"} : StartRun(kb)) \/ ResumeRun \/ RejectRun
    \/ RegistryFails \/ EnterGraph
    \/ StepsExhausted \/ DecideAnswer \/ (\E tool \in Tools : DecideCall(tool))
    \/ RefuseCall \/ PauseForApproval \/ CallTool \/ ToolReturns \/ ToolFails
    \/ ModelFails \/ Timeout \/ RecursionStop \/ Return \/ Save \/ Abort

Spec == Init /\ [][Next]_vars

-----------------------------------------------------------------------------
(* Properties *)

\* Rows, session and history hold what their fields admit; the step count stays
\* within the largest limit an agent may have, and the graph within its visits.
TypeOK ==
    /\ agent \in Agents
    /\ row \in Rows
    /\ record \in BoundedSeq(RecordStatuses, MaxSteps)
    /\ sess \in Sessions
    /\ largest \in 1 .. MaxSteps
    /\ lost \in BOOLEAN

Statuses(calls) == [i \in DOMAIN calls |-> calls[i].status]

Settled == {"completed", "failed"}

Rejected == row.error = "APPROVAL_REJECTED"

\* Runs that were not cut off: the state is the one the graph left, or, after a
\* reject or an expiry, the one it had paused with.
Clean == \/ row.status \in {"waiting_approval", "completed"}
         \/ row.error \in {"MAX_STEPS_EXCEEDED", "TOOL_FAILED"}
         \/ Rejected

\* The JSON state accounts for the run, across all its pauses: a step for every call
\* and one for the answer, a result for every call that was made, and at most the
\* last call still open, pending while the run waits for it, and for good once it was
\* rejected or expired: that run has failed with its call still pending.  A run cut
\* off by a timeout, by the model, by LangGraph's limit or a crash is not spoken of.
StateAccounts ==
    LET g == row.state
        open == {i \in DOMAIN g.calls : g.calls[i].status \notin Settled}
    IN  Clean =>
            /\ g.steps = Len(g.calls) + (IF row.status = "completed" THEN 1 ELSE 0)
            /\ g.results = Len(g.calls) - (IF g.pending THEN 1 ELSE 0)
            /\ g.pending = (row.status = "waiting_approval" \/ Rejected)
            /\ open = IF g.pending THEN {Len(g.calls)} ELSE {}

\* The audit records and the JSON state, told apart by how the run stands.
\* Whatever became of it, cut off or not: a call that the state shows as completed or
\* failed has that very status in its record.  Not cut off: they tell the same of
\* every call, and there are no further records.  Rejected or expired: they tell the
\* same of every call but the last, which the reject leaves waiting in the state and
\* sets to failed in the records.
RecordsAgree ==
    LET calls == row.state.calls
    IN  /\ \A i \in DOMAIN calls : calls[i].status \in Settled =>
               i \in DOMAIN record /\ record[i] = calls[i].status
        /\ Clean /\ ~Rejected => record = Statuses(calls)
        /\ Rejected => /\ calls # <<>> /\ Last(calls).status = "waiting_approval"
                       /\ record = WithLast(Statuses(calls), "failed")

\* However the agent is edited while the run is paused, the run makes no more calls
\* than the largest limit the agent had since it began.
BudgetHolds == Len(row.state.calls) <= largest /\ Len(sess.g.calls) <= largest

\* A run that nobody works on is not left running, unless a request about it
\* crashed, or could not even build the tools.
NothingAbandoned == (row.status = "running" /\ sess.pc = "idle") => lost

\* With limits well below LangGraph's, a run is stopped by its own step limit, and
\* saved as such, never by LangGraph: a graph needs 2 * limit + 1 visits to find its
\* steps used up.
SmallLimitIsReported ==
    (2 * largest + 1 <= Recursion - 2) => row.error # "AGENT_RUNTIME_FAILED"

\* A search of a run that has a knowledge base can succeed whenever it is made.
SearchUsable ==
    (sess.pc = "executing" /\ Call(sess.g).tool = Search /\ sess.g.kb # "none") => CanSucceed
=============================================================================
