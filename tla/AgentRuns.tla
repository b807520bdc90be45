----------------------------- MODULE AgentRuns -----------------------------
(***************************************************************************)
(* The life of one agent run: the HTTP requests that start it, approve,    *)
(* reject or resume it, each with a database session of its own, and the   *)
(* rows they share (src/backend/app/services/agents.py with the runtime,   *)
(* the tool registry and the repositories it calls).                       *)
(*                                                                         *)
(* A request reads rows into its session (an ORM identity map: a row read  *)
(* once is not read again) and acts on that copy; nothing versions the     *)
(* rows and no read takes a lock.  What a request flushed is visible to    *)
(* the others only after its commit, and an UPDATE of a row that another   *)
(* session has updated and not committed waits for that commit.  An action *)
(* is the code between two points where another request can intervene.    *)
(***************************************************************************)
EXTENDS Naturals, FiniteSets

CONSTANTS
    Requests,  \* requests the server handles at the same time
    Calls,     \* tool-call ids uuid4 can hand out
    Guarded,   \* those whose tool sets requires_approval
    MaxSteps,  \* the run's max_steps
    NoCall     \* None, where a call id is expected

ASSUME RunAssumption ==
    /\ Guarded \subseteq Calls
    /\ NoCall \notin Calls
    /\ MaxSteps \in Nat \ {0}

VARIABLES
    agent,     \* the agent row exists
    run,       \* the agent_runs row: its status and its JSON state
    approval,  \* approval[c]: status of the agent_approvals row of call c
    latest,    \* the call of the approval row created last
    record,    \* record[c]: status of the tool_call_records row of call c
    overdue,   \* calls whose approval has passed its expires_at
    sess,      \* sess[q]: the request q and its session
    clicked,   \* calls for which the user chose "approve" when shown them
    granted,   \* calls whose approval was ever committed as approved
    executed   \* executed[c]: how often the tool of c took effect

db == <<run, approval, latest, record>>
ghosts == <<clicked, granted, executed>>
vars == <<agent, overdue, sess, db, ghosts>>

-----------------------------------------------------------------------------
RunStatuses ==
    {"absent", "pending", "running", "waiting_approval", "completed", "failed"}

Terminal == {"completed", "failed"}

ApprovalStatuses == {"none", "pending", "approved", "rejected", "expired"}

RecordStatuses == {"absent", "running", "waiting_approval", "completed", "failed"}

\* The part of AgentState that decides what a run does next.
States == [steps    : 0 .. MaxSteps,
           pending  : Calls \cup {NoCall},
           approved : Calls \cup {NoCall},
           resume   : BOOLEAN]

NewState == [steps |-> 0, pending |-> NoCall, approved |-> NoCall, resume |-> FALSE]

RunRows == [status : RunStatuses, state : States]

NoRun == [status |-> "absent", state |-> NewState]

Phases ==
    {"idle", "starting", "approve", "approving", "reject", "rejecting", "expiring",
     "denying", "reentering", "resume", "resuming",
     "agent", "tool", "executing", "returning", "persisting"}

Sessions ==
    [pc   : Phases,
     run  : RunRows,                                  \* the run as this session knows it
     call : Calls \cup {NoCall},                      \* the approval it has loaded
     seen : ApprovalStatuses \cup {"overdue"},        \*   and the status it saw
     init : States,                                   \* the state the runtime was given
     g    : States,                                   \* the graph's current state
     out  : {"none", "waiting_approval", "completed", "failed"},
     rec  : [Calls -> RecordStatuses \cup {"clean"}]] \* flushed, not committed

Idle ==
    [pc |-> "idle", run |-> NoRun, call |-> NoCall, seen |-> "none",
     init |-> NewState, g |-> NewState, out |-> "none",
     rec |-> [c \in Calls |-> "clean"]]

Init ==
    /\ agent = TRUE
    /\ run = NoRun
    /\ approval = [c \in Calls |-> "none"]
    /\ latest = NoCall
    /\ record = [c \in Calls |-> "absent"]
    /\ overdue = {}
    /\ sess = [q \in Requests |-> Idle]
    /\ clicked = {}
    /\ granted = {}
    /\ executed = [c \in Calls |-> 0]

-----------------------------------------------------------------------------
(* Sessions and rows *)

Goto(q, fields) == sess' = [sess EXCEPT ![q] = fields]

\* Variant: the session goes back to the pool without a rollback.
AnswerKeepingLocks(q) == Goto(q, [Idle EXCEPT !.rec = sess[q].rec])

\* The response is sent, or an exception is: the session is closed.
Answer(q) == Goto(q, Idle)

\* The row as q's UPDATE leaves it: the ORM writes the columns whose value
\* differs from the one q loaded (a new JSON state always does).
Updated(q, status, state) ==
    [status |-> IF status = sess[q].run.status THEN run.status ELSE status,
     state  |-> state]

\* No other session has an uncommitted update of the tool record of c.
RecordFree(q, c) == \A p \in Requests \ {q} : sess[p].rec[c] = "clean"

\* No other session has an uncommitted decision on the approval of c.
ApprovalFree(q, c) ==
    \A p \in Requests \ {q} : ~(sess[p].pc = "denying" /\ sess[p].call = c)

\* The run's newest approval as a session that reads it now sees it, and the
\* time it compares expires_at with.
Seen ==
    IF latest = NoCall THEN "none"
    ELSE IF approval[latest] = "pending" /\ latest \in overdue THEN "overdue"
    ELSE approval[latest]

\* The session goes on with the newest approval loaded (unless it already was).
Hold(q, pc) ==
    Goto(q, [sess[q] EXCEPT !.pc = pc, !.call = latest,
                            !.seen = IF sess[q].call = latest THEN @ ELSE Seen])

\* uuid4: a call id no row and no session holds.
Fresh(c) ==
    /\ record[c] = "absent"
    /\ \A q \in Requests : sess[q].rec[c] = "clean" /\ sess[q].g.pending # c

-----------------------------------------------------------------------------
(* POST /agents/{id}/runs: AgentService.run up to the runtime *)

StartRun(q) ==
    /\ sess[q].pc = "idle"
    /\ agent
    /\ run.status = "absent"
    /\ run' = [status |-> "pending", state |-> NewState]
    /\ Goto(q, [Idle EXCEPT !.pc = "starting", !.run = run'])
    /\ UNCHANGED <<agent, overdue, approval, latest, record, ghosts>>

EnterRuntime(q) ==
    /\ sess[q].pc = "starting"
    /\ run' = Updated(q, "running", NewState)
    /\ Goto(q, [sess[q] EXCEPT !.pc = "agent", !.run = run'])
    /\ UNCHANGED <<agent, overdue, approval, latest, record, ghosts>>

-----------------------------------------------------------------------------
(* POST .../approve, .../reject, .../resume up to the runtime *)

\* The user, shown the pending call, chooses to approve it.  From then on an
\* approve request may arrive, and may arrive again: a retry or a second click.
UserApproves(c) ==
    /\ run.status = "waiting_approval"
    /\ latest = c
    /\ approval[c] = "pending"
    /\ clicked' = clicked \cup {c}
    /\ UNCHANGED <<agent, overdue, sess, db, granted, executed>>

\* _get_owned_run: the agent, then the run, are read into a new session.
Receive(q, op) ==
    /\ sess[q].pc = "idle"
    /\ op = "approve" => clicked # {}
    /\ agent
    /\ run.status # "absent"
    /\ Goto(q, [Idle EXCEPT !.pc = op, !.run = run])
    /\ UNCHANGED <<agent, overdue, db, ghosts>>

\* Variant: approve does not refuse a denied approval.
LoadApprovalAnyStatus(q) ==
    /\ sess[q].pc \in {"approve", "reject"}
    /\ \/ Seen = "none" /\ Answer(q)
       \/ Seen # "none" /\ sess[q].pc = "approve" /\ Hold(q, "approving")
       \/ Seen # "none" /\ sess[q].pc = "reject" /\ Hold(q, "rejecting")
    /\ UNCHANGED <<agent, overdue, db, ghosts>>

\* get_for_run: the newest approval, and what approve and reject do with it:
\* 404 without one; an overdue one is expired; a pending one is decided; approve
\* goes on to resume() with an approved one; every other answer is immediate
\* (409, or the run as it was loaded).
LoadApproval(q) ==
    /\ sess[q].pc \in {"approve", "reject"}
    /\ \/ Seen = "overdue" /\ Hold(q, "expiring")
       \/ Seen = "pending" /\ sess[q].pc = "approve" /\ Hold(q, "approving")
       \/ Seen = "pending" /\ sess[q].pc = "reject" /\ Hold(q, "rejecting")
       \/ Seen = "approved" /\ sess[q].pc = "approve" /\ Hold(q, "reentering")
       \/ Seen = "approved" /\ sess[q].pc = "reject" /\ Answer(q)
       \/ Seen \in {"none", "rejected", "expired"} /\ Answer(q)
    /\ UNCHANGED <<agent, overdue, db, ghosts>>

\* approve of a pending approval: flush and commit APPROVED, then resume().
Approve(q) ==
    /\ sess[q].pc = "approving"
    /\ ApprovalFree(q, sess[q].call)
    /\ approval' = [approval EXCEPT ![sess[q].call] = "approved"]
    /\ granted' = granted \cup {sess[q].call}
    /\ Goto(q, [sess[q] EXCEPT !.pc = "reentering", !.seen = "approved"])
    /\ UNCHANGED <<agent, overdue, run, latest, record, clicked, executed>>

\* The new approval status is flushed, which locks its row until DenyCommit.
DenyFlush(q) ==
    /\ sess[q].pc \in {"rejecting", "expiring"}
    /\ ApprovalFree(q, sess[q].call)
    /\ Goto(q, [sess[q] EXCEPT
                  !.pc = "denying",
                  !.seen = IF sess[q].pc = "expiring" THEN "expired" ELSE "rejected"])
    /\ UNCHANGED <<agent, overdue, db, ghosts>>

\* Variant: a denied approval is committed and the run left as it is.
DenyCommitApprovalOnly(q) ==
    /\ sess[q].pc = "denying"
    /\ approval' = [approval EXCEPT ![sess[q].call] = sess[q].seen]
    /\ Answer(q)
    /\ UNCHANGED <<agent, overdue, run, latest, record, ghosts>>

\* _finish_rejected_run and the commit: tool record and run become failed.
DenyCommit(q) ==
    LET c == sess[q].call IN
    /\ sess[q].pc = "denying"
    /\ RecordFree(q, c)
    /\ approval' = [approval EXCEPT ![c] = sess[q].seen]
    /\ record' = [record EXCEPT ![c] = IF @ = "absent" THEN @ ELSE "failed"]
    /\ run' = Updated(q, "failed", [sess[q].run.state EXCEPT !.resume = FALSE])
    /\ Answer(q)
    /\ UNCHANGED <<agent, overdue, latest, ghosts>>

\* approve calls resume(), which reads the agent again (404 when it is gone);
\* the run is already in the session and keeps the attributes it had.
Reenter(q) ==
    /\ sess[q].pc = "reentering"
    /\ IF agent THEN Goto(q, [sess[q] EXCEPT !.pc = "resume"]) ELSE Answer(q)
    /\ UNCHANGED <<agent, overdue, db, ghosts>>

\* Variants: resume does not look at the run's status, or takes a pending
\* approval for an approved one.
LoadForResumeAnyRun(q) ==
    /\ sess[q].pc = "resume"
    /\ \/ Seen = "approved" /\ Hold(q, "resuming")
       \/ Seen # "approved" /\ Answer(q)
    /\ UNCHANGED <<agent, overdue, db, ghosts>>

LoadForResumeUndecided(q) ==
    /\ sess[q].pc = "resume"
    /\ \/ Seen \in {"pending", "approved"} /\ Hold(q, "resuming")
       \/ Seen \notin {"pending", "approved"} /\ Answer(q)
    /\ UNCHANGED <<agent, overdue, db, ghosts>>

\* resume reads the newest approval; one the session already holds keeps the
\* status it had there.  It goes on only with an approved one and a run its
\* session knows as waiting; a pending one is 409, a denied one no change.
LoadForResume(q) ==
    LET seen == IF sess[q].call = latest THEN sess[q].seen ELSE Seen
        waiting == sess[q].run.status = "waiting_approval"
    IN  /\ sess[q].pc = "resume"
        /\ \/ seen = "overdue" /\ Hold(q, "expiring")
           \/ seen = "approved" /\ waiting /\ Hold(q, "resuming")
           \/ seen = "approved" /\ ~waiting /\ Answer(q)
           \/ seen \in {"none", "pending", "rejected", "expired"} /\ Answer(q)
        /\ UNCHANGED <<agent, overdue, db, ghosts>>

\* Variant: the step count is not taken over from the saved state.
ResumeWithFreshBudget(q) ==
    /\ sess[q].pc = "resuming"
    /\ LET state == [sess[q].run.state EXCEPT !.steps = 0, !.approved = sess[q].call,
                                              !.resume = TRUE]
       IN  /\ run' = Updated(q, "running", state)
           /\ Goto(q, [Idle EXCEPT
                         !.pc = IF state.pending = NoCall THEN "agent" ELSE "tool",
                         !.run = run', !.init = state, !.g = state])
    /\ UNCHANGED <<agent, overdue, approval, latest, record, ghosts>>

\* The approved call is put into the saved state, the run is committed as
\* running, and the graph starts at its tool node when a call is pending.  The
\* approval is not looked at again.
Resume(q) ==
    /\ sess[q].pc = "resuming"
    /\ LET state == [sess[q].run.state EXCEPT !.approved = sess[q].call, !.resume = TRUE]
       IN  /\ run' = Updated(q, "running", state)
           /\ Goto(q, [Idle EXCEPT
                         !.pc = IF state.pending = NoCall THEN "agent" ELSE "tool",
                         !.run = run', !.init = state, !.g = state])
    /\ UNCHANGED <<agent, overdue, approval, latest, record, ghosts>>

-----------------------------------------------------------------------------
(* The runtime: graph nodes and the tool registry *)

Finish(q, g, out) == [sess[q] EXCEPT !.pc = "persisting", !.g = g, !.out = out]

\* The state after the tool node is done with the pending call.
Cleared(g) == [g EXCEPT !.pending = NoCall, !.approved = NoCall, !.resume = FALSE]

Noted(q, c, status) == [sess[q].rec EXCEPT ![c] = status]

StepsExhausted(q) ==
    /\ sess[q].pc = "agent"
    /\ sess[q].g.steps >= MaxSteps
    /\ Goto(q, Finish(q, sess[q].g, "failed"))
    /\ UNCHANGED <<agent, overdue, db, ghosts>>

DecideAnswer(q) ==
    /\ sess[q].pc = "agent"
    /\ sess[q].g.steps < MaxSteps
    /\ Goto(q, Finish(q, [sess[q].g EXCEPT !.steps = @ + 1, !.pending = NoCall],
                      "completed"))
    /\ UNCHANGED <<agent, overdue, db, ghosts>>

\* Variant: the step check lets one step too many through.
DecideCallOneMore(q, c) ==
    /\ sess[q].pc = "agent"
    /\ sess[q].g.steps <= MaxSteps
    /\ Fresh(c)
    /\ Goto(q, [sess[q] EXCEPT !.pc = "tool", !.g.steps = @ + 1, !.g.pending = c])
    /\ UNCHANGED <<agent, overdue, db, ghosts>>

DecideCall(q, c) ==
    /\ sess[q].pc = "agent"
    /\ sess[q].g.steps < MaxSteps
    /\ Fresh(c)
    /\ Goto(q, [sess[q] EXCEPT !.pc = "tool", !.g.steps = @ + 1, !.g.pending = c])
    /\ UNCHANGED <<agent, overdue, db, ghosts>>

\* ToolRegistry.execute up to the tool: the record of the call is created or,
\* on resume, found, and flushed.
CanNote(q) == sess[q].pc = "tool" /\ RecordFree(q, sess[q].g.pending)

\* The tool is not configured (any more) or refuses the arguments.
InvalidCall(q) ==
    /\ CanNote(q)
    /\ Goto(q, [Finish(q, Cleared(sess[q].g), "failed") EXCEPT
                  !.rec = Noted(q, sess[q].g.pending, "failed")])
    /\ UNCHANGED <<agent, overdue, db, ghosts>>

NeedsApproval(g) == g.pending \in Guarded /\ g.approved # g.pending

\* Variant: the gate is asked before the record of the call is created.
PauseUnrecorded(q) ==
    /\ CanNote(q)
    /\ NeedsApproval(sess[q].g)
    /\ Goto(q, Finish(q, [sess[q].g EXCEPT !.resume = FALSE], "waiting_approval"))
    /\ UNCHANGED <<agent, overdue, db, ghosts>>

\* The gate: the call stays pending in the state and the graph ends.
PauseForApproval(q) ==
    /\ CanNote(q)
    /\ NeedsApproval(sess[q].g)
    /\ Goto(q, [Finish(q, [sess[q].g EXCEPT !.resume = FALSE], "waiting_approval") EXCEPT
                  !.rec = Noted(q, sess[q].g.pending, "waiting_approval")])
    /\ UNCHANGED <<agent, overdue, db, ghosts>>

CallTool(q) ==
    /\ CanNote(q)
    /\ ~NeedsApproval(sess[q].g)
    /\ Goto(q, [sess[q] EXCEPT !.pc = "executing",
                               !.rec = Noted(q, sess[q].g.pending, "running")])
    /\ UNCHANGED <<agent, overdue, db, ghosts>>

\* The effect of the tool on the outside world.
ToolTakesEffect(q) ==
    /\ sess[q].pc = "executing"
    /\ executed' = [executed EXCEPT ![sess[q].g.pending] = @ + 1]
    /\ Goto(q, [sess[q] EXCEPT !.pc = "returning"])
    /\ UNCHANGED <<agent, overdue, db, clicked, granted>>

ToolReturns(q) ==
    /\ sess[q].pc = "returning"
    /\ Goto(q, [sess[q] EXCEPT !.pc = "agent", !.g = Cleared(@),
                               !.rec = Noted(q, sess[q].g.pending, "completed")])
    /\ UNCHANGED <<agent, overdue, db, ghosts>>

\* The tool raises or exceeds its own timeout, before or after its effect.
ToolFails(q) ==
    /\ sess[q].pc \in {"executing", "returning"}
    /\ Goto(q, [Finish(q, Cleared(sess[q].g), "failed") EXCEPT
                  !.rec = Noted(q, sess[q].g.pending, "failed")])
    /\ UNCHANGED <<agent, overdue, db, ghosts>>

\* The agent timeout cancels the graph, or the model's reply is an error: the
\* outcome is the state the runtime was given, marked failed.  The registry
\* does not catch the cancellation, so the tool record stays as it was.
RuntimeFails(q) ==
    /\ sess[q].pc \in {"agent", "executing", "returning"}
    /\ Goto(q, Finish(q, sess[q].init, "failed"))
    /\ UNCHANGED <<agent, overdue, db, ghosts>>

-----------------------------------------------------------------------------
(* _persist_runtime_result *)

Committed(q) ==
    [c \in Calls |-> IF sess[q].rec[c] = "clean" THEN record[c] ELSE sess[q].rec[c]]

PersistEnd(q) ==
    /\ sess[q].pc = "persisting"
    /\ sess[q].out \in Terminal
    /\ run' = Updated(q, sess[q].out, sess[q].g)
    /\ record' = Committed(q)
    /\ Answer(q)
    /\ UNCHANGED <<agent, overdue, approval, latest, ghosts>>

\* The new approval, the run and the records are one transaction.
PersistWaiting(q) ==
    LET c == sess[q].g.pending IN
    /\ sess[q].pc = "persisting"
    /\ sess[q].out = "waiting_approval"
    /\ approval[c] = "none"
    /\ approval' = [approval EXCEPT ![c] = "pending"]
    /\ latest' = c
    /\ run' = Updated(q, "waiting_approval", sess[q].g)
    /\ record' = Committed(q)
    /\ Answer(q)
    /\ UNCHANGED <<agent, overdue, ghosts>>

\* uq_agent_approvals_run_call: a second approval of one call is an error, the
\* exception leaves the request, and its transaction is rolled back.
PersistDuplicate(q) ==
    /\ sess[q].pc = "persisting"
    /\ sess[q].out = "waiting_approval"
    /\ approval[sess[q].g.pending] # "none"
    /\ Answer(q)
    /\ UNCHANGED <<agent, overdue, db, ghosts>>

-----------------------------------------------------------------------------
(* The environment *)

\* The process dies, the database connection is lost, or a statement of the
\* session failed and every later one does (a failed SQL tool, a flush the agent
\* timeout cancelled): the transaction is rolled back.
Abort(q) ==
    /\ sess[q].pc # "idle"
    /\ Answer(q)
    /\ UNCHANGED <<agent, overdue, db, ghosts>>

\* expires_at passes; only of a pending approval does anyone ask.
Lapse(c) ==
    /\ approval[c] = "pending"
    /\ c \notin overdue
    /\ overdue' = overdue \cup {c}
    /\ UNCHANGED <<agent, sess, db, ghosts>>

\* DELETE /agents/{id}; runs keep the agent_id, which is no foreign key.
DeleteAgent ==
    /\ agent
    /\ agent' = FALSE
    /\ UNCHANGED <<overdue, sess, db, ghosts>>

-----------------------------------------------------------------------------
\* What the server does by itself once it has request q.
Serve(q) ==
    \/ EnterRuntime(q) \/ LoadApproval(q)
    \/ Approve(q) \/ DenyFlush(q) \/ DenyCommit(q)
    \/ Reenter(q) \/ LoadForResume(q) \/ Resume(q)
    \/ StepsExhausted(q) \/ DecideAnswer(q) \/ (\E c \in Calls : DecideCall(q, c))
    \/ InvalidCall(q) \/ PauseForApproval(q) \/ CallTool(q)
    \/ ToolTakesEffect(q) \/ ToolReturns(q) \/ ToolFails(q) \/ RuntimeFails(q)
    \/ PersistEnd(q) \/ PersistWaiting(q) \/ PersistDuplicate(q)

Arrive(q) == StartRun(q) \/ (\E op \in {"approve", "reject", "resume"} : Receive(q, op))

Next ==
    \/ \E q \in Requests : Serve(q) \/ Arrive(q) \/ Abort(q)
    \/ \E c \in Calls : UserApproves(c) \/ Lapse(c)
    \/ DeleteAgent

Spec == Init /\ [][Next]_vars

\* The event loop runs every request's coroutine, and every await in it ends but
\* the wait for a row another session has locked: the model, the tools and the
\* whole graph have timeouts.  PostgreSQL queues the sessions that wait for a row,
\* so one that waits while the row is released again and again gets it: strong
\* fairness.  Nothing is assumed of the clients, of crashes or of the clock.
Fairness == \A q \in Requests : SF_vars(Serve(q))

FairSpec == Spec /\ Fairness

-----------------------------------------------------------------------------
(* Properties *)

\* Every row and session holds the values its columns and fields admit; the
\* saved step count never exceeds max_steps (agent_node's first check).
TypeOK ==
    /\ agent \in BOOLEAN
    /\ run \in RunRows
    /\ approval \in [Calls -> ApprovalStatuses]
    /\ latest \in Calls \cup {NoCall}
    /\ record \in [Calls -> RecordStatuses]
    /\ overdue \subseteq Calls
    /\ sess \in [Requests -> Sessions]
    /\ clicked \subseteq Calls
    /\ granted \subseteq Calls
    /\ executed \in [Calls -> Nat]

\* However the requests interleave, a dangerous tool has had an effect only if
\* an approval of that very call was committed before (the gate in
\* ToolRegistry.execute compares the approved id with the pending one).
NoEffectWithoutApproval ==
    \A c \in Guarded : executed[c] > 0 => c \in granted

\* An approval row is committed together with the tool record of its call, so
\* that the decision taken on it has a record to be written to.
ApprovalIsAudited ==
    \A c \in Calls : approval[c] # "none" => record[c] # "absent"

\* Every request is answered: the waits of a reject for a tool record that a
\* resumed run has flushed, and of one decision for another, all end.
EveryRequestAnswered ==
    \A q \in Requests : (sess[q].pc # "idle") ~> (sess[q].pc = "idle")

\* Repeating approve and resume runs the approved tool once: no call of the run
\* takes effect twice.
AtMostOneEffect == \A c \in Calls : executed[c] <= 1

\* A completed or failed run stays as it ended: no request moves it on.
TerminalIsFinal ==
    [][run.status \in Terminal => run'.status = run.status]_run

\* A waiting run can still be moved on by its user: its newest approval is of
\* the pending call, is not denied, and the tool record waits with it.
\* (approve, reject and resume all leave a run with a denied approval alone.)
WaitingIsDecidable ==
    run.status = "waiting_approval" =>
        /\ latest = run.state.pending
        /\ latest # NoCall
        /\ approval[latest] \in {"pending", "approved"}
        /\ record[latest] = "waiting_approval"

\* max_steps bounds the whole run: its pauses for approval, in which the step
\* count travels through the JSON state, do not refill the budget.
StepBudget == Cardinality({c \in Calls : executed[c] > 0}) <= MaxSteps

\* An approval is committed only for a call the user was shown and approved.
ApprovedAsShown == granted \subseteq clicked

\* What AgentRuns promises is ApprovalGate: "denied" stands for rejected and
\* expired.
Gate == INSTANCE ApprovalGate WITH
    verdict <- [c \in Calls |->
                  CASE approval[c] = "none"     -> "none"
                    [] approval[c] = "pending"  -> "asked"
                    [] approval[c] = "approved" -> "granted"
                    [] OTHER                    -> "denied"],
    effects <- executed

\* The run's approvals and effects follow ApprovalGate: asked, decided once,
\* and at most one effect of each call, after its approval.
FollowsGate == Gate!Spec
=============================================================================
