-------------------------- MODULE AgentRunsProofs --------------------------
(***************************************************************************)
(* Theorems about AgentRuns, for every set of requests and calls and every *)
(* step budget, however the requests interleave and abort; what holds only *)
(* when they are served one at a time comes last.                          *)
(***************************************************************************)
EXTENDS AgentRuns, FiniteSetTheorems, TLAPS

-----------------------------------------------------------------------------
(* What the helpers return *)

LEMMA NewStateType == NewState \in States
BY RunAssumption DEF NewState, States

LEMMA IdleType == Idle \in Sessions
BY NewStateType DEF Idle, Sessions, NoRun, RunRows, RunStatuses, ApprovalStatuses, Phases,
   RecordStatuses

\* An UPDATE of the run leaves a row.
LEMMA UpdatedType ==
    ASSUME TypeOK, NEW q \in Requests, NEW status \in RunStatuses, NEW state \in States
    PROVE  Updated(q, status, state) \in RunRows
BY DEF TypeOK, Updated, RunRows

LEMMA SeenType == TypeOK => Seen \in ApprovalStatuses \cup {"overdue"}
BY RunAssumption DEF TypeOK, Seen, ApprovalStatuses

LEMMA ClearedType == \A g \in States : Cleared(g) \in States
BY DEF Cleared, States

LEMMA NotedType ==
    ASSUME TypeOK, NEW q \in Requests, NEW c \in Calls, NEW st \in RecordStatuses
    PROVE  Noted(q, c, st) \in [Calls -> RecordStatuses \cup {"clean"}]
BY DEF TypeOK, Noted, Sessions

LEMMA FinishType ==
    ASSUME TypeOK, NEW q \in Requests, NEW g \in States,
           NEW out \in {"waiting_approval", "completed", "failed"}
    PROVE  Finish(q, g, out) \in Sessions
<1>1. sess[q] \in Sessions
  BY DEF TypeOK
<1>2. "persisting" \in Phases
  BY DEF Phases
<1> QED
  BY <1>1, <1>2 DEF Finish, Sessions

LEMMA CommittedType ==
    ASSUME TypeOK, NEW q \in Requests
    PROVE  Committed(q) \in [Calls -> RecordStatuses]
BY DEF TypeOK, Committed, Sessions

-----------------------------------------------------------------------------
(* The inductive invariant *)

\* A saved or running state names an approved call only if it was granted.
Backed(state, G) == state.approved \in G \cup {NoCall}

\* What holds of a session s when the calls in G have been granted: approve
\* decides an approval it has loaded, a denial is what DenyCommit writes, a
\* session that saw or made an approval saw it of a granted call, resume goes on
\* only with such an approval, and a tool runs only past the gate.
Good(s, G) ==
    /\ s \in Sessions
    /\ s.pc = "approving" => s.call \in Calls
    /\ s.pc = "denying" => s.seen \in {"rejected", "expired"}
    /\ s.seen = "approved" => s.call \in G
    /\ s.pc = "resuming" => s.seen = "approved"
    /\ Backed(s.run.state, G) /\ Backed(s.init, G) /\ Backed(s.g, G)
    /\ s.pc = "executing" => ~NeedsApproval(s.g)

IInv ==
    /\ TypeOK
    /\ \A q \in Requests : Good(sess[q], granted)
    /\ Backed(run.state, granted)
    /\ \A c \in Calls : approval[c] = "approved" => c \in granted
    /\ NoEffectWithoutApproval

\* Granting more calls keeps sessions good.
LEMMA GoodMonotone ==
    ASSUME NEW s, NEW G, NEW H, G \subseteq H, Good(s, G)
    PROVE  Good(s, H)
BY DEF Good, Backed

LEMMA IdleGood == \A G : Good(Idle, G)
BY IdleType DEF Good, Backed, Idle, NoRun, NewState

\* Replacing one session by a good one keeps all of them good.
LEMMA GotoGood ==
    ASSUME IInv, granted \subseteq granted',
           NEW q \in Requests, NEW s, Good(s, granted'), Goto(q, s)
    PROVE  /\ sess' \in [Requests -> Sessions]
           /\ \A p \in Requests : Good(sess'[p], granted')
<1>1. s \in Sessions
  BY DEF Good
<1>2. sess' = [sess EXCEPT ![q] = s]
  BY DEF Goto
<1>3. \A p \in Requests : p # q => sess'[p] = sess[p]
  BY <1>2 DEF IInv, TypeOK
<1>4. sess'[q] = s
  BY <1>2 DEF IInv, TypeOK
<1>5. \A p \in Requests : Good(sess[p], granted')
  BY GoodMonotone DEF IInv
<1> QED
  BY <1>1, <1>2, <1>3, <1>4, <1>5 DEF IInv, TypeOK

LEMMA AnswerGood ==
    ASSUME IInv, granted \subseteq granted', NEW q \in Requests, Answer(q)
    PROVE  /\ sess' \in [Requests -> Sessions]
           /\ \A p \in Requests : Good(sess'[p], granted')
BY IdleGood, GotoGood DEF Answer

\* Loading the newest approval gives a good session, unless it goes on to a
\* decision the status it saw does not allow.
LEMMA HoldGood ==
    ASSUME IInv, UNCHANGED granted, NEW q \in Requests,
           NEW pc \in {"expiring", "approving", "rejecting", "reentering", "resuming"},
           Hold(q, pc), pc = "approving" => latest # NoCall,
           pc = "resuming" =>
               (IF sess[q].call = latest THEN sess[q].seen ELSE Seen) = "approved"
    PROVE  /\ sess' \in [Requests -> Sessions]
           /\ \A p \in Requests : Good(sess'[p], granted')
<1> DEFINE s == [sess[q] EXCEPT !.pc = pc, !.call = latest,
                                !.seen = IF sess[q].call = latest THEN @ ELSE Seen]
<1>1. Good(sess[q], granted) /\ sess[q] \in Sessions
  BY DEF IInv, Good
<1>2. latest \in Calls \cup {NoCall}
  BY DEF IInv, TypeOK
<1>3. Seen \in ApprovalStatuses \cup {"overdue"}
  BY SeenType DEF IInv
<1>4. pc \in Phases
  BY DEF Phases
<1>5. s \in Sessions
  BY <1>1, <1>2, <1>3, <1>4 DEF Sessions
<1>6. /\ s.pc = pc /\ s.call = latest
      /\ s.seen = IF sess[q].call = latest THEN sess[q].seen ELSE Seen
      /\ s.run = sess[q].run /\ s.init = sess[q].init /\ s.g = sess[q].g
  BY <1>1 DEF Sessions
<1>7. Seen = "approved" => latest \in granted
  BY <1>2 DEF Seen, IInv
<1>8. Good(s, granted)
  BY <1>1, <1>5, <1>6, <1>7, <1>2 DEF Good
<1> QED
  BY <1>8, GotoGood DEF Hold

\* A step that changes nothing but the sessions keeps the rest of IInv.
LEMMA SessionStep ==
    ASSUME IInv, sess' \in [Requests -> Sessions],
           \A p \in Requests : Good(sess'[p], granted'),
           UNCHANGED <<agent, overdue, db, ghosts>>
    PROVE  IInv'
BY DEF IInv, TypeOK, db, ghosts, NoEffectWithoutApproval, Backed

\* A step that replaces one session by a good one and changes nothing else.
LEMMA GotoStep ==
    ASSUME IInv, NEW q \in Requests, NEW s, Good(s, granted), Goto(q, s),
           UNCHANGED <<agent, overdue, db, ghosts>>
    PROVE  IInv'
<1>1. granted' = granted
  BY DEF ghosts
<1> QED
  BY <1>1, GotoGood, SessionStep

LEMMA AnswerStep ==
    ASSUME IInv, NEW q \in Requests, Answer(q), UNCHANGED <<agent, overdue, db, ghosts>>
    PROVE  IInv'
BY IdleGood, GotoStep DEF Answer

LEMMA HoldStep ==
    ASSUME IInv, NEW q \in Requests,
           NEW pc \in {"expiring", "approving", "rejecting", "reentering", "resuming"},
           Hold(q, pc), pc = "approving" => latest # NoCall,
           pc = "resuming" =>
               (IF sess[q].call = latest THEN sess[q].seen ELSE Seen) = "approved",
           UNCHANGED <<agent, overdue, db, ghosts>>
    PROVE  IInv'
<1>1. granted' = granted
  BY DEF ghosts
<1> QED
  BY <1>1, HoldGood, SessionStep

-----------------------------------------------------------------------------
(* Each action preserves it *)

LEMMA StartRunInv == ASSUME IInv, NEW q \in Requests, StartRun(q) PROVE IInv'
<1> DEFINE s == [Idle EXCEPT !.pc = "starting", !.run = run']
<1>1. run' \in RunRows /\ run'.state = NewState
  BY NewStateType DEF StartRun, RunRows, RunStatuses
<1>2. /\ s \in Sessions
      /\ s.pc = "starting" /\ s.run = run' /\ s.seen = "none"
      /\ s.init = NewState /\ s.g = NewState
  BY <1>1, IdleType DEF Sessions, Idle, Phases
<1>3. Good(s, granted)
  BY <1>1, <1>2 DEF Good, Backed, NewState
<1>4. Goto(q, s) /\ granted' = granted
  BY DEF StartRun, ghosts
<1>5. sess' \in [Requests -> Sessions] /\ \A p \in Requests : Good(sess'[p], granted')
  BY <1>3, <1>4, GotoGood
<1> QED
  BY <1>1, <1>5 DEF StartRun, IInv, TypeOK, ghosts, NoEffectWithoutApproval, Backed, NewState

LEMMA EnterRuntimeInv == ASSUME IInv, NEW q \in Requests, EnterRuntime(q) PROVE IInv'
<1> DEFINE s == [sess[q] EXCEPT !.pc = "agent", !.run = run']
<1>1. Good(sess[q], granted) /\ sess[q] \in Sessions
  BY DEF IInv, Good
<1>2. run' \in RunRows /\ run'.state = NewState
  BY NewStateType, UpdatedType DEF EnterRuntime, RunStatuses, IInv, Updated
<1>3. /\ s \in Sessions
      /\ s.pc = "agent" /\ s.run = run' /\ s.seen = sess[q].seen /\ s.call = sess[q].call
      /\ s.init = sess[q].init /\ s.g = sess[q].g
  BY <1>1, <1>2 DEF Sessions, Phases
<1>4. Good(s, granted)
  BY <1>1, <1>2, <1>3 DEF Good, Backed, NewState
<1>5. Goto(q, s) /\ granted' = granted
  BY DEF EnterRuntime, ghosts
<1>6. sess' \in [Requests -> Sessions] /\ \A p \in Requests : Good(sess'[p], granted')
  BY <1>4, <1>5, GotoGood
<1> QED
  BY <1>2, <1>6 DEF EnterRuntime, IInv, TypeOK, ghosts, NoEffectWithoutApproval, Backed, NewState

LEMMA ReceiveInv ==
    ASSUME IInv, NEW q \in Requests, NEW op \in {"approve", "reject", "resume"}, Receive(q, op)
    PROVE  IInv'
<1> DEFINE s == [Idle EXCEPT !.pc = op, !.run = run]
<1>1. run \in RunRows /\ Backed(run.state, granted)
  BY DEF IInv, TypeOK
<1>2. /\ s \in Sessions
      /\ s.pc = op /\ s.run = run /\ s.seen = "none"
      /\ s.init = NewState /\ s.g = NewState
  BY <1>1, IdleType DEF Sessions, Idle, Phases
<1>3. Good(s, granted)
  BY <1>1, <1>2 DEF Good, Backed, NewState
<1> QED
  BY <1>3, GotoStep DEF Receive

LEMMA LoadApprovalInv == ASSUME IInv, NEW q \in Requests, LoadApproval(q) PROVE IInv'
<1>1. Seen = "pending" => latest # NoCall
  BY DEF Seen
<1>2. UNCHANGED <<agent, overdue, db, ghosts>>
  BY DEF LoadApproval
<1>3. CASE Answer(q)
  BY <1>2, <1>3, AnswerStep
<1>4. CASE Hold(q, "expiring")
  BY <1>2, <1>4, HoldStep
<1>5. CASE Seen = "pending" /\ Hold(q, "approving")
  BY <1>1, <1>2, <1>5, HoldStep
<1>6. CASE Hold(q, "rejecting")
  BY <1>2, <1>6, HoldStep
<1>7. CASE Hold(q, "reentering")
  BY <1>2, <1>7, HoldStep
<1> QED
  BY <1>3, <1>4, <1>5, <1>6, <1>7 DEF LoadApproval

LEMMA ApproveInv == ASSUME IInv, NEW q \in Requests, Approve(q) PROVE IInv'
<1> DEFINE s == [sess[q] EXCEPT !.pc = "reentering", !.seen = "approved"]
<1>1. /\ Good(sess[q], granted) /\ sess[q] \in Sessions /\ sess[q].call \in Calls
  BY DEF IInv, Good, Approve
<1>2. /\ s \in Sessions
      /\ s.pc = "reentering" /\ s.run = sess[q].run /\ s.call = sess[q].call
      /\ s.init = sess[q].init /\ s.g = sess[q].g
  BY <1>1 DEF Sessions, Phases, ApprovalStatuses
<1>3. granted \subseteq granted' /\ sess[q].call \in granted' /\ granted' \subseteq Calls
  BY <1>1 DEF Approve, IInv, TypeOK
<1>4. Good(sess[q], granted')
  BY <1>1, <1>3, GoodMonotone
<1>5. Good(s, granted')
  BY <1>2, <1>3, <1>4 DEF Good
<1>6. sess' \in [Requests -> Sessions] /\ \A p \in Requests : Good(sess'[p], granted')
  BY <1>3, <1>5, GotoGood DEF Approve
<1>7. /\ approval' \in [Calls -> ApprovalStatuses]
      /\ \A c \in Calls : approval'[c] = "approved" => c \in granted'
  BY <1>1, <1>3 DEF Approve, IInv, TypeOK, ApprovalStatuses
<1> QED
  BY <1>3, <1>6, <1>7 DEF Approve, IInv, TypeOK, NoEffectWithoutApproval, Backed

LEMMA DenyFlushInv == ASSUME IInv, NEW q \in Requests, DenyFlush(q) PROVE IInv'
<1> DEFINE status == IF sess[q].pc = "expiring" THEN "expired" ELSE "rejected"
           s == [sess[q] EXCEPT !.pc = "denying", !.seen = status]
<1>1. Good(sess[q], granted) /\ sess[q] \in Sessions
  BY DEF IInv, Good
<1>2. /\ s \in Sessions
      /\ s.pc = "denying" /\ s.run = sess[q].run /\ s.seen = status
      /\ s.init = sess[q].init /\ s.g = sess[q].g
  BY <1>1, ZenonT(40) DEF Sessions, Phases, ApprovalStatuses
<1>3. Good(s, granted)
  BY <1>1, <1>2 DEF Good
<1> QED
  BY <1>3, GotoStep DEF DenyFlush

LEMMA DenyCommitInv == ASSUME IInv, NEW q \in Requests, DenyCommit(q) PROVE IInv'
<1> DEFINE state == [sess[q].run.state EXCEPT !.resume = FALSE]
<1>1. Good(sess[q], granted) /\ sess[q] \in Sessions
  BY DEF IInv, Good
<1>2. sess[q].seen \in {"rejected", "expired"}
  BY <1>1 DEF DenyCommit, Good
<1>3. state \in States /\ state.approved = sess[q].run.state.approved
  BY <1>1 DEF Sessions, RunRows, States
<1>4. run' \in RunRows /\ run'.state = state
  BY <1>3, UpdatedType DEF DenyCommit, IInv, Updated, RunStatuses
<1>5. Backed(run'.state, granted)
  BY <1>1, <1>3, <1>4 DEF Good, Backed
<1>6. granted' = granted /\ Answer(q)
  BY DEF DenyCommit, ghosts
<1>7. sess' \in [Requests -> Sessions] /\ \A p \in Requests : Good(sess'[p], granted')
  BY <1>6, AnswerGood
<1>8. /\ approval' \in [Calls -> ApprovalStatuses]
      /\ \A c \in Calls : approval'[c] = "approved" => c \in granted
  BY <1>2 DEF DenyCommit, IInv, TypeOK, ApprovalStatuses
<1>9. record' \in [Calls -> RecordStatuses]
  BY DEF DenyCommit, IInv, TypeOK, RecordStatuses
<1> QED
  BY <1>4, <1>5, <1>6, <1>7, <1>8, <1>9
  DEF DenyCommit, IInv, TypeOK, ghosts, NoEffectWithoutApproval

LEMMA ReenterInv == ASSUME IInv, NEW q \in Requests, Reenter(q) PROVE IInv'
<1> DEFINE s == [sess[q] EXCEPT !.pc = "resume"]
<1>1. Good(sess[q], granted) /\ sess[q] \in Sessions
  BY DEF IInv, Good
<1>2. /\ s \in Sessions
      /\ s.pc = "resume" /\ s.run = sess[q].run /\ s.seen = sess[q].seen
      /\ s.call = sess[q].call /\ s.init = sess[q].init /\ s.g = sess[q].g
  BY <1>1 DEF Sessions, Phases
<1>3. Good(s, granted)
  BY <1>1, <1>2 DEF Good
<1> QED
  BY <1>3, GotoStep, AnswerStep DEF Reenter

LEMMA LoadForResumeInv == ASSUME IInv, NEW q \in Requests, LoadForResume(q) PROVE IInv'
<1> DEFINE seen == IF sess[q].call = latest THEN sess[q].seen ELSE Seen
<1>1. UNCHANGED <<agent, overdue, db, ghosts>>
  BY DEF LoadForResume
<1>2. CASE Answer(q)
  BY <1>1, <1>2, AnswerStep
<1>3. CASE Hold(q, "expiring")
  BY <1>1, <1>3, HoldStep
<1>4. CASE seen = "approved" /\ Hold(q, "resuming")
  BY <1>1, <1>4, HoldStep
<1> QED
  BY <1>2, <1>3, <1>4 DEF LoadForResume

LEMMA ResumeInv == ASSUME IInv, NEW q \in Requests, Resume(q) PROVE IInv'
<1> DEFINE state == [sess[q].run.state EXCEPT !.approved = sess[q].call, !.resume = TRUE]
           pc == IF state.pending = NoCall THEN "agent" ELSE "tool"
           s == [Idle EXCEPT !.pc = pc, !.run = run', !.init = state, !.g = state]
<1>1. Good(sess[q], granted) /\ sess[q] \in Sessions
  BY DEF IInv, Good
<1>2. sess[q].call \in granted
  BY <1>1 DEF Resume, Good
<1>3. state \in States /\ state.approved = sess[q].call
  BY <1>1 DEF Sessions, RunRows, States
<1>4. run' \in RunRows /\ run'.state = state
  BY <1>3, UpdatedType DEF Resume, IInv, Updated, RunStatuses
<1>5. /\ s \in Sessions
      /\ s.pc \in {"agent", "tool"} /\ s.run = run' /\ s.seen = "none"
      /\ s.init = state /\ s.g = state
  BY <1>3, <1>4, IdleType DEF Sessions, Idle, Phases
<1>6. Good(s, granted)
  BY <1>2, <1>3, <1>4, <1>5 DEF Good, Backed
<1>7. Goto(q, s) /\ granted' = granted
  BY DEF Resume, ghosts
<1>8. sess' \in [Requests -> Sessions] /\ \A p \in Requests : Good(sess'[p], granted')
  BY <1>6, <1>7, GotoGood
<1> QED
  BY <1>2, <1>3, <1>4, <1>7, <1>8 DEF Resume, IInv, TypeOK, ghosts, NoEffectWithoutApproval, Backed

LEMMA FinishGood ==
    ASSUME IInv, NEW q \in Requests, NEW g \in States, Backed(g, granted),
           NEW out \in {"waiting_approval", "completed", "failed"}
    PROVE  Good(Finish(q, g, out), granted)
<1> DEFINE s == Finish(q, g, out)
<1>1. Good(sess[q], granted) /\ sess[q] \in Sessions
  BY DEF IInv, Good
<1>2. s \in Sessions
  BY FinishType DEF IInv
<1>3. /\ s.pc = "persisting" /\ s.run = sess[q].run /\ s.seen = sess[q].seen
      /\ s.call = sess[q].call /\ s.init = sess[q].init /\ s.g = g
  BY <1>1 DEF Finish, Sessions
<1> QED
  BY <1>1, <1>2, <1>3 DEF Good

\* A session with other flushed records is as good.
LEMMA NotedGood ==
    ASSUME NEW s, NEW G, Good(s, G), NEW rec \in [Calls -> RecordStatuses \cup {"clean"}]
    PROVE  Good([s EXCEPT !.rec = rec], G)
<1> DEFINE t == [s EXCEPT !.rec = rec]
<1>1. s \in Sessions
  BY DEF Good
<1>2. t \in Sessions
  BY <1>1 DEF Sessions
<1>3. /\ t.pc = s.pc /\ t.run = s.run /\ t.seen = s.seen /\ t.call = s.call
      /\ t.init = s.init /\ t.g = s.g
  BY <1>1 DEF Sessions
<1> QED
  BY <1>2, <1>3 DEF Good

\* A session that goes on in the graph with state g.
LEMMA GraphGood ==
    ASSUME IInv, NEW q \in Requests, NEW g \in States, Backed(g, granted),
           NEW pc \in {"agent", "tool", "executing", "returning"},
           pc = "executing" => ~NeedsApproval(g)
    PROVE  Good([sess[q] EXCEPT !.pc = pc, !.g = g], granted)
<1> DEFINE t == [sess[q] EXCEPT !.pc = pc, !.g = g]
<1>1. Good(sess[q], granted) /\ sess[q] \in Sessions
  BY DEF IInv, Good
<1>2. pc \in Phases
  BY DEF Phases
<1>3. t \in Sessions
  BY <1>1, <1>2 DEF Sessions
<1>4. /\ t.pc = pc /\ t.run = sess[q].run /\ t.seen = sess[q].seen
      /\ t.call = sess[q].call /\ t.init = sess[q].init /\ t.g = g
  BY <1>1 DEF Sessions
<1> QED
  BY <1>1, <1>3, <1>4 DEF Good

\* The graph's state in a session.
LEMMA GraphState ==
    ASSUME IInv, NEW q \in Requests
    PROVE  /\ sess[q] \in Sessions
           /\ sess[q].g \in States /\ Backed(sess[q].g, granted)
           /\ sess[q].init \in States /\ Backed(sess[q].init, granted)
           /\ Cleared(sess[q].g) \in States /\ Backed(Cleared(sess[q].g), granted)
<1>1. Good(sess[q], granted) /\ sess[q] \in Sessions
  BY DEF IInv, Good
<1>2. sess[q].g \in States /\ sess[q].init \in States
  BY <1>1 DEF Sessions
<1>3. Cleared(sess[q].g) \in States /\ Cleared(sess[q].g).approved = NoCall
  BY <1>2, ClearedType DEF Cleared, States
<1> QED
  BY <1>1, <1>2, <1>3 DEF Good, Backed

LEMMA StepsExhaustedInv == ASSUME IInv, NEW q \in Requests, StepsExhausted(q) PROVE IInv'
<1>1. Good(Finish(q, sess[q].g, "failed"), granted)
  BY GraphState, FinishGood
<1> QED
  BY <1>1, GotoStep DEF StepsExhausted

LEMMA OneMoreStep ==
    ASSUME NEW g \in States, g.steps < MaxSteps
    PROVE  g.steps + 1 \in 0 .. MaxSteps
<1>1. g.steps \in 0 .. MaxSteps
  BY DEF States
<1> QED
  BY <1>1, RunAssumption

LEMMA DecideAnswerInv == ASSUME IInv, NEW q \in Requests, DecideAnswer(q) PROVE IInv'
<1> DEFINE g == [sess[q].g EXCEPT !.steps = @ + 1, !.pending = NoCall]
<1>1. sess[q].g \in States /\ Backed(sess[q].g, granted) /\ sess[q].g.steps < MaxSteps
  BY GraphState DEF DecideAnswer
<1>2. sess[q].g.steps + 1 \in 0 .. MaxSteps
  BY <1>1, OneMoreStep
<1>3. g \in States /\ g.approved = sess[q].g.approved
  BY <1>1, <1>2 DEF States
<1>4. Good(Finish(q, g, "completed"), granted)
  BY <1>1, <1>3, FinishGood DEF Backed
<1> QED
  BY <1>4, GotoStep DEF DecideAnswer

LEMMA DecideCallInv ==
    ASSUME IInv, NEW q \in Requests, NEW c \in Calls, DecideCall(q, c) PROVE IInv'
<1> DEFINE g == [sess[q].g EXCEPT !.steps = @ + 1, !.pending = c]
           s == [sess[q] EXCEPT !.pc = "tool", !.g = g]
<1>1. /\ sess[q] \in Sessions /\ sess[q].g \in States
      /\ Backed(sess[q].g, granted) /\ sess[q].g.steps < MaxSteps
  BY GraphState DEF DecideCall
<1>2. sess[q].g.steps + 1 \in 0 .. MaxSteps
  BY <1>1, OneMoreStep
<1>3. g \in States /\ g.approved = sess[q].g.approved
  BY <1>1, <1>2 DEF States
<1>4. Good(s, granted)
  BY <1>1, <1>3, GraphGood DEF Backed
<1>5. s = [sess[q] EXCEPT !.pc = "tool", !.g.steps = @ + 1, !.g.pending = c]
  BY <1>1 DEF Sessions, States
<1> QED
  BY <1>4, <1>5, GotoStep DEF DecideCall

\* A registry step with the pending call's record set to status.
LEMMA PendingNoted ==
    ASSUME IInv, NEW q \in Requests, NEW status \in RecordStatuses
    PROVE  Noted(q, sess[q].g.pending, status) \in [Calls -> RecordStatuses \cup {"clean"}]
BY DEF Noted, Sessions, IInv, TypeOK

LEMMA InvalidCallInv == ASSUME IInv, NEW q \in Requests, InvalidCall(q) PROVE IInv'
<1> DEFINE rec == Noted(q, sess[q].g.pending, "failed")
<1>1. Good(Finish(q, Cleared(sess[q].g), "failed"), granted)
  BY GraphState, FinishGood
<1>2. rec \in [Calls -> RecordStatuses \cup {"clean"}]
  BY PendingNoted DEF RecordStatuses
<1>3. Good([Finish(q, Cleared(sess[q].g), "failed") EXCEPT !.rec = rec], granted)
  BY <1>1, <1>2, NotedGood
<1> QED
  BY <1>3, GotoStep DEF InvalidCall

LEMMA PauseForApprovalInv == ASSUME IInv, NEW q \in Requests, PauseForApproval(q) PROVE IInv'
<1> DEFINE rec == Noted(q, sess[q].g.pending, "waiting_approval")
           g == [sess[q].g EXCEPT !.resume = FALSE]
<1>1. g \in States /\ g.approved = sess[q].g.approved /\ Backed(sess[q].g, granted)
  BY GraphState DEF States
<1>2. Good(Finish(q, g, "waiting_approval"), granted)
  BY <1>1, FinishGood DEF Backed
<1>3. rec \in [Calls -> RecordStatuses \cup {"clean"}]
  BY PendingNoted DEF RecordStatuses
<1>4. Good([Finish(q, g, "waiting_approval") EXCEPT !.rec = rec], granted)
  BY <1>2, <1>3, NotedGood
<1> QED
  BY <1>4, GotoStep DEF PauseForApproval

LEMMA CallToolInv == ASSUME IInv, NEW q \in Requests, CallTool(q) PROVE IInv'
<1> DEFINE rec == Noted(q, sess[q].g.pending, "running")
           s == [sess[q] EXCEPT !.pc = "executing", !.g = sess[q].g]
<1>1. Good(s, granted)
  BY GraphState, GraphGood DEF CallTool
<1>2. rec \in [Calls -> RecordStatuses \cup {"clean"}]
  BY PendingNoted DEF RecordStatuses
<1>3. Good([s EXCEPT !.rec = rec], granted)
  BY <1>1, <1>2, NotedGood
<1>4. [s EXCEPT !.rec = rec] = [sess[q] EXCEPT !.pc = "executing", !.rec = rec]
  BY GraphState DEF Sessions
<1> QED
  BY <1>3, <1>4, GotoStep DEF CallTool

LEMMA ToolTakesEffectInv == ASSUME IInv, NEW q \in Requests, ToolTakesEffect(q) PROVE IInv'
<1> DEFINE c == sess[q].g.pending
           s == [sess[q] EXCEPT !.pc = "returning", !.g = sess[q].g]
<1>1. Good(s, granted)
  BY GraphState, GraphGood
<1>2. s = [sess[q] EXCEPT !.pc = "returning"]
  BY GraphState DEF Sessions
<1>3. granted' = granted /\ Goto(q, s)
  BY <1>2 DEF ToolTakesEffect
<1>4. sess' \in [Requests -> Sessions] /\ \A p \in Requests : Good(sess'[p], granted')
  BY <1>1, <1>3, GotoGood
<1>5. executed' \in [Calls -> Nat]
  <2>1. executed \in [Calls -> Nat] /\ executed' = [executed EXCEPT ![c] = @ + 1]
    BY DEF ToolTakesEffect, IInv, TypeOK
  <2>2. \A d \in Calls : executed[d] + 1 \in Nat
    BY <2>1
  <2> HIDE DEF c
  <2> QED
    BY <2>1, <2>2
<1>6. ~NeedsApproval(sess[q].g) /\ Backed(sess[q].g, granted)
  BY DEF IInv, Good, ToolTakesEffect
<1>7. c \in Guarded => c \in granted
  BY <1>6, RunAssumption DEF NeedsApproval, Backed
<1>8. NoEffectWithoutApproval'
  <2> SUFFICES ASSUME NEW d \in Guarded, executed'[d] > 0
               PROVE  d \in granted'
    BY DEF NoEffectWithoutApproval
  <2>1. CASE d = c
    BY <2>1, <1>3, <1>7
  <2>2. CASE d # c
    BY <2>2, <1>3, RunAssumption DEF ToolTakesEffect, IInv, TypeOK, NoEffectWithoutApproval
  <2> QED
    BY <2>1, <2>2
<1> QED
  BY <1>3, <1>4, <1>5, <1>8 DEF ToolTakesEffect, IInv, TypeOK, db, Backed

LEMMA ToolReturnsInv == ASSUME IInv, NEW q \in Requests, ToolReturns(q) PROVE IInv'
<1> DEFINE rec == Noted(q, sess[q].g.pending, "completed")
           s == [sess[q] EXCEPT !.pc = "agent", !.g = Cleared(sess[q].g)]
<1>1. Good(s, granted)
  BY GraphState, GraphGood
<1>2. rec \in [Calls -> RecordStatuses \cup {"clean"}]
  BY PendingNoted DEF RecordStatuses
<1>3. Good([s EXCEPT !.rec = rec], granted)
  BY <1>1, <1>2, NotedGood
<1>4. [s EXCEPT !.rec = rec]
        = [sess[q] EXCEPT !.pc = "agent", !.g = Cleared(@), !.rec = rec]
  BY GraphState DEF Sessions
<1> QED
  BY <1>3, <1>4, GotoStep DEF ToolReturns

LEMMA ToolFailsInv == ASSUME IInv, NEW q \in Requests, ToolFails(q) PROVE IInv'
<1> DEFINE rec == Noted(q, sess[q].g.pending, "failed")
<1>1. Good(Finish(q, Cleared(sess[q].g), "failed"), granted)
  BY GraphState, FinishGood
<1>2. rec \in [Calls -> RecordStatuses \cup {"clean"}]
  BY PendingNoted DEF RecordStatuses
<1>3. Good([Finish(q, Cleared(sess[q].g), "failed") EXCEPT !.rec = rec], granted)
  BY <1>1, <1>2, NotedGood
<1> QED
  BY <1>3, GotoStep DEF ToolFails

LEMMA RuntimeFailsInv == ASSUME IInv, NEW q \in Requests, RuntimeFails(q) PROVE IInv'
<1>1. Good(Finish(q, sess[q].init, "failed"), granted)
  BY GraphState, FinishGood
<1> QED
  BY <1>1, GotoStep DEF RuntimeFails

\* What a commit of the runtime's outcome writes to the run row.
LEMMA PersistedRun ==
    ASSUME IInv, NEW q \in Requests, NEW status \in RunStatuses
    PROVE  /\ Updated(q, status, sess[q].g) \in RunRows
           /\ Backed(Updated(q, status, sess[q].g).state, granted)
<1>1. sess[q].g \in States /\ Backed(sess[q].g, granted)
  BY GraphState
<1> QED
  BY <1>1, UpdatedType DEF IInv, Updated

LEMMA PersistEndInv == ASSUME IInv, NEW q \in Requests, PersistEnd(q) PROVE IInv'
<1>1. sess[q].out \in RunStatuses
  BY DEF PersistEnd, Terminal, RunStatuses
<1>2. run' \in RunRows /\ Backed(run'.state, granted)
  BY <1>1, PersistedRun DEF PersistEnd
<1>3. record' \in [Calls -> RecordStatuses]
  BY CommittedType DEF PersistEnd, IInv
<1>4. granted' = granted /\ Answer(q)
  BY DEF PersistEnd, ghosts
<1>5. sess' \in [Requests -> Sessions] /\ \A p \in Requests : Good(sess'[p], granted')
  BY <1>4, AnswerGood
<1> QED
  BY <1>2, <1>3, <1>4, <1>5 DEF PersistEnd, IInv, TypeOK, ghosts, NoEffectWithoutApproval

LEMMA PersistWaitingInv == ASSUME IInv, NEW q \in Requests, PersistWaiting(q) PROVE IInv'
<1> DEFINE c == sess[q].g.pending
<1>1. c \in Calls \cup {NoCall}
  BY GraphState DEF States
<1>2. run' \in RunRows /\ Backed(run'.state, granted)
  BY PersistedRun DEF PersistWaiting, RunStatuses
<1>3. record' \in [Calls -> RecordStatuses]
  BY CommittedType DEF PersistWaiting, IInv
<1>4. granted' = granted /\ Answer(q)
  BY DEF PersistWaiting, ghosts
<1>5. sess' \in [Requests -> Sessions] /\ \A p \in Requests : Good(sess'[p], granted')
  BY <1>4, AnswerGood
<1>6. /\ approval' \in [Calls -> ApprovalStatuses]
      /\ \A d \in Calls : approval'[d] = "approved" => d \in granted
  BY DEF PersistWaiting, IInv, TypeOK, ApprovalStatuses
<1>7. latest' \in Calls \cup {NoCall}
  BY <1>1 DEF PersistWaiting
<1> QED
  BY <1>2, <1>3, <1>4, <1>5, <1>6, <1>7
  DEF PersistWaiting, IInv, TypeOK, ghosts, NoEffectWithoutApproval

LEMMA PersistDuplicateInv == ASSUME IInv, NEW q \in Requests, PersistDuplicate(q) PROVE IInv'
BY AnswerStep DEF PersistDuplicate

LEMMA AbortInv == ASSUME IInv, NEW q \in Requests, Abort(q) PROVE IInv'
BY AnswerStep DEF Abort

LEMMA UserApprovesInv == ASSUME IInv, NEW c \in Calls, UserApproves(c) PROVE IInv'
BY DEF UserApproves, IInv, TypeOK, db, NoEffectWithoutApproval

LEMMA LapseInv == ASSUME IInv, NEW c \in Calls, Lapse(c) PROVE IInv'
BY DEF Lapse, IInv, TypeOK, db, ghosts, NoEffectWithoutApproval

LEMMA DeleteAgentInv == ASSUME IInv, DeleteAgent PROVE IInv'
BY DEF DeleteAgent, IInv, TypeOK, db, ghosts, NoEffectWithoutApproval

-----------------------------------------------------------------------------
(* The theorems *)

LEMMA InitInv == Init => IInv
<1> SUFFICES ASSUME Init PROVE IInv
  OBVIOUS
<1>1. NoRun \in RunRows /\ NoRun.state = NewState
  BY NewStateType DEF NoRun, RunRows, RunStatuses
<1>2. TypeOK
  BY <1>1, IdleType DEF Init, TypeOK, ApprovalStatuses, RecordStatuses
<1>3. \A q \in Requests : Good(sess[q], granted)
  BY IdleGood DEF Init
<1>4. Backed(run.state, granted)
  BY <1>1 DEF Init, Backed, NewState
<1> QED
  BY <1>2, <1>3, <1>4, RunAssumption DEF Init, IInv, NoEffectWithoutApproval

LEMMA ServeInv == ASSUME IInv, NEW q \in Requests, Serve(q) PROVE IInv'
BY EnterRuntimeInv, LoadApprovalInv, ApproveInv, DenyFlushInv, DenyCommitInv, ReenterInv,
   LoadForResumeInv, ResumeInv, StepsExhaustedInv, DecideAnswerInv, DecideCallInv,
   InvalidCallInv, PauseForApprovalInv, CallToolInv, ToolTakesEffectInv, ToolReturnsInv,
   ToolFailsInv, RuntimeFailsInv, PersistEndInv, PersistWaitingInv, PersistDuplicateInv
DEF Serve

LEMMA NextInv == IInv /\ [Next]_vars => IInv'
<1> SUFFICES ASSUME IInv, [Next]_vars PROVE IInv'
  OBVIOUS
<1>1. CASE \E q \in Requests : Serve(q)
  BY <1>1, ServeInv
<1>2. CASE \E q \in Requests : Arrive(q)
  BY <1>2, StartRunInv, ReceiveInv DEF Arrive
<1>3. CASE \E q \in Requests : Abort(q)
  BY <1>3, AbortInv
<1>4. CASE \E c \in Calls : UserApproves(c) \/ Lapse(c)
  BY <1>4, UserApprovesInv, LapseInv
<1>5. CASE DeleteAgent
  BY <1>5, DeleteAgentInv
<1>6. CASE UNCHANGED vars
  BY <1>6 DEF vars, db, ghosts, IInv, TypeOK, NoEffectWithoutApproval
<1> QED
  BY <1>1, <1>2, <1>3, <1>4, <1>5, <1>6 DEF Next

\* Rows and sessions keep to the values of their columns and fields whatever the
\* number of concurrent requests; in particular no saved state has more steps
\* than max_steps (agent_node's check, AgentState across a pause).
THEOREM TypeCorrect == Spec => []TypeOK
<1>1. IInv => TypeOK
  BY DEF IInv
<1> QED
  BY <1>1, InitInv, NextInv, PTL DEF Spec

\* The approval gate of ToolRegistry.execute holds against every interleaving of
\* start, approve, reject, resume, expiry and abort: a tool that requires an
\* approval has an effect only after an approval of its own call was committed.
THEOREM GateHolds == Spec => []NoEffectWithoutApproval
<1>1. IInv => NoEffectWithoutApproval
  BY DEF IInv
<1> QED
  BY <1>1, InitInv, NextInv, PTL DEF Spec

-----------------------------------------------------------------------------
(* The audit: for any number of concurrent requests an approval has its tool *)
(* record. *)

LEMMA RunsInvariant == Spec => []IInv
BY InitInv, NextInv, PTL DEF Spec

-----------------------------------------------------------------------------
(* What each step does to the session of its request *)

LEMMA Replaced ==
    ASSUME TypeOK, NEW q \in Requests, NEW s, Goto(q, s)
    PROVE  sess'[q] = s /\ \A p \in Requests \ {q} : sess'[p] = sess[p]
BY DEF TypeOK, Goto

LEMMA IdleFields ==
    /\ Idle.pc = "idle" /\ Idle.run = NoRun /\ Idle.call = NoCall /\ Idle.seen = "none"
    /\ Idle.init = NewState /\ Idle.g = NewState /\ Idle.out = "none"
    /\ \A c \in Calls : Idle.rec[c] = "clean"
BY DEF Idle

LEMMA Answered ==
    ASSUME TypeOK, NEW q \in Requests, Answer(q)
    PROVE  sess'[q] = Idle /\ \A p \in Requests \ {q} : sess'[p] = sess[p]
BY Replaced DEF Answer

LEMMA Held ==
    ASSUME TypeOK, NEW q \in Requests, NEW pc, Hold(q, pc)
    PROVE  /\ sess'[q].pc = pc /\ sess'[q].call = latest
           /\ sess'[q].seen = IF sess[q].call = latest THEN sess[q].seen ELSE Seen
           /\ sess'[q].run = sess[q].run /\ sess'[q].rec = sess[q].rec
           /\ sess'[q].g = sess[q].g /\ sess'[q].out = sess[q].out
           /\ \A p \in Requests \ {q} : sess'[p] = sess[p]
<1> DEFINE s == [sess[q] EXCEPT !.pc = pc, !.call = latest,
                                !.seen = IF sess[q].call = latest THEN @ ELSE Seen]
<1>1. sess[q] \in Sessions
  BY DEF TypeOK
<1>2. Goto(q, s)
  BY DEF Hold
<1>3. sess'[q] = s /\ \A p \in Requests \ {q} : sess'[p] = sess[p]
  BY <1>2, Replaced
<1> QED
  BY <1>1, <1>3 DEF Sessions

\* A session that ends its graph.
LEMMA Finished ==
    ASSUME TypeOK, NEW q \in Requests, NEW g, NEW out, Goto(q, Finish(q, g, out))
    PROVE  /\ sess'[q].pc = "persisting" /\ sess'[q].g = g /\ sess'[q].out = out
           /\ sess'[q].run = sess[q].run /\ sess'[q].rec = sess[q].rec
           /\ sess'[q].call = sess[q].call /\ sess'[q].seen = sess[q].seen
           /\ \A p \in Requests \ {q} : sess'[p] = sess[p]
<1>1. sess[q] \in Sessions
  BY DEF TypeOK
<1>2. sess'[q] = Finish(q, g, out) /\ \A p \in Requests \ {q} : sess'[p] = sess[p]
  BY Replaced
<1> QED
  BY <1>1, <1>2 DEF Finish, Sessions

\* The same after a last note about the pending call.
NoteAndFinish(q, g, out, status) ==
    [Finish(q, g, out) EXCEPT !.rec = Noted(q, sess[q].g.pending, status)]

LEMMA FinishedNoting ==
    ASSUME TypeOK, NEW q \in Requests, NEW g, NEW out, NEW status,
           sess[q].g.pending \in Calls,
           Goto(q, NoteAndFinish(q, g, out, status))
    PROVE  /\ sess'[q].pc = "persisting" /\ sess'[q].g = g /\ sess'[q].out = out
           /\ sess'[q].run = sess[q].run
           /\ sess'[q].rec[sess[q].g.pending] = status
           /\ \A c \in Calls \ {sess[q].g.pending} : sess'[q].rec[c] = sess[q].rec[c]
           /\ sess'[q].call = sess[q].call /\ sess'[q].seen = sess[q].seen
           /\ \A p \in Requests \ {q} : sess'[p] = sess[p]
<1> DEFINE c == sess[q].g.pending
           s == [Finish(q, g, out) EXCEPT !.rec = Noted(q, c, status)]
<1>1. sess[q] \in Sessions
  BY DEF TypeOK
<1>2. sess'[q] = s /\ \A p \in Requests \ {q} : sess'[p] = sess[p]
  BY Replaced DEF NoteAndFinish
<1>3. /\ s.pc = "persisting" /\ s.g = g /\ s.out = out /\ s.run = sess[q].run
      /\ s.call = sess[q].call /\ s.seen = sess[q].seen /\ s.rec = Noted(q, c, status)
  BY <1>1 DEF Finish, Sessions
<1>4. /\ Noted(q, c, status)[c] = status
      /\ \A d \in Calls \ {c} : Noted(q, c, status)[d] = sess[q].rec[d]
  BY <1>1 DEF Noted, Sessions
<1> QED
  BY <1>2, <1>3, <1>4

LEMMA PendingCall ==
    ASSUME TypeOK, NEW q \in Requests
    PROVE  sess[q].g.pending \in Calls \cup {NoCall} /\ sess[q] \in Sessions
                /\ sess[q].g \in States
BY DEF TypeOK, Sessions, States

LEMMA EnteredRuntime ==
    ASSUME TypeOK, NEW q \in Requests, EnterRuntime(q)
    PROVE  /\ sess'[q].pc = "agent" /\ sess'[q].run = run'
           /\ sess'[q].g = sess[q].g /\ sess'[q].rec = sess[q].rec
           /\ sess'[q].call = sess[q].call /\ sess'[q].seen = sess[q].seen
           /\ \A p \in Requests \ {q} : sess'[p] = sess[p]
<1>1. sess'[q] = [sess[q] EXCEPT !.pc = "agent", !.run = run']
      /\ \A p \in Requests \ {q} : sess'[p] = sess[p]
  BY Replaced DEF EnterRuntime
<1> QED
  BY <1>1, PendingCall DEF Sessions

LEMMA Resumed ==
    ASSUME TypeOK, NEW q \in Requests, Resume(q)
    PROVE  /\ sess'[q].pc = IF sess[q].run.state.pending = NoCall THEN "agent" ELSE "tool"
           /\ sess'[q].run = run' /\ sess'[q].rec = Idle.rec
           /\ sess'[q].g.pending = sess[q].run.state.pending
           /\ sess'[q].g.steps = sess[q].run.state.steps
           /\ run'.status = IF sess[q].run.status = "running" THEN run.status ELSE "running"
           /\ sess'[q].call = NoCall /\ sess'[q].seen = "none"
           /\ \A p \in Requests \ {q} : sess'[p] = sess[p]
<1> DEFINE state == [sess[q].run.state EXCEPT !.approved = sess[q].call, !.resume = TRUE]
           s == [Idle EXCEPT !.pc = IF state.pending = NoCall THEN "agent" ELSE "tool",
                             !.run = run', !.init = state, !.g = state]
<1>1. sess[q].run.state \in States
  BY DEF TypeOK, Sessions, RunRows
<1>2. state.pending = sess[q].run.state.pending /\ state.steps = sess[q].run.state.steps
  BY <1>1 DEF States
<1>3. Goto(q, s) /\ run' = Updated(q, "running", state)
  BY DEF Resume
<1>4. sess'[q] = s /\ \A p \in Requests \ {q} : sess'[p] = sess[p]
  BY <1>3, Replaced
<1>5. /\ s.pc = IF state.pending = NoCall THEN "agent" ELSE "tool"
      /\ s.run = run' /\ s.rec = Idle.rec /\ s.g = state
      /\ s.call = NoCall /\ s.seen = "none"
  BY DEF Idle
<1>6. run'.status = IF "running" = sess[q].run.status THEN run.status ELSE "running"
  BY <1>3 DEF Updated
<1>7. s.g.pending = state.pending /\ s.g.steps = state.steps
  BY <1>5
<1> HIDE DEF s, state
<1> QED
  BY <1>2, <1>4, <1>5, <1>6, <1>7

LEMMA CallDecided ==
    ASSUME TypeOK, NEW q \in Requests, NEW c \in Calls, DecideCall(q, c)
    PROVE  /\ sess'[q].pc = "tool" /\ sess'[q].g.pending = c
           /\ sess'[q].g.steps = sess[q].g.steps + 1
           /\ sess'[q].run = sess[q].run /\ sess'[q].rec = sess[q].rec
           /\ sess'[q].call = sess[q].call /\ sess'[q].seen = sess[q].seen
           /\ \A p \in Requests \ {q} : sess'[p] = sess[p]
<1> DEFINE g == [sess[q].g EXCEPT !.steps = @ + 1, !.pending = c]
           s == [sess[q] EXCEPT !.pc = "tool", !.g = g]
<1>1. sess'[q] = [sess[q] EXCEPT !.pc = "tool", !.g.steps = @ + 1, !.g.pending = c]
      /\ \A p \in Requests \ {q} : sess'[p] = sess[p]
  BY Replaced DEF DecideCall
<1>2. s = [sess[q] EXCEPT !.pc = "tool", !.g.steps = @ + 1, !.g.pending = c]
  BY PendingCall DEF Sessions, States
<1>3. g.pending = c /\ g.steps = sess[q].g.steps + 1
  BY PendingCall DEF States
<1>4. /\ s.pc = "tool" /\ s.g = g /\ s.run = sess[q].run /\ s.rec = sess[q].rec
      /\ s.call = sess[q].call /\ s.seen = sess[q].seen
  BY PendingCall DEF Sessions
<1> HIDE DEF g, s
<1> QED
  BY <1>1, <1>2, <1>3, <1>4

LEMMA ToolCalled ==
    ASSUME TypeOK, NEW q \in Requests, CallTool(q), sess[q].g.pending \in Calls
    PROVE  /\ sess'[q].pc = "executing" /\ sess'[q].g = sess[q].g
           /\ sess'[q].run = sess[q].run
           /\ sess'[q].rec[sess[q].g.pending] = "running"
           /\ \A c \in Calls \ {sess[q].g.pending} : sess'[q].rec[c] = sess[q].rec[c]
           /\ sess'[q].call = sess[q].call /\ sess'[q].seen = sess[q].seen
           /\ \A p \in Requests \ {q} : sess'[p] = sess[p]
<1>1. sess'[q] = [sess[q] EXCEPT !.pc = "executing", !.rec = Noted(q, sess[q].g.pending, "running")]
      /\ \A p \in Requests \ {q} : sess'[p] = sess[p]
  BY Replaced DEF CallTool
<1> QED
  BY <1>1, PendingCall DEF Sessions, Noted

LEMMA EffectTaken ==
    ASSUME TypeOK, NEW q \in Requests, ToolTakesEffect(q)
    PROVE  /\ sess'[q].pc = "returning" /\ sess'[q].g = sess[q].g
           /\ sess'[q].run = sess[q].run /\ sess'[q].rec = sess[q].rec
           /\ sess'[q].call = sess[q].call /\ sess'[q].seen = sess[q].seen
           /\ \A p \in Requests \ {q} : sess'[p] = sess[p]
<1>1. sess'[q] = [sess[q] EXCEPT !.pc = "returning"]
      /\ \A p \in Requests \ {q} : sess'[p] = sess[p]
  BY Replaced DEF ToolTakesEffect
<1> QED
  BY <1>1, PendingCall DEF Sessions

LEMMA ToolReturned ==
    ASSUME TypeOK, NEW q \in Requests, ToolReturns(q), sess[q].g.pending \in Calls
    PROVE  /\ sess'[q].pc = "agent" /\ sess'[q].g.steps = sess[q].g.steps
           /\ sess'[q].run = sess[q].run
           /\ sess'[q].rec[sess[q].g.pending] = "completed"
           /\ \A c \in Calls \ {sess[q].g.pending} : sess'[q].rec[c] = sess[q].rec[c]
           /\ sess'[q].call = sess[q].call /\ sess'[q].seen = sess[q].seen
           /\ \A p \in Requests \ {q} : sess'[p] = sess[p]
<1> DEFINE rec == Noted(q, sess[q].g.pending, "completed")
<1>1. sess'[q] = [sess[q] EXCEPT !.pc = "agent", !.g = Cleared(@), !.rec = rec]
      /\ \A p \in Requests \ {q} : sess'[p] = sess[p]
  BY Replaced DEF ToolReturns
<1>2. /\ sess'[q].pc = "agent" /\ sess'[q].g = Cleared(sess[q].g)
      /\ sess'[q].run = sess[q].run /\ sess'[q].rec = rec
      /\ sess'[q].call = sess[q].call /\ sess'[q].seen = sess[q].seen
  BY <1>1, PendingCall DEF Sessions
<1>3. Cleared(sess[q].g).steps = sess[q].g.steps
  BY PendingCall DEF Cleared, States
<1> QED
  BY <1>1, <1>2, <1>3, PendingCall DEF Sessions, Noted

-----------------------------------------------------------------------------
(* The audit, for any number of requests *)

Asked == {c \in Calls : approval[c] # "none"}

\* Of a session s, when the calls in A have an approval: it decides on one of them, it
\* unmakes no record, in the tool node it has a call, and when it is about to save a
\* pause it has noted that this call waits.
Noting(s, A) ==
    /\ s.call \in A \cup {NoCall}
    /\ s.seen # "none" => s.call # NoCall
    /\ s.pc \in {"approving", "rejecting", "expiring", "denying"} => s.call # NoCall
    /\ \A c \in Calls : s.rec[c] # "absent"
    /\ s.pc \in {"tool", "executing", "returning"} => s.g.pending \in Calls
    /\ s.pc = "persisting" /\ s.out = "waiting_approval" =>
           s.g.pending \in Guarded /\ s.rec[s.g.pending] = "waiting_approval"

AuditInv ==
    /\ ApprovalIsAudited
    /\ latest \in Asked \cup {NoCall}
    /\ \A q \in Requests : Noting(sess[q], Asked)

LEMMA IdleNoting == \A A : Noting(Idle, A)
BY IdleFields DEF Noting

\* Asking for more approvals keeps sessions as they are.
LEMMA NotingMonotone ==
    ASSUME NEW s, NEW A, NEW B, A \subseteq B, Noting(s, A)
    PROVE  Noting(s, B)
BY DEF Noting

\* One session moves on, or ends, and no approval is lost.
LEMMA NotingAll ==
    ASSUME AuditInv, NEW q \in Requests, Asked \subseteq Asked', Noting(sess'[q], Asked'),
           \A p \in Requests \ {q} : sess'[p] = sess[p]
    PROVE  \A p \in Requests : Noting(sess'[p], Asked')
BY NotingMonotone DEF AuditInv

\* A step of one session that leaves approvals and records alone.
LEMMA NotingStep ==
    ASSUME AuditInv, NEW q \in Requests, Noting(sess'[q], Asked),
           \A p \in Requests \ {q} : sess'[p] = sess[p],
           UNCHANGED <<approval, record, latest>>
    PROVE  AuditInv'
<1>1. Asked' = Asked
  BY DEF Asked
<1>2. \A p \in Requests : Noting(sess'[p], Asked')
  BY <1>1, NotingAll
<1> QED
  BY <1>1, <1>2 DEF AuditInv, ApprovalIsAudited

LEMMA AnswerNoting ==
    ASSUME TypeOK, AuditInv, NEW q \in Requests, Answer(q),
           UNCHANGED <<approval, record, latest>>
    PROVE  AuditInv'
BY Answered, IdleNoting, NotingStep

\* A session that goes on outside the graph with the call and the records it had.
LEMMA QuietNoting ==
    ASSUME AuditInv, NEW q \in Requests,
           sess'[q].rec = sess[q].rec, sess'[q].call = sess[q].call,
           sess'[q].seen = sess[q].seen \/ sess[q].call # NoCall,
           sess'[q].pc \in {"approving", "rejecting", "expiring", "denying"} =>
               sess[q].call # NoCall,
           sess'[q].pc \notin {"tool", "executing", "returning", "persisting"}
    PROVE  Noting(sess'[q], Asked)
BY DEF AuditInv, Noting

LEMMA FreshNoting ==
    ASSUME NEW q \in Requests, sess'[q].call = NoCall, sess'[q].seen = "none",
           sess'[q].rec = Idle.rec,
           sess'[q].pc \in {"starting", "approve", "reject", "resume"}
    PROVE  Noting(sess'[q], Asked)
BY IdleFields DEF Noting

LEMMA HoldNoting ==
    ASSUME TypeOK, AuditInv, NEW q \in Requests, UNCHANGED <<approval, record, latest>>,
           NEW pc \in {"expiring", "approving", "rejecting", "reentering", "resuming"},
           Hold(q, pc), latest # NoCall
    PROVE  AuditInv'
<1>1. Noting(sess'[q], Asked)
  BY Held DEF Noting, AuditInv
<1> QED
  BY <1>1, Held, NotingStep

LEMMA StepAudited ==
    ASSUME TypeOK, AuditInv, NEW q \in Requests,
           \/ StartRun(q) \/ EnterRuntime(q)
           \/ \E op \in {"approve", "reject", "resume"} : Receive(q, op)
           \/ DenyFlush(q) \/ Reenter(q) \/ Resume(q)
           \/ StepsExhausted(q) \/ DecideAnswer(q) \/ \E c \in Calls : DecideCall(q, c)
           \/ InvalidCall(q) \/ PauseForApproval(q) \/ CallTool(q)
           \/ ToolTakesEffect(q) \/ ToolReturns(q) \/ ToolFails(q) \/ RuntimeFails(q)
    PROVE  Noting(sess'[q], Asked) /\ \A p \in Requests \ {q} : sess'[p] = sess[p]
<1>0. /\ Noting(sess[q], Asked) /\ sess[q] \in Sessions
      /\ sess[q].g.pending \in Calls \cup {NoCall}
  BY PendingCall DEF AuditInv
<1>1. CASE StartRun(q)
  <2>1. sess'[q] = [Idle EXCEPT !.pc = "starting", !.run = run']
        /\ \A p \in Requests \ {q} : sess'[p] = sess[p]
    BY <1>1, Replaced DEF StartRun
  <2>2. /\ sess'[q].pc = "starting" /\ sess'[q].rec = Idle.rec
        /\ sess'[q].call = NoCall /\ sess'[q].seen = "none"
    BY <2>1 DEF Idle
  <2> QED
    BY <2>1, <2>2, FreshNoting
<1>2. CASE EnterRuntime(q)
  BY <1>2, EnteredRuntime, QuietNoting
<1>3. ASSUME NEW op \in {"approve", "reject", "resume"}, Receive(q, op)
      PROVE  Noting(sess'[q], Asked) /\ \A p \in Requests \ {q} : sess'[p] = sess[p]
  <2>1. sess'[q] = [Idle EXCEPT !.pc = op, !.run = run]
        /\ \A p \in Requests \ {q} : sess'[p] = sess[p]
    BY <1>3, Replaced DEF Receive
  <2>2. /\ sess'[q].pc = op /\ sess'[q].rec = Idle.rec
        /\ sess'[q].call = NoCall /\ sess'[q].seen = "none"
    BY <2>1 DEF Idle
  <2> QED
    BY <2>1, <2>2, FreshNoting
<1>4. CASE DenyFlush(q)
  <2>1. sess'[q] = [sess[q] EXCEPT
                      !.pc = "denying",
                      !.seen = IF sess[q].pc = "expiring" THEN "expired" ELSE "rejected"]
        /\ \A p \in Requests \ {q} : sess'[p] = sess[p]
    BY <1>4, Replaced DEF DenyFlush
  <2>2. /\ sess'[q].pc = "denying" /\ sess'[q].rec = sess[q].rec
        /\ sess'[q].call = sess[q].call /\ sess[q].call # NoCall
    BY <1>0, <1>4, <2>1 DEF Sessions, DenyFlush, Noting
  <2> QED
    BY <2>1, <2>2, QuietNoting
<1>5. CASE Reenter(q)
  <2>1. CASE Answer(q)
    BY <2>1, Answered, IdleNoting
  <2>2. CASE Goto(q, [sess[q] EXCEPT !.pc = "resume"])
    <3>1. sess'[q] = [sess[q] EXCEPT !.pc = "resume"]
          /\ \A p \in Requests \ {q} : sess'[p] = sess[p]
      BY <2>2, Replaced
    <3>2. /\ sess'[q].pc = "resume" /\ sess'[q].rec = sess[q].rec
          /\ sess'[q].call = sess[q].call /\ sess'[q].seen = sess[q].seen
      BY <1>0, <3>1 DEF Sessions
    <3> QED
      BY <3>1, <3>2, QuietNoting
  <2> QED
    BY <1>5, <2>1, <2>2 DEF Reenter
<1>6. CASE Resume(q)
  <2>1. sess[q].run.state.pending \in Calls \cup {NoCall}
    BY <1>0 DEF Sessions, RunRows, States
  <2> QED
    BY <1>6, <2>1, Resumed, IdleFields DEF Noting
<1>7. CASE StepsExhausted(q)
  BY <1>0, <1>7, Finished DEF StepsExhausted, Noting
<1>8. CASE DecideAnswer(q)
  BY <1>0, <1>8, Finished DEF DecideAnswer, Noting
<1>9. ASSUME NEW c \in Calls, DecideCall(q, c)
      PROVE  Noting(sess'[q], Asked) /\ \A p \in Requests \ {q} : sess'[p] = sess[p]
  BY <1>0, <1>9, CallDecided DEF Noting
<1>10. CASE InvalidCall(q)
  <2> DEFINE g == Cleared(sess[q].g)
  <2>1. sess[q].g.pending \in Calls
    BY <1>0, <1>10 DEF Noting, InvalidCall, CanNote
  <2>2. Goto(q, NoteAndFinish(q, g, "failed", "failed"))
    BY <1>10 DEF InvalidCall, NoteAndFinish
  <2> HIDE DEF g
  <2> QED
    BY <1>0, <2>1, <2>2, FinishedNoting DEF Noting
<1>11. CASE PauseForApproval(q)
  <2> DEFINE g == [sess[q].g EXCEPT !.resume = FALSE]
  <2>1. sess[q].g.pending \in Calls /\ sess[q].g.pending \in Guarded
    BY <1>0, <1>11 DEF Noting, PauseForApproval, CanNote, NeedsApproval
  <2>2. g.pending = sess[q].g.pending
    BY PendingCall DEF States
  <2>3. Goto(q, NoteAndFinish(q, g, "waiting_approval", "waiting_approval"))
    BY <1>11 DEF PauseForApproval, NoteAndFinish
  <2> HIDE DEF g
  <2> QED
    BY <1>0, <2>1, <2>2, <2>3, FinishedNoting DEF Noting
<1>12. CASE CallTool(q)
  <2>1. sess[q].g.pending \in Calls
    BY <1>0, <1>12 DEF Noting, CallTool, CanNote
  <2> QED
    BY <1>0, <1>12, <2>1, ToolCalled DEF Noting
<1>13. CASE ToolTakesEffect(q)
  <2>1. sess[q].g.pending \in Calls
    BY <1>0, <1>13 DEF Noting, ToolTakesEffect
  <2> QED
    BY <1>0, <1>13, <2>1, EffectTaken DEF Noting
<1>14. CASE ToolReturns(q)
  <2>1. sess[q].g.pending \in Calls
    BY <1>0, <1>14 DEF Noting, ToolReturns
  <2> QED
    BY <1>0, <1>14, <2>1, ToolReturned DEF Noting
<1>15. CASE ToolFails(q)
  <2> DEFINE g == Cleared(sess[q].g)
  <2>1. sess[q].g.pending \in Calls
    BY <1>0, <1>15 DEF Noting, ToolFails
  <2>2. Goto(q, NoteAndFinish(q, g, "failed", "failed"))
    BY <1>15 DEF ToolFails, NoteAndFinish
  <2> HIDE DEF g
  <2> QED
    BY <1>0, <2>1, <2>2, FinishedNoting DEF Noting
<1>16. CASE RuntimeFails(q)
  BY <1>0, <1>16, Finished DEF RuntimeFails, Noting
<1> QED
  BY <1>1, <1>2, <1>3, <1>4, <1>5, <1>6, <1>7, <1>8, <1>9, <1>10, <1>11, <1>12, <1>13,
     <1>14, <1>15, <1>16

LEMMA AuditStep == IInv /\ AuditInv /\ [Next]_vars => AuditInv'
<1> SUFFICES ASSUME IInv, AuditInv, [Next]_vars PROVE AuditInv'
  OBVIOUS
<1>0. TypeOK
  BY DEF IInv
<1> USE <1>0
<1>1. ASSUME NEW q \in Requests,
             \/ StartRun(q) \/ EnterRuntime(q)
             \/ \E op \in {"approve", "reject", "resume"} : Receive(q, op)
             \/ DenyFlush(q) \/ Reenter(q) \/ Resume(q)
             \/ StepsExhausted(q) \/ DecideAnswer(q) \/ \E c \in Calls : DecideCall(q, c)
             \/ InvalidCall(q) \/ PauseForApproval(q) \/ CallTool(q)
             \/ ToolTakesEffect(q) \/ ToolReturns(q) \/ ToolFails(q) \/ RuntimeFails(q)
      PROVE  AuditInv'
  <2>1. UNCHANGED <<approval, record, latest>>
    BY <1>1 DEF StartRun, EnterRuntime, Receive, DenyFlush, Reenter, Resume, StepsExhausted,
       DecideAnswer, DecideCall, InvalidCall, PauseForApproval, CallTool, ToolTakesEffect,
       ToolReturns, ToolFails, RuntimeFails, db
  <2>2. Noting(sess'[q], Asked) /\ \A p \in Requests \ {q} : sess'[p] = sess[p]
    BY <1>1, StepAudited
  <2> QED
    BY <2>1, <2>2, NotingStep
<1>2. ASSUME NEW q \in Requests, LoadApproval(q) \/ LoadForResume(q)
      PROVE  AuditInv'
  <2>1. Seen # "none" => latest # NoCall
    BY DEF Seen
  <2>2. sess[q].call = latest /\ sess[q].seen # "none" => latest # NoCall
    BY DEF AuditInv, Noting
  <2>3. UNCHANGED <<approval, record, latest>>
    BY <1>2 DEF LoadApproval, LoadForResume, db
  <2>4. \/ Answer(q)
        \/ latest # NoCall /\ \E pc \in {"expiring", "approving", "rejecting", "reentering",
                                         "resuming"} : Hold(q, pc)
    BY <1>2, <2>1, <2>2 DEF LoadApproval, LoadForResume
  <2> QED
    BY <2>3, <2>4, HoldNoting, AnswerNoting
<1>3. ASSUME NEW q \in Requests, Approve(q)
      PROVE  AuditInv'
  <2>1. sess'[q] = [sess[q] EXCEPT !.pc = "reentering", !.seen = "approved"]
        /\ \A p \in Requests \ {q} : sess'[p] = sess[p]
    BY <1>3, Replaced DEF Approve
  <2>2. /\ sess'[q].pc = "reentering" /\ sess'[q].rec = sess[q].rec
        /\ sess'[q].call = sess[q].call
    BY <2>1 DEF TypeOK, Sessions
  <2>3. sess[q].call \in Asked
    BY <1>3 DEF Approve, AuditInv, Noting
  <2>4. Asked' = Asked
    BY <1>3, <2>3 DEF Approve, Asked, TypeOK
  <2>5. Noting(sess'[q], Asked)
    BY <2>2, <2>3, QuietNoting, RunAssumption DEF Asked
  <2>6. ApprovalIsAudited'
    BY <1>3, <2>4 DEF Approve, Asked, AuditInv, ApprovalIsAudited
  <2> QED
    BY <1>3, <2>1, <2>4, <2>5, <2>6, NotingAll DEF AuditInv, Approve
<1>4. ASSUME NEW q \in Requests, DenyCommit(q)
      PROVE  AuditInv'
  <2>1. sess[q].call \in Asked
    BY <1>4 DEF DenyCommit, AuditInv, Noting
  <2>2. Asked \subseteq Asked' /\ Asked' \subseteq Asked
    <3>1. sess[q].seen # "none"
      BY <1>4 DEF DenyCommit, IInv, Good
    <3>2. \A c \in Calls : approval'[c] = IF c = sess[q].call THEN sess[q].seen ELSE approval[c]
      BY <1>4 DEF DenyCommit, TypeOK
    <3> QED
      BY <2>1, <3>1, <3>2 DEF Asked
  <2>3. \A p \in Requests : Noting(sess'[p], Asked')
    BY <1>4, <2>2, Answered, IdleNoting, NotingAll DEF DenyCommit
  <2>4. \A c \in Calls : record[c] # "absent" => record'[c] # "absent"
    BY <1>4 DEF DenyCommit, TypeOK
  <2>5. ApprovalIsAudited'
    BY <2>2, <2>4 DEF Asked, AuditInv, ApprovalIsAudited
  <2>6. latest' \in Asked' \cup {NoCall}
    BY <1>4, <2>2 DEF DenyCommit, AuditInv
  <2> QED
    BY <2>3, <2>5, <2>6 DEF AuditInv
<1>5. ASSUME NEW q \in Requests, PersistEnd(q)
      PROVE  AuditInv'
  <2>1. Asked' = Asked /\ latest' = latest
    BY <1>5 DEF PersistEnd, Asked
  <2>2. \A p \in Requests : Noting(sess'[p], Asked')
    BY <1>5, <2>1, Answered, IdleNoting, NotingAll DEF PersistEnd
  <2>3. \A c \in Calls : record[c] # "absent" => record'[c] # "absent"
    BY <1>5 DEF PersistEnd, Committed, AuditInv, Noting
  <2>4. ApprovalIsAudited'
    BY <2>1, <2>3 DEF Asked, AuditInv, ApprovalIsAudited
  <2> QED
    BY <2>1, <2>2, <2>4 DEF AuditInv
<1>6. ASSUME NEW q \in Requests, PersistWaiting(q)
      PROVE  AuditInv'
  <2> DEFINE d == sess[q].g.pending
  <2>1. Noting(sess[q], Asked)
    BY DEF AuditInv
  <2>2. d \in Calls /\ sess[q].rec[d] = "waiting_approval"
    BY <1>6, <2>1, RunAssumption DEF Noting, PersistWaiting
  <2>3. Asked \subseteq Asked' /\ Asked' \subseteq Asked \cup {d} /\ d \in Asked' /\ latest' = d
    BY <1>6, <2>2 DEF PersistWaiting, Asked, TypeOK
  <2>4. \A p \in Requests : Noting(sess'[p], Asked')
    BY <1>6, <2>3, Answered, IdleNoting, NotingAll DEF PersistWaiting
  <2>5. \A c \in Calls : record[c] # "absent" => record'[c] # "absent"
    BY <1>6, <2>1 DEF PersistWaiting, Committed, Noting
  <2>6. record'[d] # "absent"
    BY <1>6, <2>2 DEF PersistWaiting, Committed
  <2>7. ApprovalIsAudited'
    BY <2>3, <2>5, <2>6 DEF Asked, AuditInv, ApprovalIsAudited
  <2> QED
    BY <2>3, <2>4, <2>7 DEF AuditInv
<1>7. ASSUME NEW q \in Requests, PersistDuplicate(q) \/ Abort(q)
      PROVE  AuditInv'
  BY <1>7, AnswerNoting DEF PersistDuplicate, Abort, db
<1>8. CASE UNCHANGED <<sess, approval, record, latest>>
  BY <1>8 DEF AuditInv, ApprovalIsAudited, Asked, Noting
<1>9. ASSUME NEW c \in Calls, UserApproves(c) \/ Lapse(c)
      PROVE  UNCHANGED <<sess, approval, record, latest>>
  BY <1>9 DEF UserApproves, Lapse, db
<1>10. DeleteAgent \/ UNCHANGED vars => UNCHANGED <<sess, approval, record, latest>>
  BY DEF DeleteAgent, vars, db
<1> QED
  BY <1>1, <1>2, <1>3, <1>4, <1>5, <1>6, <1>7, <1>8, <1>9, <1>10 DEF Next, Serve, Arrive

\* However many requests interleave, an approval is committed together with the tool
\* record of its call, and no later commit takes the record away
\* (AgentService._persist_runtime_result, _finish_rejected_run).
THEOREM ApprovalsAudited == Spec => []ApprovalIsAudited
<1>1. Init => AuditInv
  BY IdleNoting DEF Init, AuditInv, ApprovalIsAudited
<1>2. AuditInv => ApprovalIsAudited
  BY DEF AuditInv
<1> QED
  BY <1>1, <1>2, AuditStep, RunsInvariant, PTL DEF Spec

-----------------------------------------------------------------------------
(* One request at a time, with crashes anywhere: everything ApprovalGate promises,
   and the run's own promises to its user. *)

OneAtATime == \A p, q \in Requests : p = q

-----------------------------------------------------------------------------
(* The inductive invariant *)

Effects == {c \in Calls : executed[c] > 0}

\* In the graph, or about to save what it made.
Working(s) == s.pc \in {"agent", "tool", "executing", "returning", "persisting"}

\* Its pending call has still to take effect, now or after an approval.
Ahead(s) == \/ s.pc \in {"tool", "executing"}
            \/ s.pc = "persisting" /\ s.out = "waiting_approval"

\* A pending approval is of the call a waiting run waits for; a granted one stays so; a
\* run that is still to begin has had no effect; the effects of one that waits are
\* recorded, leave a step for the pending call, and do not include it.
RowsInv ==
    /\ WaitingIsDecidable
    /\ AtMostOneEffect
    /\ StepBudget
    /\ IsFiniteSet(Effects)
    /\ \A c \in Calls : approval[c] = "pending" => c = latest /\ run.status = "waiting_approval"
    /\ \A c \in granted : approval[c] = "approved"
    /\ run.status \in {"absent", "pending"} => Effects = {}
    /\ run.status = "waiting_approval" =>
           /\ executed[latest] = 0
           /\ \A c \in Effects : record[c] # "absent"
           /\ Cardinality(Effects) < run.state.steps

\* A session knows the run as it is; only one in the graph has flushed records; one
\* that decides holds the newest approval, undecided; one that resumes has seen it
\* approved; in the graph the run is running, every effect is recorded or about to be,
\* and the steps made cover the effects.
Serving(s) ==
    /\ s.pc # "idle" => s.run = run
    /\ ~Working(s) => \A c \in Calls : s.rec[c] = "clean"
    /\ s.pc = "starting" => run.status = "pending"
    /\ s.pc \in {"approve", "reject"} => s.call = NoCall
    /\ s.pc \in {"approving", "rejecting", "expiring", "denying"} =>
           s.call = latest /\ latest # NoCall /\ approval[latest] = "pending"
    /\ s.pc = "resume" => \/ s.call = NoCall /\ s.seen = "none"
                          \/ s.call = latest /\ s.seen = "approved"
    /\ s.pc \in {"reentering", "resuming"} => s.call = latest /\ s.seen = "approved"
    /\ s.pc = "resuming" => run.status = "waiting_approval"
    /\ Working(s) => /\ run.status = "running"
                     /\ \A c \in Effects : record[c] # "absent" \/ s.rec[c] # "clean"
    /\ s.pc \in {"agent", "returning"} => Cardinality(Effects) <= s.g.steps
    /\ Ahead(s) => executed[s.g.pending] = 0 /\ Cardinality(Effects) < s.g.steps
    /\ s.pc \in {"executing", "returning"} => s.rec[s.g.pending] # "clean"

SerialInv == RowsInv /\ \A q \in Requests : Serving(sess[q])

\* All that is known before a step.
Base == IInv /\ AuditInv /\ SerialInv

LEMMA BaseTypes ==
    ASSUME Base, NEW q \in Requests
    PROVE  /\ TypeOK /\ RowsInv /\ Serving(sess[q]) /\ Noting(sess[q], Asked)
           /\ Good(sess[q], granted)
           /\ sess[q] \in Sessions /\ sess[q].g \in States
           /\ sess[q].g.pending \in Calls \cup {NoCall}
           /\ sess[q].g.steps \in Nat /\ sess[q].run \in RunRows
           /\ Cardinality(Effects) \in Nat
<1>1. TypeOK /\ RowsInv /\ Serving(sess[q]) /\ Noting(sess[q], Asked) /\ Good(sess[q], granted)
  BY DEF Base, IInv, AuditInv, SerialInv
<1>2. /\ sess[q] \in Sessions /\ sess[q].g \in States
      /\ sess[q].g.pending \in Calls \cup {NoCall}
  BY <1>1, PendingCall
<1>3. sess[q].g.steps \in 0 .. MaxSteps
  BY <1>2 DEF States
<1>4. sess[q].run \in RunRows
  BY <1>2 DEF Sessions
<1>5. Cardinality(Effects) \in Nat
  BY <1>1, FS_CardinalityType DEF RowsInv
<1> QED
  BY <1>1, <1>2, <1>3, <1>4, <1>5, RunAssumption

LEMMA IdleServing == Serving(Idle)
BY IdleFields DEF Serving, Working, Ahead

\* A step that leaves rows and effects alone.
LEMMA SameRows ==
    ASSUME OneAtATime, Base, NEW q \in Requests, Serving(sess'[q]),
           UNCHANGED <<db, executed, granted>>
    PROVE  SerialInv'
<1>1. \A p \in Requests : p = q
  BY DEF OneAtATime
<1>2. RowsInv'
  BY DEF Base, SerialInv, RowsInv, WaitingIsDecidable, AtMostOneEffect, StepBudget, Effects, db
<1>3. Serving(sess[q])'
  BY DEF Serving, Working, Ahead, Effects, db
<1>4. \A p \in Requests : Serving(sess[p])'
  BY <1>1, <1>3
<1> QED
  BY <1>2, <1>4 DEF SerialInv

\* The request ends.
LEMMA EndedRows ==
    ASSUME OneAtATime, Base, NEW q \in Requests, Answer(q), RowsInv'
    PROVE  SerialInv'
<1>1. \A p \in Requests : sess'[p] = Idle
  BY Answered, BaseTypes DEF OneAtATime
<1>2. Serving(Idle)'
  BY IdleFields DEF Serving, Working, Ahead
<1> QED
  BY <1>1, <1>2 DEF SerialInv

LEMMA EndedSame ==
    ASSUME OneAtATime, Base, NEW q \in Requests, Answer(q), UNCHANGED <<db, executed, granted>>
    PROVE  SerialInv'
BY Answered, BaseTypes, IdleServing, SameRows

-----------------------------------------------------------------------------
(* Steps that leave the rows alone *)

\* Requests before the graph, and their ends.
LEMMA RequestSerial ==
    ASSUME OneAtATime, Base, NEW q \in Requests,
           \/ \E op \in {"approve", "reject", "resume"} : Receive(q, op)
           \/ LoadApproval(q) \/ DenyFlush(q) \/ Reenter(q) \/ LoadForResume(q)
           \/ PersistDuplicate(q) \/ Abort(q)
    PROVE  SerialInv'
<1>0. /\ TypeOK /\ RowsInv /\ Serving(sess[q]) /\ sess[q] \in Sessions
  BY BaseTypes
<1>1. UNCHANGED <<db, executed, granted>>
  BY DEF Receive, LoadApproval, DenyFlush, Reenter, LoadForResume, PersistDuplicate, Abort, ghosts
<1>2. CASE Answer(q)
  BY <1>1, <1>2, EndedSame
<1>3. ASSUME NEW op \in {"approve", "reject", "resume"}, Receive(q, op)
      PROVE  SerialInv'
  <2>1. sess'[q] = [Idle EXCEPT !.pc = op, !.run = run]
    BY <1>0, <1>3, Replaced DEF Receive
  <2>2. /\ sess'[q].pc = op /\ sess'[q].rec = Idle.rec /\ sess'[q].run = run
        /\ sess'[q].call = NoCall /\ sess'[q].seen = "none" /\ sess'[q].out = "none"
    BY <2>1 DEF Idle
  <2>3. Serving(sess'[q])
    BY <2>2, IdleFields DEF Serving, Working, Ahead
  <2> QED
    BY <1>1, <2>3, SameRows
<1>4. Seen \in {"pending", "overdue"} => latest # NoCall /\ approval[latest] = "pending"
  BY <1>0 DEF Seen, TypeOK, ApprovalStatuses
<1>5. Seen \notin {"none", "pending", "overdue"} => latest # NoCall
  BY DEF Seen
<1>6. CASE LoadApproval(q) /\ ~Answer(q)
  <2>1. PICK pc \in {"expiring", "approving", "rejecting", "reentering"} :
          /\ Hold(q, pc)
          /\ pc = "reentering" => Seen = "approved"
          /\ pc # "reentering" => Seen \in {"pending", "overdue"}
    BY <1>6 DEF LoadApproval
  <2>2. sess[q].call = NoCall /\ latest # NoCall /\ sess[q].run = run
        /\ \A c \in Calls : sess[q].rec[c] = "clean"
    BY <1>0, <1>4, <1>5, <1>6, <2>1 DEF LoadApproval, Serving, Working
  <2>3. Serving(sess'[q])
    BY <1>0, <1>4, <2>1, <2>2, Held DEF Serving, Working, Ahead
  <2> QED
    BY <1>1, <2>3, SameRows
<1>7. CASE LoadForResume(q) /\ ~Answer(q)
  <2> DEFINE seen == IF sess[q].call = latest THEN sess[q].seen ELSE Seen
  <2>1. PICK pc \in {"expiring", "resuming"} :
          /\ Hold(q, pc)
          /\ pc = "resuming" => seen = "approved" /\ sess[q].run.status = "waiting_approval"
          /\ pc = "expiring" => seen = "overdue"
    BY <1>7 DEF LoadForResume
  <2>2. /\ sess[q].run = run
        /\ \A c \in Calls : sess[q].rec[c] = "clean"
        /\ seen = "overdue" => Seen = "overdue"
    BY <1>0, <1>7 DEF LoadForResume, Serving, Working
  <2>3. Serving(sess'[q])
    BY <1>0, <1>4, <2>1, <2>2, Held DEF Serving, Working, Ahead
  <2> QED
    BY <1>1, <2>3, SameRows
<1>8. CASE DenyFlush(q)
  <2>1. sess'[q] = [sess[q] EXCEPT
                      !.pc = "denying",
                      !.seen = IF sess[q].pc = "expiring" THEN "expired" ELSE "rejected"]
    BY <1>0, <1>8, Replaced DEF DenyFlush
  <2>2. /\ sess'[q].pc = "denying" /\ sess'[q].rec = sess[q].rec
        /\ sess'[q].call = sess[q].call /\ sess'[q].run = sess[q].run
    BY <1>0, <2>1 DEF Sessions
  <2>3. Serving(sess'[q])
    BY <1>0, <1>8, <2>2 DEF DenyFlush, Serving, Working, Ahead
  <2> QED
    BY <1>1, <2>3, SameRows
<1>9. CASE Reenter(q) /\ ~Answer(q)
  <2>1. sess'[q] = [sess[q] EXCEPT !.pc = "resume"]
    BY <1>0, <1>9, Replaced DEF Reenter
  <2>2. /\ sess'[q].pc = "resume" /\ sess'[q].rec = sess[q].rec /\ sess'[q].seen = sess[q].seen
        /\ sess'[q].call = sess[q].call /\ sess'[q].run = sess[q].run
    BY <1>0, <2>1 DEF Sessions
  <2>3. Serving(sess'[q])
    BY <1>0, <1>9, <2>2 DEF Reenter, Serving, Working, Ahead
  <2> QED
    BY <1>1, <2>3, SameRows
<1> QED
  BY <1>2, <1>3, <1>6, <1>7, <1>8, <1>9 DEF PersistDuplicate, Abort

\* A call that is still to be made has had no effect, and there is a step for it.
LEMMA AheadOf ==
    ASSUME Base, NEW q \in Requests,
           \/ sess[q].pc = "tool" \/ sess[q].pc = "executing"
           \/ sess[q].pc = "persisting" /\ sess[q].out = "waiting_approval"
    PROVE  executed[sess[q].g.pending] = 0 /\ Cardinality(Effects) < sess[q].g.steps
<1>1. Ahead(sess[q])
  BY DEF Ahead
<1>2. Serving(sess[q])
  BY BaseTypes
<1>3. Ahead(sess[q]) => executed[sess[q].g.pending] = 0 /\ Cardinality(Effects) < sess[q].g.steps
  BY <1>2, ZenonT(20) DEF Serving
<1> QED
  BY <1>1, <1>3

\* The graph's steps but the effect itself.
LEMMA GraphSerial ==
    ASSUME OneAtATime, Base, NEW q \in Requests,
           \/ StepsExhausted(q) \/ DecideAnswer(q) \/ \E c \in Calls : DecideCall(q, c)
           \/ InvalidCall(q) \/ PauseForApproval(q) \/ CallTool(q)
           \/ ToolReturns(q) \/ ToolFails(q) \/ RuntimeFails(q)
    PROVE  SerialInv'
<1>0. /\ TypeOK /\ RowsInv /\ Serving(sess[q]) /\ sess[q] \in Sessions
      /\ Noting(sess[q], Asked)
      /\ sess[q].g \in States /\ sess[q].g.steps \in Nat /\ Cardinality(Effects) \in Nat
  BY BaseTypes
<1>1. UNCHANGED <<db, executed, granted>>
  BY DEF StepsExhausted, DecideAnswer, DecideCall, InvalidCall, PauseForApproval, CallTool,
     ToolReturns, ToolFails, RuntimeFails, ghosts
<1>2. /\ sess[q].run = run /\ run.status = "running"
      /\ \A c \in Effects : record[c] # "absent" \/ sess[q].rec[c] # "clean"
      /\ sess[q].pc \in {"tool", "executing", "returning"} => sess[q].g.pending \in Calls
  BY <1>0 DEF Serving, Working, Noting, StepsExhausted, DecideAnswer, DecideCall, InvalidCall,
     PauseForApproval, CallTool, CanNote, ToolReturns, ToolFails, RuntimeFails
\* An outcome other than a pause.
<1>3. ASSUME sess'[q].pc = "persisting", sess'[q].out # "waiting_approval",
             sess'[q].run = sess[q].run,
             \A c \in Calls : sess[q].rec[c] # "clean" => sess'[q].rec[c] # "clean"
      PROVE  SerialInv'
  <2>1. Serving(sess'[q])
    BY <1>2, <1>3 DEF Serving, Working, Ahead, Effects
  <2> QED
    BY <1>1, <2>1, SameRows
<1>4. CASE StepsExhausted(q)
  BY <1>0, <1>3, <1>4, Finished DEF StepsExhausted
<1>5. CASE DecideAnswer(q)
  BY <1>0, <1>3, <1>5, Finished DEF DecideAnswer
<1>6. ASSUME NEW c \in Calls, DecideCall(q, c)
      PROVE  SerialInv'
  <2>1. record[c] = "absent" /\ sess[q].rec[c] = "clean" /\ sess[q].pc = "agent"
    BY <1>6 DEF DecideCall, Fresh
  <2>2. executed[c] = 0
    BY <1>0, <1>2, <2>1 DEF Effects, TypeOK
  <2>3. Cardinality(Effects) < sess[q].g.steps + 1
    BY <1>0, <2>1 DEF Serving
  <2>4. Serving(sess'[q])
    BY <1>0, <1>2, <1>6, <2>2, <2>3, CallDecided DEF Serving, Working, Ahead
  <2> QED
    BY <1>1, <2>4, SameRows
<1>7. CASE InvalidCall(q) \/ ToolFails(q)
  <2> DEFINE g == Cleared(sess[q].g)
  <2>1. sess[q].g.pending \in Calls
    BY <1>2, <1>7 DEF InvalidCall, CanNote, ToolFails
  <2>2. Goto(q, NoteAndFinish(q, g, "failed", "failed"))
    BY <1>7 DEF InvalidCall, ToolFails, NoteAndFinish
  <2> HIDE DEF g
  <2> QED
    BY <1>0, <1>3, <2>1, <2>2, FinishedNoting
<1>8. CASE PauseForApproval(q)
  <2> DEFINE g == [sess[q].g EXCEPT !.resume = FALSE]
  <2>1. sess[q].g.pending \in Calls /\ sess[q].pc = "tool"
    BY <1>2, <1>8 DEF PauseForApproval, CanNote
  <2>2. g.pending = sess[q].g.pending /\ g.steps = sess[q].g.steps
    BY <1>0 DEF States
  <2>3. Goto(q, NoteAndFinish(q, g, "waiting_approval", "waiting_approval"))
    BY <1>8 DEF PauseForApproval, NoteAndFinish
  <2> HIDE DEF g
  <2>4. /\ sess'[q].pc = "persisting" /\ sess'[q].g = g /\ sess'[q].run = sess[q].run
        /\ \A c \in Calls : sess[q].rec[c] # "clean" => sess'[q].rec[c] # "clean"
    BY <1>0, <2>1, <2>3, FinishedNoting
  <2>5. executed[sess[q].g.pending] = 0 /\ Cardinality(Effects) < sess[q].g.steps
    BY <2>1, AheadOf
  <2>6. \A c \in Effects : record[c] # "absent" \/ sess'[q].rec[c] # "clean"
    BY <1>2, <2>4 DEF Effects
  <2>7. Serving(sess'[q])
    BY <1>2, <2>2, <2>4, <2>5, <2>6 DEF Serving, Working, Ahead
  <2> QED
    BY <1>1, <2>7, SameRows
<1>9. CASE CallTool(q)
  <2>1. sess[q].g.pending \in Calls /\ sess[q].pc = "tool"
    BY <1>2, <1>9 DEF CallTool, CanNote
  <2>2. /\ sess'[q].pc = "executing" /\ sess'[q].g = sess[q].g /\ sess'[q].run = sess[q].run
        /\ sess'[q].rec[sess[q].g.pending] # "clean"
        /\ \A c \in Calls : sess[q].rec[c] # "clean" => sess'[q].rec[c] # "clean"
    BY <1>0, <1>9, <2>1, ToolCalled
  <2>3. executed[sess[q].g.pending] = 0 /\ Cardinality(Effects) < sess[q].g.steps
    BY <2>1, AheadOf
  <2>4. \A c \in Effects : record[c] # "absent" \/ sess'[q].rec[c] # "clean"
    BY <1>2, <2>2 DEF Effects
  <2>5. Serving(sess'[q])
    BY <1>2, <2>2, <2>3, <2>4 DEF Serving, Working, Ahead
  <2> QED
    BY <1>1, <2>5, SameRows
<1>10. CASE ToolReturns(q)
  <2>1. sess[q].g.pending \in Calls /\ sess[q].pc = "returning"
    BY <1>2, <1>10 DEF ToolReturns
  <2>2. /\ sess'[q].pc = "agent" /\ sess'[q].g.steps = sess[q].g.steps
        /\ sess'[q].run = sess[q].run
        /\ \A c \in Calls : sess[q].rec[c] # "clean" => sess'[q].rec[c] # "clean"
    BY <1>0, <1>10, <2>1, ToolReturned
  <2>3. Serving(sess'[q])
    BY <1>0, <1>2, <2>1, <2>2 DEF Serving, Working, Ahead, Effects
  <2> QED
    BY <1>1, <2>3, SameRows
<1>11. CASE RuntimeFails(q)
  BY <1>0, <1>3, <1>11, Finished DEF RuntimeFails
<1> QED
  BY <1>4, <1>5, <1>6, <1>7, <1>8, <1>9, <1>10, <1>11

-----------------------------------------------------------------------------
(* Steps that change the rows *)

\* What a session that goes on has to keep beside new rows.
LEMMA MovedRows ==
    ASSUME OneAtATime, NEW q \in Requests, RowsInv', Serving(sess[q])'
    PROVE  SerialInv'
<1>1. \A p \in Requests : p = q
  BY DEF OneAtATime
<1> QED
  BY <1>1 DEF SerialInv

\* Only a waiting run has a pending approval.
LEMMA NonePending ==
    ASSUME RowsInv, run.status # "waiting_approval"
    PROVE  \A c \in Calls : approval[c] # "pending"
BY DEF RowsInv

LEMMA BeginningSerial ==
    ASSUME OneAtATime, Base, NEW q \in Requests, StartRun(q) \/ EnterRuntime(q)
    PROVE  SerialInv'
<1>0. TypeOK /\ RowsInv /\ Serving(sess[q]) /\ sess[q] \in Sessions /\ sess[q].g.steps \in Nat
  BY BaseTypes
<1>1. run.status \in {"absent", "pending"}
  BY <1>0 DEF StartRun, EnterRuntime, Serving
<1>2. Effects = {} /\ Cardinality(Effects) = 0
  BY <1>0, <1>1, FS_EmptySet DEF RowsInv
<1>3. /\ run'.status = IF StartRun(q) THEN "pending" ELSE "running"
      /\ UNCHANGED <<approval, latest, record, executed, granted>>
  <2>1. CASE StartRun(q)
    BY <2>1 DEF StartRun, ghosts
  <2>2. CASE EnterRuntime(q) /\ ~StartRun(q)
    BY <1>0, <2>2 DEF EnterRuntime, Serving, Updated, ghosts
  <2> QED
    BY <2>1, <2>2
<1>4. RowsInv'
  <2>1. Effects' = Effects
    BY <1>3 DEF Effects
  <2>2. run'.status # "waiting_approval" /\ run.status # "waiting_approval"
    BY <1>1, <1>3
  <2> QED
    BY <1>0, <1>2, <1>3, <2>1, <2>2 DEF RowsInv, WaitingIsDecidable, AtMostOneEffect, StepBudget,
       Effects
<1>5. Serving(sess[q])'
  <2>1. CASE StartRun(q)
    <3>1. sess'[q] = [Idle EXCEPT !.pc = "starting", !.run = run']
      BY <1>0, <2>1, Replaced DEF StartRun
    <3>2. sess'[q].pc = "starting" /\ sess'[q].run = run' /\ sess'[q].rec = Idle.rec
      BY <3>1 DEF Idle
    <3> QED
      BY <1>3, <2>1, <3>2, IdleFields DEF Serving, Working, Ahead
  <2>2. CASE EnterRuntime(q) /\ ~StartRun(q)
    <3>1. /\ sess'[q].pc = "agent" /\ sess'[q].run = run'
          /\ sess'[q].g = sess[q].g /\ sess'[q].rec = sess[q].rec
      BY <1>0, <2>2, EnteredRuntime
    <3>2. Effects' = {} /\ Cardinality(Effects') = 0
      BY <1>2, <1>3 DEF Effects
    <3> QED
      BY <1>0, <1>3, <2>2, <3>1, <3>2 DEF Serving, Working, Ahead
  <2> QED
    BY <2>1, <2>2
<1> QED
  BY <1>4, <1>5, MovedRows

LEMMA ApproveSerial ==
    ASSUME OneAtATime, Base, NEW q \in Requests, Approve(q)
    PROVE  SerialInv'
<1>0. TypeOK /\ RowsInv /\ Serving(sess[q]) /\ sess[q] \in Sessions
  BY BaseTypes
<1>1. /\ sess[q].call = latest /\ latest \in Calls /\ approval[latest] = "pending"
      /\ sess[q].run = run /\ \A c \in Calls : sess[q].rec[c] = "clean"
  BY <1>0 DEF Approve, Serving, Working, TypeOK
<1>2. sess'[q] = [sess[q] EXCEPT !.pc = "reentering", !.seen = "approved"]
  BY <1>0, Replaced DEF Approve
<1>3. /\ sess'[q].pc = "reentering" /\ sess'[q].seen = "approved" /\ sess'[q].rec = sess[q].rec
      /\ sess'[q].call = sess[q].call /\ sess'[q].run = sess[q].run
  BY <1>0, <1>2 DEF Sessions
<1>4. /\ \A c \in Calls : approval'[c] = IF c = latest THEN "approved" ELSE approval[c]
      /\ granted' = granted \cup {latest}
      /\ UNCHANGED <<run, latest, record, executed>>
  BY <1>0, <1>1 DEF Approve, TypeOK
<1>5. RowsInv'
  <2>1. Effects' = Effects
    BY <1>4 DEF Effects
  <2>2. WaitingIsDecidable'
    BY <1>0, <1>1, <1>4 DEF RowsInv, WaitingIsDecidable
  <2>3. \A c \in granted' : approval'[c] = "approved"
    BY <1>0, <1>1, <1>4 DEF RowsInv, TypeOK
  <2> QED
    BY <1>0, <1>4, <2>1, <2>2, <2>3 DEF RowsInv, AtMostOneEffect, StepBudget, Effects
<1>6. Serving(sess[q])'
  BY <1>1, <1>3, <1>4 DEF Serving, Working, Ahead
<1> QED
  BY <1>5, <1>6, MovedRows

LEMMA DenySerial ==
    ASSUME OneAtATime, Base, NEW q \in Requests, DenyCommit(q)
    PROVE  SerialInv'
<1>0. TypeOK /\ RowsInv /\ Serving(sess[q]) /\ sess[q] \in Sessions
  BY BaseTypes
<1>1. /\ sess[q].call = latest /\ latest \in Calls /\ approval[latest] = "pending"
      /\ sess[q].run = run /\ run.status = "waiting_approval"
  BY <1>0 DEF DenyCommit, Serving, TypeOK, RowsInv
<1>2. sess[q].seen \in {"rejected", "expired"}
  BY BaseTypes DEF DenyCommit, Good
<1>3. /\ run'.status = "failed"
      /\ \A c \in Calls : approval'[c] = IF c = latest THEN sess[q].seen ELSE approval[c]
      /\ UNCHANGED <<latest, executed, granted>>
  BY <1>0, <1>1 DEF DenyCommit, Updated, TypeOK, ghosts
<1>4. RowsInv'
  <2>1. Effects' = Effects
    BY <1>3 DEF Effects
  <2>2. \A c \in granted' : approval'[c] = "approved"
    BY <1>0, <1>1, <1>3 DEF RowsInv, TypeOK
  <2>3. \A c \in Calls : approval'[c] # "pending"
    BY <1>0, <1>1, <1>2, <1>3 DEF RowsInv
  <2> QED
    BY <1>0, <1>3, <2>1, <2>2, <2>3 DEF RowsInv, WaitingIsDecidable, AtMostOneEffect, StepBudget,
       Effects
<1> QED
  BY <1>4, EndedRows DEF DenyCommit

LEMMA ResumeSerial ==
    ASSUME OneAtATime, Base, NEW q \in Requests, Resume(q)
    PROVE  SerialInv'
<1>0. /\ TypeOK /\ RowsInv /\ Serving(sess[q]) /\ sess[q] \in Sessions
      /\ Good(sess[q], granted)
  BY BaseTypes
<1>1. /\ sess[q].run = run /\ run.status = "waiting_approval"
      /\ sess[q].call = latest /\ sess[q].seen = "approved"
  BY <1>0 DEF Resume, Serving
<1>2. latest = run.state.pending /\ latest # NoCall /\ approval[latest] = "approved"
  BY <1>0, <1>1 DEF RowsInv, WaitingIsDecidable, Good
<1>3. /\ executed[latest] = 0
      /\ \A c \in Effects : record[c] # "absent"
      /\ Cardinality(Effects) < run.state.steps
  BY <1>0, <1>1 DEF RowsInv
<1>4. /\ sess'[q].pc = "tool" /\ sess'[q].run = run' /\ sess'[q].rec = Idle.rec
      /\ sess'[q].g.pending = latest /\ sess'[q].g.steps = run.state.steps
      /\ run'.status = "running"
  BY <1>0, <1>1, <1>2, Resumed
<1>5. UNCHANGED <<approval, latest, record, executed, granted>>
  BY DEF Resume, ghosts
<1>6. Effects' = Effects
  BY <1>5 DEF Effects
<1>7. RowsInv'
  <2>1. \A c \in Calls : approval'[c] # "pending"
    BY <1>0, <1>2, <1>5 DEF RowsInv
  <2> QED
    BY <1>0, <1>4, <1>5, <1>6, <2>1 DEF RowsInv, WaitingIsDecidable, AtMostOneEffect, StepBudget,
       Effects
<1>8. Serving(sess[q])'
  BY <1>3, <1>4, <1>5, <1>6 DEF Serving, Working, Ahead
<1> QED
  BY <1>7, <1>8, MovedRows

LEMMA EffectSerial ==
    ASSUME OneAtATime, Base, NEW q \in Requests, ToolTakesEffect(q)
    PROVE  SerialInv'
<1> DEFINE d == sess[q].g.pending
<1>0. /\ TypeOK /\ RowsInv /\ Serving(sess[q]) /\ sess[q] \in Sessions
      /\ Noting(sess[q], Asked) /\ Cardinality(Effects) \in Nat
      /\ sess[q].g \in States
  BY BaseTypes
<1>1. sess[q].pc = "executing" /\ d \in Calls
  BY <1>0 DEF ToolTakesEffect, Noting
<1>2. /\ sess[q].run = run /\ run.status = "running" /\ sess[q].rec[d] # "clean"
      /\ \A c \in Effects : record[c] # "absent" \/ sess[q].rec[c] # "clean"
  BY <1>0, <1>1 DEF Serving, Working
<1>3. executed[d] = 0 /\ Cardinality(Effects) < sess[q].g.steps
  BY <1>1, AheadOf
<1>4. /\ \A c \in Calls : executed'[c] = IF c = d THEN executed[c] + 1 ELSE executed[c]
      /\ UNCHANGED <<run, approval, latest, record, granted>>
  BY <1>0 DEF ToolTakesEffect, TypeOK, db
<1>5. /\ sess'[q].pc = "returning" /\ sess'[q].g = sess[q].g
      /\ sess'[q].run = sess[q].run /\ sess'[q].rec = sess[q].rec
  BY <1>0, EffectTaken
<1>6. Effects' = Effects \cup {d}
  BY <1>0, <1>1, <1>3, <1>4 DEF Effects, TypeOK
<1>7. d \notin Effects
  BY <1>3 DEF Effects
<1>8. IsFiniteSet(Effects') /\ Cardinality(Effects') = Cardinality(Effects) + 1
  BY <1>0, <1>6, <1>7, FS_AddElement DEF RowsInv
<1>9. sess[q].g.steps \in Nat /\ sess[q].g.steps <= MaxSteps
  BY <1>0, RunAssumption DEF States
<1>10. Cardinality(Effects') <= sess[q].g.steps
  BY <1>0, <1>3, <1>8, <1>9
<1>11. StepBudget'
  <2>1. Cardinality(Effects') <= MaxSteps
    BY <1>0, <1>8, <1>9, <1>10, RunAssumption
  <2> QED
    BY <2>1 DEF StepBudget, Effects
<1>12. AtMostOneEffect'
  BY <1>0, <1>1, <1>3, <1>4 DEF RowsInv, AtMostOneEffect
<1>13. RowsInv'
  BY <1>0, <1>2, <1>4, <1>8, <1>11, <1>12 DEF RowsInv, WaitingIsDecidable
<1>14. Serving(sess[q])'
  BY <1>2, <1>4, <1>5, <1>6, <1>10 DEF Serving, Working, Ahead
<1> QED
  BY <1>13, <1>14, MovedRows

LEMMA PersistSerial ==
    ASSUME OneAtATime, Base, NEW q \in Requests, PersistEnd(q) \/ PersistWaiting(q)
    PROVE  SerialInv'
<1> DEFINE d == sess[q].g.pending
<1>0. /\ TypeOK /\ RowsInv /\ Serving(sess[q]) /\ sess[q] \in Sessions
      /\ Noting(sess[q], Asked)
  BY BaseTypes
<1>1. /\ sess[q].pc = "persisting" /\ sess[q].run = run /\ run.status = "running"
      /\ \A c \in Effects : record[c] # "absent" \/ sess[q].rec[c] # "clean"
  BY <1>0 DEF PersistEnd, PersistWaiting, Serving, Working
<1>2. \A c \in Calls : approval[c] # "pending"
  BY <1>0, <1>1, NonePending
<1>3. Effects' = Effects /\ UNCHANGED <<executed, granted>>
  BY DEF PersistEnd, PersistWaiting, Effects, ghosts
<1>4. CASE PersistEnd(q)
  <2>1. run'.status \in Terminal /\ UNCHANGED <<approval, latest>>
    BY <1>1, <1>4 DEF PersistEnd, Updated, Terminal
  <2>2. RowsInv'
    BY <1>0, <1>2, <1>3, <2>1 DEF RowsInv, WaitingIsDecidable, AtMostOneEffect, StepBudget,
       Effects, Terminal
  <2> QED
    BY <1>4, <2>2, EndedRows DEF PersistEnd
<1>5. CASE PersistWaiting(q)
  <2>1. d \in Calls /\ sess[q].rec[d] = "waiting_approval"
    BY <1>0, <1>5, RunAssumption DEF PersistWaiting, Noting
  <2>2. executed[d] = 0 /\ Cardinality(Effects) < sess[q].g.steps
    BY <1>5, AheadOf DEF PersistWaiting
  <2>3. /\ latest' = d /\ run'.status = "waiting_approval" /\ run'.state = sess[q].g
        /\ approval[d] = "none"
        /\ \A c \in Calls : approval'[c] = IF c = d THEN "pending" ELSE approval[c]
    BY <1>0, <1>1, <1>5 DEF PersistWaiting, Updated, TypeOK
  <2>4. \A c \in Calls :
            record'[c] = IF sess[q].rec[c] = "clean" THEN record[c] ELSE sess[q].rec[c]
    BY <1>5 DEF PersistWaiting, Committed
  <2>5. \A c \in Effects : record'[c] # "absent"
    BY <1>0, <1>1, <2>4 DEF Noting, Effects
  <2>6. WaitingIsDecidable'
    BY <2>1, <2>3, <2>4, RunAssumption DEF WaitingIsDecidable
  <2>7. \A c \in Calls : approval'[c] = "pending" => c = latest' /\ run'.status = "waiting_approval"
    BY <1>2, <2>3
  <2>8. \A c \in granted' : approval'[c] = "approved"
    BY <1>0, <1>3, <2>3 DEF RowsInv, TypeOK
  <2>9. /\ executed'[latest'] = 0 /\ \A c \in Effects' : record'[c] # "absent"
        /\ Cardinality(Effects') < run'.state.steps
    BY <1>3, <2>2, <2>3, <2>5
  <2>10. AtMostOneEffect' /\ StepBudget' /\ IsFiniteSet(Effects')
    BY <1>0, <1>3 DEF RowsInv, AtMostOneEffect, StepBudget, Effects
  <2>11. RowsInv'
    BY <2>3, <2>6, <2>7, <2>8, <2>9, <2>10 DEF RowsInv
  <2> QED
    BY <1>5, <2>11, EndedRows DEF PersistWaiting
<1> QED
  BY <1>4, <1>5

-----------------------------------------------------------------------------
(* Every step *)

LEMMA InitSerial == Init => SerialInv
<1> SUFFICES ASSUME Init PROVE SerialInv
  OBVIOUS
<1>1. Effects = {}
  BY DEF Init, Effects
<1>2. IsFiniteSet(Effects) /\ Cardinality(Effects) = 0
  BY <1>1, FS_EmptySet
<1>3. StepBudget
  BY <1>2, RunAssumption DEF StepBudget, Effects
<1>4. run.status = "absent"
  BY DEF Init, NoRun
<1>5. RowsInv
  BY <1>1, <1>2, <1>3, <1>4 DEF Init, RowsInv, WaitingIsDecidable, AtMostOneEffect
<1> QED
  BY <1>5, IdleServing DEF Init, SerialInv

LEMMA SerialStep == OneAtATime /\ Base /\ [Next]_vars => SerialInv'
<1> SUFFICES ASSUME OneAtATime, Base, [Next]_vars PROVE SerialInv'
  OBVIOUS
<1>1. ASSUME NEW q \in Requests, Serve(q) \/ Arrive(q) \/ Abort(q)
      PROVE  SerialInv'
  BY <1>1, RequestSerial, GraphSerial, BeginningSerial, ApproveSerial, DenySerial, ResumeSerial,
     EffectSerial, PersistSerial DEF Serve, Arrive
<1>2. CASE UNCHANGED <<db, sess, executed, granted>>
  BY <1>2 DEF Base, SerialInv, RowsInv, WaitingIsDecidable, AtMostOneEffect, StepBudget, Effects,
     Serving, Working, Ahead, db
<1>3. ASSUME NEW c \in Calls, UserApproves(c) \/ Lapse(c)
      PROVE  UNCHANGED <<db, sess, executed, granted>>
  BY <1>3 DEF UserApproves, Lapse, ghosts
<1>4. DeleteAgent \/ UNCHANGED vars => UNCHANGED <<db, sess, executed, granted>>
  BY DEF DeleteAgent, vars, ghosts
<1> QED
  BY <1>1, <1>2, <1>3, <1>4 DEF Next

\* What is known in every state.
LEMMA BaseAlways == OneAtATime => (Spec => []Base)
<1> SUFFICES ASSUME OneAtATime PROVE Spec => []Base
  OBVIOUS
<1>1. Init => Base
  BY InitInv, InitSerial, IdleNoting DEF Init, Base, AuditInv, ApprovalIsAudited
<1>2. Base /\ [Next]_vars => Base'
  <2>1. Base /\ [Next]_vars => IInv' /\ AuditInv'
    BY NextInv, AuditStep DEF Base
  <2>2. Base /\ [Next]_vars => SerialInv'
    BY SerialStep
  <2> QED
    BY <2>1, <2>2 DEF Base
<1> QED
  BY <1>1, <1>2, PTL DEF Spec

-----------------------------------------------------------------------------
(* What it means for the run *)

\* Repeated approve and resume requests, retries and crashes included, run the approved
\* tool at most once (AgentService.resume looks at the run it loaded before it enters
\* the graph).
THEOREM EffectsOnce == OneAtATime => (Spec => []AtMostOneEffect)
<1>1. Base => AtMostOneEffect
  BY DEF Base, SerialInv, RowsInv
<1> QED
  BY <1>1, BaseAlways, PTL

\* A run left waiting, by a pause or by a crash after the approval was committed, still
\* has an approval its user can act on (_persist_runtime_result, approve, resume).
THEOREM WaitingDecidable == OneAtATime => (Spec => []WaitingIsDecidable)
<1>1. Base => WaitingIsDecidable
  BY DEF Base, SerialInv, RowsInv
<1> QED
  BY <1>1, BaseAlways, PTL

\* The effects of a run, over all its pauses and resumes, stay within max_steps, whatever
\* number of calls the model asks for (agent_node's step check and the saved state).
THEOREM EffectsWithinBudget == OneAtATime => (Spec => []StepBudget)
<1>1. Base => StepBudget
  BY DEF Base, SerialInv, RowsInv
<1> QED
  BY <1>1, BaseAlways, PTL

LEMMA StatusSteps ==
    ASSUME Base, Next, run' # run
    PROVE  run.status \notin Terminal
<1>1. PICK q \in Requests : \/ StartRun(q) \/ EnterRuntime(q) \/ DenyCommit(q) \/ Resume(q)
                            \/ PersistEnd(q) \/ PersistWaiting(q)
  BY ZenonT(60) DEF Next, Serve, Arrive, Receive, LoadApproval, Approve, DenyFlush, Reenter, LoadForResume,
     StepsExhausted, DecideAnswer, DecideCall, InvalidCall, PauseForApproval, CallTool,
     ToolTakesEffect, ToolReturns, ToolFails, RuntimeFails, PersistDuplicate, Abort,
     UserApproves, Lapse, DeleteAgent, db
<1>2. TypeOK /\ RowsInv /\ Serving(sess[q])
  BY BaseTypes
<1>3. CASE StartRun(q)
  BY <1>3 DEF StartRun, Terminal
<1>4. CASE EnterRuntime(q)
  BY <1>2, <1>4 DEF EnterRuntime, Serving, Terminal
<1>5. CASE DenyCommit(q)
  BY <1>2, <1>5 DEF DenyCommit, Serving, RowsInv, TypeOK, Terminal
<1>6. CASE Resume(q)
  BY <1>2, <1>6 DEF Resume, Serving, Terminal
<1>7. CASE PersistEnd(q) \/ PersistWaiting(q)
  BY <1>2, <1>7 DEF PersistEnd, PersistWaiting, Serving, Working, Terminal
<1> QED
  BY <1>1, <1>3, <1>4, <1>5, <1>6, <1>7

\* No request moves a completed or failed run on, or lets it end anew.
THEOREM EndedStaysEnded == OneAtATime => (Spec => TerminalIsFinal)
<1> SUFFICES ASSUME OneAtATime PROVE Spec => TerminalIsFinal
  OBVIOUS
<1>1. Base /\ [Next]_vars => [run.status \in Terminal => run'.status = run.status]_run
  BY StatusSteps DEF vars, db
<1> QED
  BY <1>1, BaseAlways, PTL DEF Spec, TerminalIsFinal

-----------------------------------------------------------------------------
(* The refinement *)

\* What an approval row says to ApprovalGate.
Verdict(status) ==
    CASE status = "none"     -> "none"
      [] status = "pending"  -> "asked"
      [] status = "approved" -> "granted"
      [] OTHER               -> "denied"

Verdicts == [c \in Calls |-> Verdict(approval[c])]

LEMMA GateSame ==
    ASSUME UNCHANGED <<approval, executed>>
    PROVE  UNCHANGED Gate!gateVars
BY DEF Gate!gateVars

LEMMA GateStart == Init => Gate!Init
BY DEF Init, Gate!Init

\* One approval changes.
LEMMA VerdictMoves ==
    ASSUME TypeOK, NEW d \in Calls, NEW status, approval' = [approval EXCEPT ![d] = status]
    PROVE  Verdicts' = [Verdicts EXCEPT ![d] = Verdict(status)]
<1>1. \A c \in Calls : approval'[c] = IF c = d THEN status ELSE approval[c]
  BY DEF TypeOK
<1>2. \A c \in Calls : Verdict(approval'[c]) = IF c = d THEN Verdict(status) ELSE Verdict(approval[c])
  BY <1>1
<1>3. Verdicts' = [c \in Calls |-> Verdict(approval'[c])]
  BY DEF Verdicts, Verdict
<1> QED
  BY <1>2, <1>3 DEF Verdicts

LEMMA GateDecision ==
    ASSUME TypeOK, NEW d \in Calls, NEW status, UNCHANGED executed,
           approval' = [approval EXCEPT ![d] = status]
    PROVE  Gate!Decide(d, Verdict(approval[d]), Verdict(status))
<1>1. Verdicts' = [Verdicts EXCEPT ![d] = Verdict(status)]
  BY VerdictMoves
<1>2. Verdicts[d] = Verdict(approval[d])
  BY DEF Verdicts
<1> QED
  BY <1>1, <1>2 DEF Gate!Decide, Verdicts, Verdict

LEMMA GateApprove ==
    ASSUME Base, NEW q \in Requests, Approve(q)
    PROVE  Gate!Next
<1>1. PICK d \in Calls : d = sess[q].call /\ approval[d] = "pending"
  BY BaseTypes DEF Approve, Serving, TypeOK
<1>2. Gate!Decide(d, Verdict(approval[d]), Verdict("approved"))
  BY <1>1, GateDecision, BaseTypes DEF Approve
<1>3. Gate!Grant(d)
  BY <1>1, <1>2 DEF Gate!Grant, Verdict
<1> QED
  BY <1>3 DEF Gate!Next

LEMMA GateDeny ==
    ASSUME Base, NEW q \in Requests, DenyCommit(q)
    PROVE  Gate!Next
<1>1. PICK d \in Calls : d = sess[q].call /\ approval[d] = "pending"
  BY BaseTypes DEF DenyCommit, Serving, TypeOK
<1>2. PICK status \in {"rejected", "expired"} : status = sess[q].seen
  BY BaseTypes DEF DenyCommit, Good
<1>3. Gate!Decide(d, Verdict(approval[d]), Verdict(status))
  BY <1>1, <1>2, GateDecision, BaseTypes DEF DenyCommit, ghosts
<1>4. Gate!Deny(d)
  BY <1>1, <1>2, <1>3 DEF Gate!Deny, Verdict
<1> QED
  BY <1>4 DEF Gate!Next

LEMMA GatePause ==
    ASSUME Base, NEW q \in Requests, PersistWaiting(q)
    PROVE  Gate!Next
<1>1. PICK d \in Calls : d = sess[q].g.pending /\ d \in Guarded /\ approval[d] = "none"
  BY BaseTypes, RunAssumption DEF PersistWaiting, Noting
<1>2. Gate!Decide(d, Verdict(approval[d]), Verdict("pending"))
  BY <1>1, GateDecision, BaseTypes DEF PersistWaiting, ghosts
<1>3. Gate!Ask(d)
  BY <1>1, <1>2 DEF Gate!Ask, Verdict
<1> QED
  BY <1>3 DEF Gate!Next

LEMMA GateEffect ==
    ASSUME Base, NEW q \in Requests, ToolTakesEffect(q)
    PROVE  Gate!Next
<1>1. PICK d \in Calls : d = sess[q].g.pending /\ executed[d] = 0
  BY BaseTypes, AheadOf DEF ToolTakesEffect, Noting
<1>2. d \in Guarded => approval[d] = "approved"
  <2>1. d \in Guarded => d \in granted
    BY <1>1, BaseTypes, RunAssumption DEF ToolTakesEffect, Good, NeedsApproval, Backed
  <2> QED
    BY <1>1, <2>1, BaseTypes DEF RowsInv
<1>3. executed' = [executed EXCEPT ![d] = 1] /\ UNCHANGED approval
  BY <1>1, BaseTypes DEF ToolTakesEffect, TypeOK, db
<1>4. d \in Guarded => Verdicts[d] = "granted"
  BY <1>1, <1>2 DEF Verdicts, Verdict
<1>5. Gate!TakeEffect(d)
  BY <1>1, <1>3, <1>4 DEF Gate!TakeEffect, Verdicts, Verdict
<1> QED
  BY <1>5 DEF Gate!Next

LEMMA GateStep == Base /\ [Next]_vars => [Gate!Next]_(Gate!gateVars)
<1> SUFFICES ASSUME Base, [Next]_vars PROVE Gate!Next \/ UNCHANGED Gate!gateVars
  OBVIOUS
<1>1. ASSUME NEW q \in Requests, Approve(q) \/ DenyCommit(q) \/ PersistWaiting(q) \/ ToolTakesEffect(q)
      PROVE  Gate!Next
  BY <1>1, GateApprove, GateDeny, GatePause, GateEffect
<1>2. \/ \E q \in Requests : \/ Approve(q) \/ DenyCommit(q) \/ PersistWaiting(q)
                             \/ ToolTakesEffect(q)
      \/ UNCHANGED <<approval, executed>>
  BY ZenonT(60) DEF vars, Next, Serve, Arrive, StartRun, EnterRuntime, Receive, LoadApproval, DenyFlush,
     Reenter, LoadForResume, Resume, StepsExhausted, DecideAnswer, DecideCall, InvalidCall,
     PauseForApproval, CallTool, ToolReturns, ToolFails, RuntimeFails, PersistEnd,
     PersistDuplicate, Abort, UserApproves, Lapse, DeleteAgent, db, ghosts
<1> QED
  BY <1>1, <1>2, GateSame

\* The requests of one run, served one at a time and cut off anywhere, do what
\* ApprovalGate says and nothing else: a call is put to the user once, decided once,
\* and takes effect at most once, a guarded one after its approval (AgentService and
\* ToolRegistry.execute).
THEOREM ImplementsGate == OneAtATime => (Spec => FollowsGate)
<1> SUFFICES ASSUME OneAtATime PROVE Spec => Gate!Spec
  BY DEF FollowsGate
<1>1. Base /\ [Next]_vars => [Gate!Next]_(Gate!gateVars)
  BY GateStep
<1> QED
  BY <1>1, GateStart, BaseAlways, PTL DEF Spec, Gate!Spec
=============================================================================
