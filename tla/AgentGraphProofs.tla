-------------------------- MODULE AgentGraphProofs --------------------------
(***************************************************************************)
(* Proofs about AgentGraph: types, the accounts of the JSON state and of   *)
(* the records, the step budget, abandoned runs and LangGraph's limit, for *)
(* every set of tools, step limit and number of node visits.               *)
(***************************************************************************)
EXTENDS AgentGraph, SequenceTheorems, TLAPS

-----------------------------------------------------------------------------
(* States *)

CallRecords == [tool : Tools, status : CallStatuses]

\* States without their bounds.
LooseStates == [steps    : Nat,
                calls    : Seq(CallRecords),
                results  : Nat,
                pending  : BOOLEAN,
                approved : BOOLEAN,
                resume   : BOOLEAN,
                kb       : {"none", "uuid", "text"}]

\* The first n calls have ended.
Ended(g, n) == \A i \in 1 .. n : g.calls[i].status \in {"completed", "failed"}

\* Every call has ended; the model may be asked.
AtRest(g) == /\ ~g.pending /\ ~g.resume
             /\ g.steps = Len(g.calls) /\ g.results = Len(g.calls)
             /\ Ended(g, Len(g.calls))

\* The last call is the pending one.
Open(g) == /\ g.pending /\ g.calls # <<>>
           /\ g.steps = Len(g.calls) /\ g.results = Len(g.calls) - 1
           /\ Ended(g, Len(g.calls) - 1)

Paused(g) == Open(g) /\ g.calls[Len(g.calls)].status = "waiting_approval"

\* The model has given its answer.
Answered(g) == /\ ~g.pending
               /\ g.steps = Len(g.calls) + 1 /\ g.results = Len(g.calls)
               /\ Ended(g, Len(g.calls))

\* The records rec of the first n calls of g.
Told(rec, g, n) ==
    Len(rec) = n /\ \A i \in 1 .. n : i <= Len(g.calls) /\ rec[i] = g.calls[i].status

ToldAll(rec, g) == Told(rec, g, Len(g.calls))

CleanErrors == {"MAX_STEPS_EXCEEDED", "TOOL_FAILED"}

\* A state, with its records, as a run may be saved with it.
Outcome(status, error, g, rec) ==
    /\ status = "waiting_approval" => Paused(g) /\ ToldAll(rec, g) /\ error = "none"
    /\ status = "completed" => Answered(g) /\ ToldAll(rec, g) /\ error = "none"
    /\ (status = "failed" /\ error \in CleanErrors) => AtRest(g) /\ ToldAll(rec, g)

Bounded(g) == g.steps <= MaxSteps /\ Len(g.calls) <= g.steps /\ g.results <= Len(g.calls)
                /\ Len(g.calls) <= largest

RowInv ==
    /\ Outcome(row.status, row.error, row.state, record)
    /\ row.status = "absent" => row = NoRow /\ record = <<>> /\ sess.pc = "idle"
    /\ row.status = "running" => row.error = "none" /\ (sess.pc = "idle" => lost)
    /\ Bounded(row.state)
    /\ Len(record) <= MaxSteps

SessInv ==
    LET g == sess.g IN
    /\ sess.pc # "idle" => row.status = "running"
    /\ agent.max <= largest /\ sess.limit <= largest
    /\ Bounded(g) /\ Bounded(sess.init)
    /\ Len(sess.record) <= MaxSteps
    /\ sess.pc \in {"ended", "saving"} =>
           sess.out # "none" /\ Outcome(sess.out, sess.error, g, sess.record)
    /\ sess.pc = "building" =>
           ToldAll(sess.record, g) /\ (AtRest(g) \/ (Paused(g) /\ g.resume))
    /\ sess.pc = "agent" => AtRest(g) /\ ToldAll(sess.record, g)
    /\ sess.pc = "tool" => \/ Open(g) /\ ~g.resume /\ Told(sess.record, g, Len(g.calls) - 1)
                           \/ Paused(g) /\ g.resume /\ ToldAll(sess.record, g)
    /\ sess.pc = "executing" => /\ Open(g) /\ Len(sess.record) = Len(g.calls)
                                /\ \A i \in 1 .. Len(g.calls) - 1 : sess.record[i] = g.calls[i].status

VisitInv ==
    /\ sess.pc = "building" => sess.visits = 0
    /\ sess.pc = "agent" => sess.visits <= 2 * sess.g.steps
    /\ sess.pc \in {"tool", "executing"} => sess.visits <= 2 * sess.g.steps - 1
    /\ sess.visits <= Recursion /\ (sess.pc = "executing" => sess.visits < Recursion)
    /\ sess.pc = "ended" => sess.visits <= 2 * largest + 1
    /\ 2 * largest + 1 <= Recursion - 2 =>
           row.error # "AGENT_RUNTIME_FAILED" /\ sess.error # "AGENT_RUNTIME_FAILED"
LEMMA NewStateFacts ==
    ASSUME NEW kb \in {"none", "uuid"}
    PROVE  LET g == NewState(kb) IN
               /\ g \in LooseStates /\ AtRest(g) /\ ToldAll(<<>>, g)
               /\ g.steps = 0 /\ Len(g.calls) = 0
<1> DEFINE g == NewState(kb)
<1>1. g \in LooseStates
  BY DEF NewState, LooseStates
<1>2. /\ ~g.pending /\ ~g.resume /\ g.steps = 0 /\ g.results = 0 /\ g.calls = <<>>
      /\ Len(<<>>) = 0
  BY DEF NewState
<1> HIDE DEF g
<1>3. AtRest(g) /\ ToldAll(<<>>, g)
  BY <1>2 DEF AtRest, Ended, ToldAll, Told
<1> QED
  BY <1>1, <1>2, <1>3 DEF g

LEMMA WithLastFacts ==
    ASSUME NEW seq \in Seq(RecordStatuses), seq # <<>>, NEW e \in RecordStatuses
    PROVE  /\ WithLast(seq, e) \in Seq(RecordStatuses) /\ Len(WithLast(seq, e)) = Len(seq)
           /\ \A i \in 1 .. Len(seq) : WithLast(seq, e)[i] = IF i = Len(seq) THEN e ELSE seq[i]
<1>1. Len(seq) \in 1 .. Len(seq)
  OBVIOUS
<1> QED
  BY <1>1, ExceptSeq DEF WithLast

\* The last call gets a status.
LEMMA MarkedFacts ==
    ASSUME NEW g \in LooseStates, g.calls # <<>>, NEW status \in CallStatuses
    PROVE  LET h == Marked(g, status) IN
               /\ h \in LooseStates
               /\ h.steps = g.steps /\ h.results = g.results /\ h.pending = g.pending
               /\ h.approved = g.approved /\ h.resume = g.resume /\ h.kb = g.kb
               /\ Len(h.calls) = Len(g.calls)
               /\ \A i \in 1 .. Len(g.calls) :
                    h.calls[i].status = IF i = Len(g.calls) THEN status ELSE g.calls[i].status
<1> DEFINE n == Len(g.calls)
           c == [g.calls[n] EXCEPT !.status = status]
           calls == [g.calls EXCEPT ![n] = c]
<1>1. g.calls \in Seq(CallRecords) /\ n \in 1 .. n
  BY DEF LooseStates
<1>2. g.calls[n] \in CallRecords
  BY <1>1, ElementOfSeq
<1>3. c \in CallRecords /\ c.status = status
  BY <1>2 DEF CallRecords
<1>4. /\ calls \in Seq(CallRecords) /\ Len(calls) = n
      /\ \A i \in 1 .. n : calls[i] = IF i = n THEN c ELSE g.calls[i]
  BY <1>1, <1>3, ExceptSeq
<1>5. Marked(g, status) = [g EXCEPT !.calls = calls]
  BY DEF Marked, LooseStates
<1> HIDE DEF calls
<1>6. [g EXCEPT !.calls = calls] \in LooseStates
  BY <1>4 DEF LooseStates
<1>7. LET h == [g EXCEPT !.calls = calls] IN
        /\ h.steps = g.steps /\ h.results = g.results /\ h.pending = g.pending
        /\ h.approved = g.approved /\ h.resume = g.resume /\ h.kb = g.kb
        /\ h.calls = calls
  BY DEF LooseStates
<1> HIDE DEF c
<1>8. \A i \in 1 .. n : calls[i].status = IF i = n THEN status ELSE g.calls[i].status
  BY <1>3, <1>4
<1> QED
  BY <1>4, <1>5, <1>6, <1>7, <1>8

\* The pending call has ended.
LEMMA ClearedFacts ==
    ASSUME NEW g \in LooseStates, Open(g), NEW status \in {"completed", "failed"}
    PROVE  LET h == Cleared(g, status) IN
               /\ h \in LooseStates /\ AtRest(h)
               /\ Len(h.calls) = Len(g.calls) /\ h.steps = g.steps
               /\ \A i \in 1 .. Len(g.calls) :
                    h.calls[i].status = IF i = Len(g.calls) THEN status ELSE g.calls[i].status
<1> DEFINE m == Marked(g, status)
           r == m.results + 1
           h == [m EXCEPT !.pending = FALSE, !.approved = FALSE, !.resume = FALSE,
                          !.results = r]
<1>0. g.calls # <<>> /\ status \in CallStatuses
  BY DEF Open, CallStatuses
<1>1. /\ m \in LooseStates
      /\ m.steps = g.steps /\ m.results = g.results
      /\ Len(m.calls) = Len(g.calls)
      /\ \A i \in 1 .. Len(g.calls) :
            m.calls[i].status = IF i = Len(g.calls) THEN status ELSE g.calls[i].status
  BY <1>0, MarkedFacts
<1>2. h = Cleared(g, status) /\ r = m.results + 1
  BY DEF Cleared
<1> HIDE DEF m
<1>5. r \in Nat
  BY <1>1 DEF LooseStates
<1> HIDE DEF r
<1>3. /\ h \in LooseStates
      /\ ~h.pending /\ ~h.resume /\ h.steps = m.steps /\ h.results = r
      /\ h.calls = m.calls
  BY <1>1, <1>5 DEF LooseStates
<1> HIDE DEF h
<1>4. AtRest(h)
  <2>1. Len(g.calls) \in Nat
    BY DEF LooseStates
  <2>2. h.steps = Len(h.calls) /\ h.results = Len(h.calls)
    BY <1>1, <1>2, <1>3, <2>1 DEF Open
  <2>3. Ended(h, Len(h.calls))
    BY <1>1, <1>3, <2>1 DEF Ended, Open
  <2> QED
    BY <1>3, <2>2, <2>3 DEF AtRest
<1> QED
  BY <1>1, <1>2, <1>3, <1>4

\* A tool is asked for.
LEMMA AskedFacts ==
    ASSUME NEW g \in LooseStates, AtRest(g), NEW tool \in Tools
    PROVE  LET h == [g EXCEPT !.steps = @ + 1, !.pending = TRUE,
                              !.calls = Append(@, [tool |-> tool, status |-> "pending"])] IN
               /\ h \in LooseStates /\ Open(h) /\ ~h.resume
               /\ h.steps = g.steps + 1 /\ Len(h.calls) = Len(g.calls) + 1
               /\ \A i \in 1 .. Len(g.calls) : h.calls[i].status = g.calls[i].status
<1> DEFINE c == [tool |-> tool, status |-> "pending"]
           calls == Append(g.calls, c)
           s == g.steps + 1
           h == [g EXCEPT !.steps = s, !.pending = TRUE, !.calls = calls]
<1>1. c \in CallRecords /\ g.calls \in Seq(CallRecords) /\ Len(g.calls) \in Nat
  BY DEF CallRecords, CallStatuses, LooseStates
<1>2. /\ calls \in Seq(CallRecords) /\ Len(calls) = Len(g.calls) + 1 /\ calls # <<>>
      /\ \A i \in 1 .. Len(g.calls) : calls[i] = g.calls[i]
  BY <1>1
<1>6. s \in Nat /\ s = g.steps + 1
  BY DEF LooseStates
<1> HIDE DEF calls, s
<1>3. /\ h \in LooseStates /\ h.pending /\ h.resume = g.resume /\ h.results = g.results
      /\ h.steps = s /\ h.calls = calls
  BY <1>2, <1>6 DEF LooseStates
<1> HIDE DEF h
<1>4. Open(h)
  BY <1>1, <1>2, <1>3, <1>6 DEF Open, AtRest, Ended
<1>5. ~h.resume
  BY <1>3 DEF AtRest
<1> QED
  BY <1>2, <1>3, <1>4, <1>5, <1>6 DEF h, calls, s

-----------------------------------------------------------------------------
(* Steps, field by field *)

LooseRows == [status : {"absent", "running", "waiting_approval", "completed", "failed"},
              max    : 0 .. MaxSteps,
              state  : LooseStates,
              error  : Errors]

LooseSessions ==
    [pc     : {"idle", "building", "agent", "tool", "executing", "ended", "saving"},
     limit  : 0 .. MaxSteps,
     tools  : SUBSET Tools,
     twice  : BOOLEAN,
     init   : LooseStates,
     g      : LooseStates,
     visits : Nat,
     out    : {"none", "waiting_approval", "completed", "failed"},
     error  : Errors,
     record : Seq(RecordStatuses)]

LooseInv ==
    /\ agent \in Agents
    /\ row \in LooseRows
    /\ record \in Seq(RecordStatuses)
    /\ sess \in LooseSessions
    /\ largest \in 1 .. MaxSteps
    /\ lost \in BOOLEAN

GraphInv == LooseInv /\ RowInv /\ SessInv /\ VisitInv

LEMMA Fields ==
    ASSUME LooseInv
    PROVE  /\ sess.pc \in {"idle", "building", "agent", "tool", "executing", "ended", "saving"}
           /\ sess.limit \in 0 .. MaxSteps /\ sess.visits \in Nat
           /\ sess.init \in LooseStates /\ sess.g \in LooseStates
           /\ sess.record \in Seq(RecordStatuses) /\ Len(sess.record) \in Nat
           /\ sess.out \in {"none", "waiting_approval", "completed", "failed"}
           /\ sess.error \in Errors
           /\ row.state \in LooseStates /\ row.error \in Errors
           /\ agent.max \in 1 .. MaxSteps /\ agent.tools \in SUBSET Tools
           /\ agent.repeated \in BOOLEAN
           /\ largest \in Nat /\ MaxSteps \in Nat /\ Recursion \in Nat
<1>1. sess \in LooseSessions /\ row \in LooseRows /\ agent \in Agents
  BY DEF LooseInv
<1>2. largest \in Nat /\ MaxSteps \in Nat /\ Recursion \in Nat
  BY GraphAssumption DEF LooseInv, GraphAssumption
<1>3. sess.record \in Seq(RecordStatuses) /\ Len(sess.record) \in Nat
  BY <1>1 DEF LooseSessions
<1>4. row.state \in LooseStates /\ row.error \in Errors
  BY <1>1 DEF LooseRows
<1>5. agent.max \in 1 .. MaxSteps /\ agent.tools \in SUBSET Tools /\ agent.repeated \in BOOLEAN
  BY <1>1 DEF Agents
<1> QED
  BY <1>1, <1>2, <1>3, <1>4, <1>5 DEF LooseSessions

LEMMA Numbers ==
    ASSUME NEW g \in LooseStates
    PROVE  /\ g.steps \in Nat /\ g.results \in Nat /\ Len(g.calls) \in Nat
           /\ g.calls \in Seq(CallRecords)
           /\ g.calls # <<>> => Len(g.calls) >= 1
           /\ Len(g.calls) >= 1 => g.calls # <<>>
           /\ g.resume \in BOOLEAN /\ g.pending \in BOOLEAN
BY DEF LooseStates

LEMMA GoOnEffect ==
    ASSUME LooseInv, NEW pc \in {"agent", "tool", "executing"}, NEW g \in LooseStates,
           NEW rec \in Seq(RecordStatuses), GoOn(pc, g, rec)
    PROVE  /\ UNCHANGED <<agent, row, record, largest, lost>>
           /\ sess'.pc = pc /\ sess'.g = g /\ sess'.record = rec
           /\ sess'.limit = sess.limit /\ sess'.init = sess.init /\ sess'.error = sess.error
           /\ sess'.visits = IF pc = "executing" THEN sess.visits ELSE sess.visits + 1
           /\ LooseInv'
<1> DEFINE v == IF pc = "executing" THEN sess.visits ELSE sess.visits + 1
<1>1. v \in Nat
  BY Fields
<1>2. sess' = [sess EXCEPT !.pc = pc, !.g = g, !.record = rec, !.visits = v]
      /\ UNCHANGED <<agent, row, record, largest, lost>>
  BY DEF GoOn, ghosts
<1> HIDE DEF v
<1>3. sess \in LooseSessions
  BY DEF LooseInv
<1>4. /\ sess' \in LooseSessions
      /\ sess'.pc = pc /\ sess'.g = g /\ sess'.record = rec
      /\ sess'.limit = sess.limit /\ sess'.init = sess.init /\ sess'.error = sess.error
      /\ sess'.visits = v
  BY <1>1, <1>2, <1>3 DEF LooseSessions
<1> QED
  BY <1>2, <1>4 DEF LooseInv, v

LEMMA EndEffect ==
    ASSUME LooseInv, NEW g \in LooseStates,
           NEW out \in {"waiting_approval", "completed", "failed"}, NEW error \in Errors,
           NEW rec \in Seq(RecordStatuses), End(g, out, error, rec)
    PROVE  /\ UNCHANGED <<agent, row, record, largest, lost>>
           /\ sess'.pc = "ended" /\ sess'.g = g /\ sess'.record = rec
           /\ sess'.out = out /\ sess'.error = error
           /\ sess'.limit = sess.limit /\ sess'.init = sess.init
           /\ sess'.visits = sess.visits + 1
           /\ LooseInv'
<1> DEFINE v == sess.visits + 1
<1>1. v \in Nat
  BY Fields
<1>2. sess' = [sess EXCEPT !.pc = "ended", !.g = g, !.out = out, !.error = error,
                           !.record = rec, !.visits = v]
      /\ UNCHANGED <<agent, row, record, largest, lost>>
  BY DEF End, ghosts
<1> HIDE DEF v
<1>3. sess \in LooseSessions
  BY DEF LooseInv
<1>4. /\ sess' \in LooseSessions
      /\ sess'.pc = "ended" /\ sess'.g = g /\ sess'.record = rec
      /\ sess'.out = out /\ sess'.error = error
      /\ sess'.limit = sess.limit /\ sess'.init = sess.init
      /\ sess'.visits = v
  BY <1>1, <1>2, <1>3 DEF LooseSessions
<1> QED
  BY <1>2, <1>4 DEF LooseInv, v

LEMMA FailEffect ==
    ASSUME LooseInv, NEW error \in Errors, FailWith(error)
    PROVE  /\ UNCHANGED <<agent, row, record, largest, lost>>
           /\ sess'.pc = "saving" /\ sess'.g = sess.init /\ sess'.record = sess.record
           /\ sess'.out = "failed" /\ sess'.error = error /\ sess'.visits = sess.visits
           /\ sess'.limit = sess.limit /\ sess'.init = sess.init
           /\ LooseInv'
<1>1. sess' = [sess EXCEPT !.pc = "saving", !.g = sess.init, !.out = "failed", !.error = error]
      /\ UNCHANGED <<agent, row, record, largest, lost>>
  BY DEF FailWith, ghosts
<1>2. sess \in LooseSessions
  BY DEF LooseInv
<1>3. /\ sess' \in LooseSessions
      /\ sess'.pc = "saving" /\ sess'.g = sess.init /\ sess'.record = sess.record
      /\ sess'.out = "failed" /\ sess'.error = error /\ sess'.visits = sess.visits
      /\ sess'.limit = sess.limit /\ sess'.init = sess.init
  BY <1>1, <1>2 DEF LooseSessions
<1> QED
  BY <1>1, <1>3 DEF LooseInv

\* A session is closed, or only its place changes.
LEMMA IdleEffect ==
    ASSUME GraphAssumption
    PROVE  /\ Idle \in LooseSessions
           /\ Idle.pc = "idle" /\ Idle.limit = 0 /\ Idle.error = "none"
           /\ Len(Idle.record) = 0
           /\ Idle.g = NewState("none") /\ Idle.init = NewState("none")
<1>1. NewState("none") \in LooseStates
  BY NewStateFacts
<1> QED
  BY <1>1 DEF Idle, LooseSessions, Errors, GraphAssumption, RecordStatuses

LEMMA PlaceEffect ==
    ASSUME LooseInv, NEW pc \in {"agent", "tool", "saving"}, sess' = [sess EXCEPT !.pc = pc],
           UNCHANGED <<agent, row, record, largest, lost>>
    PROVE  /\ sess'.pc = pc /\ sess'.g = sess.g /\ sess'.record = sess.record
           /\ sess'.out = sess.out /\ sess'.error = sess.error
           /\ sess'.limit = sess.limit /\ sess'.init = sess.init /\ sess'.visits = sess.visits
           /\ LooseInv'
<1>1. sess \in LooseSessions
  BY DEF LooseInv
<1>2. /\ sess' \in LooseSessions
      /\ sess'.pc = pc /\ sess'.g = sess.g /\ sess'.record = sess.record
      /\ sess'.out = sess.out /\ sess'.error = sess.error
      /\ sess'.limit = sess.limit /\ sess'.init = sess.init /\ sess'.visits = sess.visits
  BY <1>1 DEF LooseSessions
<1> QED
  BY <1>2 DEF LooseInv

LEMMA EnterFacts ==
    ASSUME LooseInv, NEW g \in LooseStates
    PROVE  LET s == Enter(g) IN
               /\ s \in LooseSessions
               /\ s.pc = "building" /\ s.limit = agent.max /\ s.init = g /\ s.g = g
               /\ s.visits = 0 /\ s.record = record /\ s.error = "none"
<1>1. Idle \in LooseSessions /\ Idle.visits = 0 /\ Idle.error = "none"
  BY GraphAssumption, IdleEffect DEF Idle
<1>2. agent.max \in 0 .. MaxSteps /\ agent.tools \in SUBSET Tools /\ agent.repeated \in BOOLEAN
  BY Fields
<1>3. record \in Seq(RecordStatuses)
  BY DEF LooseInv
<1> QED
  BY <1>1, <1>2, <1>3 DEF Enter, LooseSessions

-----------------------------------------------------------------------------
(* The graph *)

\* While a request is at work the row rests.
LEMMA RowRests ==
    ASSUME GraphInv, UNCHANGED <<row, record, largest, lost>>,
           sess.pc # "idle", sess'.pc # "idle"
    PROVE  RowInv'
BY DEF GraphInv, RowInv, SessInv, Bounded

\* The record of the pending call, as the tool node writes it.
LEMMA NotedFacts ==
    ASSUME GraphInv, sess.pc = "tool", NEW status \in RecordStatuses
    PROVE  LET rec == Noted(status)  n == Len(sess.g.calls) IN
               /\ rec \in Seq(RecordStatuses) /\ Len(rec) = n
               /\ rec[n] = status
               /\ \A i \in 1 .. n - 1 : rec[i] = sess.g.calls[i].status
               /\ Open(sess.g)
<1> DEFINE n == Len(sess.g.calls)
<1>1. /\ Open(sess.g)
      /\ \/ ~sess.g.resume /\ Told(sess.record, sess.g, n - 1)
         \/ sess.g.resume /\ Told(sess.record, sess.g, n)
  BY DEF GraphInv, SessInv, Paused, ToldAll
<1>2. /\ sess.g \in LooseStates /\ sess.record \in Seq(RecordStatuses)
      /\ Len(sess.record) \in Nat
  BY Fields DEF GraphInv
<1>3. n \in Nat /\ n >= 1
  BY <1>1, <1>2, Numbers DEF Open
<1>4. CASE sess.g.resume
  <2>1. Told(sess.record, sess.g, n) /\ sess.record # <<>>
    BY <1>1, <1>2, <1>3, <1>4 DEF Told
  <2>2. Noted(status) = WithLast(sess.record, status)
    BY <1>4, <2>1 DEF Noted
  <2>3. /\ WithLast(sess.record, status) \in Seq(RecordStatuses)
        /\ Len(WithLast(sess.record, status)) = Len(sess.record)
        /\ \A i \in 1 .. Len(sess.record) :
            WithLast(sess.record, status)[i] = IF i = Len(sess.record) THEN status
                                               ELSE sess.record[i]
    BY <1>2, <2>1, WithLastFacts
  <2> QED
    BY <1>1, <1>3, <2>1, <2>2, <2>3 DEF Told
<1>5. CASE ~sess.g.resume
  <2>1. Told(sess.record, sess.g, n - 1)
    BY <1>1, <1>5
  <2>2. Noted(status) = Append(sess.record, status)
    BY <1>5 DEF Noted
  <2> QED
    BY <1>1, <1>2, <1>3, <2>1, <2>2 DEF Told
<1> QED
  BY <1>4, <1>5

\* and when it has been called.
LEMMA FinishedFacts ==
    ASSUME GraphInv, sess.pc = "executing", NEW status \in RecordStatuses
    PROVE  LET rec == Finished(status)  n == Len(sess.g.calls) IN
               /\ rec \in Seq(RecordStatuses) /\ Len(rec) = n
               /\ rec[n] = status
               /\ \A i \in 1 .. n - 1 : rec[i] = sess.g.calls[i].status
               /\ Open(sess.g)
<1> DEFINE n == Len(sess.g.calls)
<1>1. /\ Open(sess.g) /\ Len(sess.record) = n
      /\ \A i \in 1 .. n - 1 : sess.record[i] = sess.g.calls[i].status
  BY DEF GraphInv, SessInv
<1>2. sess.g \in LooseStates /\ sess.record \in Seq(RecordStatuses)
  BY Fields DEF GraphInv
<1>3. n \in Nat /\ n >= 1 /\ sess.record # <<>>
  BY <1>1, <1>2, Numbers DEF Open
<1>4. /\ WithLast(sess.record, status) \in Seq(RecordStatuses)
      /\ Len(WithLast(sess.record, status)) = Len(sess.record)
      /\ \A i \in 1 .. Len(sess.record) :
            WithLast(sess.record, status)[i] = IF i = Len(sess.record) THEN status
                                               ELSE sess.record[i]
  BY <1>2, <1>3, WithLastFacts
<1> QED
  BY <1>1, <1>3, <1>4 DEF Finished

\* A call that has ended, with its record.
LEMMA ClearedTold ==
    ASSUME NEW g \in LooseStates, Open(g), NEW status \in {"completed", "failed"},
           NEW rec \in Seq(RecordStatuses), Len(rec) = Len(g.calls), rec[Len(g.calls)] = status,
           \A i \in 1 .. Len(g.calls) - 1 : rec[i] = g.calls[i].status
    PROVE  /\ Cleared(g, status) \in LooseStates
           /\ AtRest(Cleared(g, status)) /\ ToldAll(rec, Cleared(g, status))
           /\ Cleared(g, status).steps = g.steps
           /\ Len(Cleared(g, status).calls) = Len(g.calls)
<1> DEFINE h == Cleared(g, status)
<1>1. /\ h \in LooseStates /\ AtRest(h)
      /\ Len(h.calls) = Len(g.calls) /\ h.steps = g.steps
      /\ \A i \in 1 .. Len(g.calls) :
            h.calls[i].status = IF i = Len(g.calls) THEN status ELSE g.calls[i].status
  BY ClearedFacts
<1>2. Len(g.calls) \in Nat
  BY Numbers
<1> HIDE DEF h
<1>3. ToldAll(rec, h)
  BY <1>1, <1>2 DEF ToldAll, Told
<1> QED
  BY <1>1, <1>3 DEF h

\* The model is asked, or must not be asked any more.
LEMMA ExhaustedStep == GraphInv /\ StepsExhausted => GraphInv'
<1> SUFFICES ASSUME GraphInv, StepsExhausted PROVE GraphInv'
  OBVIOUS
<1>0. LooseInv
  BY DEF GraphInv
<1>1. sess.pc = "agent" /\ sess.visits < Recursion /\ End(sess.g, "failed", "MAX_STEPS_EXCEEDED", sess.record)
  BY DEF StepsExhausted, Visit
<1>2. "MAX_STEPS_EXCEEDED" \in Errors /\ sess.g \in LooseStates /\ sess.record \in Seq(RecordStatuses)
  BY <1>0, Fields DEF Errors
<1>3. /\ UNCHANGED <<agent, row, record, largest, lost>>
      /\ sess'.pc = "ended" /\ sess'.g = sess.g /\ sess'.record = sess.record
      /\ sess'.out = "failed" /\ sess'.error = "MAX_STEPS_EXCEEDED"
      /\ sess'.limit = sess.limit /\ sess'.init = sess.init
      /\ sess'.visits = sess.visits + 1
      /\ LooseInv'
  BY <1>0, <1>1, <1>2, EndEffect
<1>4. RowInv'
  BY <1>1, <1>3, RowRests
<1>5. SessInv'
  BY <1>1, <1>3 DEF GraphInv, SessInv, Outcome, Bounded
<1>6. VisitInv'
  <2>1. sess.g.steps <= largest /\ sess.g.steps \in Nat /\ largest \in Nat /\ sess.visits \in Nat
        /\ Recursion \in Nat
    BY <1>0, <1>1, <1>2, Fields, Numbers DEF GraphInv, SessInv, AtRest, Bounded
  <2> QED
    BY <1>1, <1>3, <2>1 DEF GraphInv, VisitInv
<1> QED
  BY <1>3, <1>4, <1>5, <1>6 DEF GraphInv

\* A graph that ends well, or for a reason of its own, after one visit more.
LEMMA EndVisits ==
    ASSUME VisitInv, UNCHANGED <<row, largest>>,
           sess'.pc = "ended", sess'.visits = sess.visits + 1,
           sess'.error # "AGENT_RUNTIME_FAILED",
           sess.visits \in Nat, largest \in Nat, Recursion \in Nat,
           sess.visits < Recursion, sess.visits <= 2 * largest
    PROVE  VisitInv'
BY DEF VisitInv

LEMMA AnswerStep == GraphInv /\ DecideAnswer => GraphInv'
<1> SUFFICES ASSUME GraphInv, DecideAnswer PROVE GraphInv'
  OBVIOUS
<1>0. LooseInv
  BY DEF GraphInv
<1> DEFINE s == sess.g.steps + 1
           h == [sess.g EXCEPT !.steps = s, !.pending = FALSE]
<1>1. /\ sess.pc = "agent" /\ sess.g.steps < sess.limit /\ sess.visits < Recursion
      /\ End(h, "completed", "none", sess.record)
  BY DEF DecideAnswer, Visit
<1>2. "none" \in Errors /\ sess.g \in LooseStates /\ sess.record \in Seq(RecordStatuses)
  BY <1>0, Fields DEF Errors
<1>3. /\ sess.g.steps \in Nat /\ Len(sess.g.calls) \in Nat /\ largest \in Nat /\ sess.visits \in Nat
      /\ sess.limit \in 0 .. MaxSteps /\ MaxSteps \in Nat /\ Recursion \in Nat
  BY <1>0, <1>2, Fields, Numbers
<1>4. /\ AtRest(sess.g) /\ ToldAll(sess.record, sess.g) /\ sess.g.steps <= largest
      /\ Bounded(sess.g)
  BY <1>1, <1>3 DEF GraphInv, SessInv, AtRest, Bounded
<1>5. s \in Nat /\ s = sess.g.steps + 1
  BY <1>3
<1> HIDE DEF s
<1>6. /\ h \in LooseStates /\ h.steps = s /\ ~h.pending /\ h.calls = sess.g.calls
      /\ h.results = sess.g.results
  BY <1>2, <1>5 DEF LooseStates
<1> HIDE DEF h
<1>7. Answered(h) /\ ToldAll(sess.record, h)
  BY <1>4, <1>5, <1>6 DEF Answered, AtRest, ToldAll, Told, Ended
<1>8. /\ UNCHANGED <<agent, row, record, largest, lost>>
      /\ sess'.pc = "ended" /\ sess'.g = h /\ sess'.record = sess.record
      /\ sess'.out = "completed" /\ sess'.error = "none"
      /\ sess'.limit = sess.limit /\ sess'.init = sess.init
      /\ sess'.visits = sess.visits + 1
      /\ LooseInv'
  BY <1>0, <1>1, <1>2, <1>6, EndEffect
<1>9. RowInv'
  BY <1>1, <1>8, RowRests
<1>10. SessInv'
  <2>1. Bounded(sess.g)'
    <3>1. sess.g.steps = Len(sess.g.calls) /\ sess.g.results = Len(sess.g.calls)
      BY <1>4 DEF AtRest
    <3>2. h.steps = sess.g.steps + 1 /\ h.calls = sess.g.calls /\ h.results = sess.g.results
      BY <1>5, <1>6
    <3>3. h.steps <= MaxSteps
      BY <1>1, <1>3, <3>2
    <3>4. /\ Len(h.calls) <= h.steps /\ h.results <= Len(h.calls)
          /\ Len(h.calls) <= largest
      BY <1>3, <1>4, <3>1, <3>2 DEF Bounded
    <3> QED
      BY <1>8, <3>3, <3>4 DEF Bounded
  <2>2. Bounded(sess.init)'
    BY <1>8 DEF GraphInv, SessInv, Bounded
  <2> QED
    BY <1>1, <1>7, <1>8, <2>1, <2>2 DEF GraphInv, SessInv, Outcome
<1>11. VisitInv'
  <2>1. VisitInv /\ sess.visits <= 2 * sess.g.steps
    BY <1>1 DEF GraphInv, VisitInv
  <2>2. sess.visits <= 2 * largest
    BY <1>3, <1>4, <2>1
  <2> QED
    BY <1>1, <1>3, <1>8, <2>1, <2>2, EndVisits
<1> QED
  BY <1>8, <1>9, <1>10, <1>11 DEF GraphInv

LEMMA CallStep == ASSUME NEW tool \in Tools PROVE GraphInv /\ DecideCall(tool) => GraphInv'
<1> SUFFICES ASSUME GraphInv, DecideCall(tool) PROVE GraphInv'
  OBVIOUS
<1>0. LooseInv
  BY DEF GraphInv
<1> DEFINE h == [sess.g EXCEPT !.steps = @ + 1, !.pending = TRUE,
                              !.calls = Append(@, [tool |-> tool, status |-> "pending"])]
<1>1. /\ sess.pc = "agent" /\ sess.g.steps < sess.limit /\ sess.visits < Recursion
      /\ GoOn("tool", h, sess.record)
  BY DEF DecideCall, Visit
<1>2. sess.g \in LooseStates /\ sess.record \in Seq(RecordStatuses)
  BY <1>0, Fields
<1>3. /\ sess.g.steps \in Nat /\ Len(sess.g.calls) \in Nat /\ largest \in Nat /\ sess.visits \in Nat
      /\ sess.limit \in 0 .. MaxSteps /\ MaxSteps \in Nat /\ Recursion \in Nat
  BY <1>0, <1>2, Fields, Numbers
<1>4. AtRest(sess.g) /\ ToldAll(sess.record, sess.g)
  BY <1>1 DEF GraphInv, SessInv
<1>5. /\ h \in LooseStates /\ Open(h) /\ ~h.resume
      /\ h.steps = sess.g.steps + 1 /\ Len(h.calls) = Len(sess.g.calls) + 1
      /\ \A i \in 1 .. Len(sess.g.calls) : h.calls[i].status = sess.g.calls[i].status
  BY <1>2, <1>4, AskedFacts
<1> HIDE DEF h
<1>6. /\ UNCHANGED <<agent, row, record, largest, lost>>
      /\ sess'.pc = "tool" /\ sess'.g = h /\ sess'.record = sess.record
      /\ sess'.limit = sess.limit /\ sess'.init = sess.init /\ sess'.error = sess.error
      /\ sess'.visits = sess.visits + 1
      /\ LooseInv'
  BY <1>0, <1>1, <1>2, <1>5, GoOnEffect
<1>7. RowInv'
  BY <1>1, <1>6, RowRests
<1>8. SessInv'
  <2>1. Told(sess.record, h, Len(h.calls) - 1)
    BY <1>3, <1>4, <1>5 DEF ToldAll, Told
  <2>2. Bounded(sess.g)'
    <3>1. sess.limit <= largest
      BY DEF GraphInv, SessInv
    <3>2. h.results = Len(h.calls) - 1 /\ h.steps = Len(h.calls)
      BY <1>5 DEF Open
    <3>3. sess.g.steps + 1 <= largest /\ sess.g.steps + 1 <= MaxSteps
      BY <1>1, <1>3, <3>1
    <3>4. h.steps = sess.g.steps + 1 /\ Len(h.calls) = Len(sess.g.calls) + 1
      BY <1>5
    <3>5. h.steps <= MaxSteps /\ Len(h.calls) <= largest
      BY <1>3, <3>2, <3>3, <3>4
    <3>6. Len(h.calls) <= h.steps /\ h.results <= Len(h.calls)
      BY <1>3, <3>2, <3>4
    <3> QED
      BY <1>6, <3>5, <3>6 DEF Bounded
  <2>3. Bounded(sess.init)'
    BY <1>6 DEF GraphInv, SessInv, Bounded
  <2> QED
    BY <1>1, <1>5, <1>6, <2>1, <2>2, <2>3 DEF GraphInv, SessInv
<1>9. VisitInv'
  <2>1. /\ sess.visits <= 2 * sess.g.steps
        /\ 2 * largest + 1 <= Recursion - 2 =>
               row.error # "AGENT_RUNTIME_FAILED" /\ sess.error # "AGENT_RUNTIME_FAILED"
    BY <1>1 DEF GraphInv, VisitInv
  <2>2. sess.visits + 1 <= 2 * h.steps - 1 /\ sess.visits + 1 <= Recursion
    BY <1>1, <1>3, <1>5, <2>1
  <2> QED
    BY <1>6, <2>1, <2>2 DEF VisitInv
<1> QED
  BY <1>6, <1>7, <1>8, <1>9 DEF GraphInv

\* The tool node has ended its call one way or the other.
LEMMA ToolEnds ==
    ASSUME GraphInv, sess.pc \in {"tool", "executing"}, sess.visits < Recursion, Open(sess.g),
           NEW rec \in Seq(RecordStatuses),
           Len(rec) = Len(sess.g.calls), rec[Len(sess.g.calls)] = "failed",
           \A i \in 1 .. Len(sess.g.calls) - 1 : rec[i] = sess.g.calls[i].status,
           End(Cleared(sess.g, "failed"), "failed", "TOOL_FAILED", rec)
    PROVE  GraphInv'
<1>0. LooseInv
  BY DEF GraphInv
<1> DEFINE h == Cleared(sess.g, "failed")
<1>1. sess.g \in LooseStates /\ "TOOL_FAILED" \in Errors
  BY <1>0, Fields DEF Errors
<1>2. /\ h \in LooseStates /\ AtRest(h) /\ ToldAll(rec, h)
      /\ h.steps = sess.g.steps /\ Len(h.calls) = Len(sess.g.calls)
  BY <1>1, ClearedTold
<1>3. /\ sess.g.steps \in Nat /\ Len(sess.g.calls) \in Nat /\ largest \in Nat
      /\ sess.visits \in Nat /\ MaxSteps \in Nat /\ Recursion \in Nat
  BY <1>0, <1>1, Fields, Numbers
<1> HIDE DEF h
<1>4. /\ UNCHANGED <<agent, row, record, largest, lost>>
      /\ sess'.pc = "ended" /\ sess'.g = h /\ sess'.record = rec
      /\ sess'.out = "failed" /\ sess'.error = "TOOL_FAILED"
      /\ sess'.limit = sess.limit /\ sess'.init = sess.init
      /\ sess'.visits = sess.visits + 1
      /\ LooseInv'
  <2>1. End(h, "failed", "TOOL_FAILED", rec)
    BY DEF h
  <2> QED
    BY <1>0, <1>1, <1>2, <2>1, EndEffect
<1>5. RowInv'
  BY <1>4, RowRests
<1>6. sess.g.steps <= MaxSteps /\ Len(sess.g.calls) <= largest /\ sess.g.steps = Len(sess.g.calls)
  BY DEF GraphInv, SessInv, Bounded, Open
<1>7. SessInv'
  <2>1. Bounded(sess.g)'
    BY <1>2, <1>3, <1>4, <1>6 DEF Bounded, AtRest
  <2>2. Bounded(sess.init)'
    BY <1>4 DEF GraphInv, SessInv, Bounded
  <2> QED
    BY <1>2, <1>3, <1>4, <1>6, <2>1, <2>2 DEF GraphInv, SessInv, Outcome
<1>8. VisitInv'
  <2>1. VisitInv /\ sess.visits <= 2 * sess.g.steps - 1
    BY DEF GraphInv, VisitInv
  <2>2. sess.visits <= 2 * largest
    BY <1>3, <1>6, <2>1
  <2> QED
    BY <1>3, <1>4, <2>1, <2>2, EndVisits
<1> QED
  BY <1>4, <1>5, <1>7, <1>8 DEF GraphInv

LEMMA RefuseStep == GraphInv /\ RefuseCall => GraphInv'
<1> SUFFICES ASSUME GraphInv, RefuseCall PROVE GraphInv'
  OBVIOUS
<1>1. /\ sess.pc = "tool" /\ sess.visits < Recursion
      /\ End(Cleared(sess.g, "failed"), "failed", "TOOL_FAILED", Noted("failed"))
  BY DEF RefuseCall, Visit
<1>2. "failed" \in RecordStatuses
  BY DEF RecordStatuses
<1> QED
  BY <1>1, <1>2, NotedFacts, ToolEnds

LEMMA FailsStep == GraphInv /\ ToolFails => GraphInv'
<1> SUFFICES ASSUME GraphInv, ToolFails PROVE GraphInv'
  OBVIOUS
<1>1. /\ sess.pc = "executing" /\ sess.visits < Recursion
      /\ End(Cleared(sess.g, "failed"), "failed", "TOOL_FAILED", Finished("failed"))
  BY DEF ToolFails, GraphInv, VisitInv
<1>2. "failed" \in RecordStatuses
  BY DEF RecordStatuses
<1> QED
  BY <1>1, <1>2, FinishedFacts, ToolEnds

LEMMA PauseStep == GraphInv /\ PauseForApproval => GraphInv'
<1> SUFFICES ASSUME GraphInv, PauseForApproval PROVE GraphInv'
  OBVIOUS
<1>0. LooseInv
  BY DEF GraphInv
<1> DEFINE m == Marked(sess.g, "waiting_approval")
           h == [m EXCEPT !.resume = FALSE]
           rec == Noted("waiting_approval")
           n == Len(sess.g.calls)
<1>1. sess.pc = "tool" /\ sess.visits < Recursion /\ End(h, "waiting_approval", "none", rec)
  BY DEF PauseForApproval, Visit
<1>2. /\ sess.g \in LooseStates /\ "none" \in Errors
      /\ "waiting_approval" \in RecordStatuses /\ "waiting_approval" \in CallStatuses
  BY <1>0, Fields DEF Errors, RecordStatuses, CallStatuses
<1>3. /\ rec \in Seq(RecordStatuses) /\ Len(rec) = n /\ rec[n] = "waiting_approval"
      /\ \A i \in 1 .. n - 1 : rec[i] = sess.g.calls[i].status
      /\ Open(sess.g)
  BY <1>1, <1>2, NotedFacts
<1>4. /\ sess.g.steps \in Nat /\ n \in Nat /\ n >= 1 /\ largest \in Nat
      /\ sess.visits \in Nat /\ MaxSteps \in Nat /\ Recursion \in Nat
  BY <1>0, <1>2, <1>3, Fields, Numbers DEF Open
<1> HIDE DEF rec
<1>5. /\ m \in LooseStates
      /\ m.steps = sess.g.steps /\ m.results = sess.g.results /\ m.pending = sess.g.pending
      /\ Len(m.calls) = n
      /\ \A i \in 1 .. n :
            m.calls[i].status = IF i = n THEN "waiting_approval" ELSE sess.g.calls[i].status
  <2>1. sess.g \in LooseStates /\ sess.g.calls # <<>> /\ "waiting_approval" \in CallStatuses
    BY <1>2, <1>3 DEF Open
  <2> QED
    BY <2>1, MarkedFacts, Zenon
<1> HIDE DEF m
<1>6. /\ h \in LooseStates /\ h.steps = m.steps /\ h.results = m.results
      /\ h.pending = m.pending /\ h.calls = m.calls
  BY <1>5 DEF LooseStates
<1> HIDE DEF h
<1>7. Paused(h) /\ ToldAll(rec, h)
  <2>1. Open(h)
    <3>1. h.calls # <<>>
      BY <1>4, <1>5, <1>6
    <3>2. /\ sess.g.pending /\ sess.g.steps = n /\ sess.g.results = n - 1
          /\ Ended(sess.g, n - 1)
      BY <1>3 DEF Open
    <3>3. /\ h.pending = sess.g.pending /\ h.steps = sess.g.steps
          /\ h.results = sess.g.results /\ Len(h.calls) = n
      BY <1>5, <1>6
    <3>4. \A i \in 1 .. n - 1 : h.calls[i].status = sess.g.calls[i].status
      <4> TAKE i \in 1 .. n - 1
      <4>1. i \in 1 .. n /\ i # n
        BY <1>4
      <4> QED
        BY <1>5, <1>6, <4>1
    <3>5. Ended(h, n - 1)
      BY <3>2, <3>4 DEF Ended
    <3>6. h.pending /\ h.steps = Len(h.calls) /\ h.results = Len(h.calls) - 1
      BY <3>2, <3>3
    <3> QED
      BY <3>1, <3>3, <3>5, <3>6 DEF Open
  <2>2. h.calls[Len(h.calls)].status = "waiting_approval"
    BY <1>4, <1>5, <1>6
  <2>3. ToldAll(rec, h)
    BY <1>3, <1>4, <1>5, <1>6 DEF ToldAll, Told
  <2> QED
    BY <2>1, <2>2, <2>3 DEF Paused
<1>8. /\ UNCHANGED <<agent, row, record, largest, lost>>
      /\ sess'.pc = "ended" /\ sess'.g = h /\ sess'.record = rec
      /\ sess'.out = "waiting_approval" /\ sess'.error = "none"
      /\ sess'.limit = sess.limit /\ sess'.init = sess.init
      /\ sess'.visits = sess.visits + 1
      /\ LooseInv'
  BY <1>0, <1>1, <1>2, <1>3, <1>6, EndEffect
<1>9. RowInv'
  BY <1>1, <1>8, RowRests
<1>10. sess.g.steps <= MaxSteps /\ n <= largest /\ sess.g.steps = n /\ sess.g.results = n - 1
  BY <1>3 DEF GraphInv, SessInv, Bounded, Open
<1>11. SessInv'
  <2>1. Bounded(sess.g)'
    BY <1>4, <1>5, <1>6, <1>8, <1>10 DEF Bounded
  <2>2. Bounded(sess.init)'
    BY <1>8 DEF GraphInv, SessInv, Bounded
  <2> QED
    BY <1>1, <1>3, <1>4, <1>7, <1>8, <1>10, <2>1, <2>2 DEF GraphInv, SessInv, Outcome
<1>12. VisitInv'
  <2>1. VisitInv /\ sess.visits <= 2 * sess.g.steps - 1
    BY <1>1 DEF GraphInv, VisitInv
  <2>2. sess.visits <= 2 * largest
    BY <1>4, <1>10, <2>1
  <2> QED
    BY <1>1, <1>4, <1>8, <2>1, <2>2, EndVisits
<1> QED
  BY <1>8, <1>9, <1>11, <1>12 DEF GraphInv

LEMMA CallToolStep == GraphInv /\ CallTool => GraphInv'
<1> SUFFICES ASSUME GraphInv, CallTool PROVE GraphInv'
  OBVIOUS
<1>0. LooseInv
  BY DEF GraphInv
<1> DEFINE rec == Noted("running")
           n == Len(sess.g.calls)
<1>1. sess.pc = "tool" /\ sess.visits < Recursion /\ GoOn("executing", sess.g, rec)
  BY DEF CallTool, Visit
<1>2. "running" \in RecordStatuses /\ sess.g \in LooseStates
  BY <1>0, Fields DEF RecordStatuses
<1>3. /\ rec \in Seq(RecordStatuses) /\ Len(rec) = n
      /\ \A i \in 1 .. n - 1 : rec[i] = sess.g.calls[i].status
      /\ Open(sess.g)
  BY <1>1, <1>2, NotedFacts
<1> HIDE DEF rec
<1>4. /\ UNCHANGED <<agent, row, record, largest, lost>>
      /\ sess'.pc = "executing" /\ sess'.g = sess.g /\ sess'.record = rec
      /\ sess'.limit = sess.limit /\ sess'.init = sess.init /\ sess'.error = sess.error
      /\ sess'.visits = sess.visits
      /\ LooseInv'
  BY <1>0, <1>1, <1>2, <1>3, GoOnEffect
<1>5. RowInv'
  BY <1>1, <1>4, RowRests
<1>6. SessInv'
  <2>1. n <= MaxSteps
    <3>1. n \in Nat /\ MaxSteps \in Nat
      BY <1>0, <1>2, Fields, Numbers
    <3> QED
      BY <1>3, <3>1 DEF GraphInv, SessInv, Bounded, Open
  <2>2. Bounded(sess.g)' /\ Bounded(sess.init)'
    BY <1>4 DEF GraphInv, SessInv, Bounded
  <2> QED
    BY <1>1, <1>3, <1>4, <2>1, <2>2 DEF GraphInv, SessInv
<1>7. VisitInv'
  BY <1>1, <1>4 DEF GraphInv, VisitInv
<1> QED
  BY <1>4, <1>5, <1>6, <1>7 DEF GraphInv

LEMMA ReturnsStep == GraphInv /\ ToolReturns => GraphInv'
<1> SUFFICES ASSUME GraphInv, ToolReturns PROVE GraphInv'
  OBVIOUS
<1>0. LooseInv
  BY DEF GraphInv
<1> DEFINE rec == Finished("completed")
           h == Cleared(sess.g, "completed")
           n == Len(sess.g.calls)
<1>1. sess.pc = "executing" /\ GoOn("agent", h, rec)
  BY DEF ToolReturns
<1>2. "completed" \in RecordStatuses /\ sess.g \in LooseStates
  BY <1>0, Fields DEF RecordStatuses
<1>3. /\ rec \in Seq(RecordStatuses) /\ Len(rec) = n /\ rec[n] = "completed"
      /\ \A i \in 1 .. n - 1 : rec[i] = sess.g.calls[i].status
      /\ Open(sess.g)
  BY <1>1, <1>2, FinishedFacts
<1> HIDE DEF rec
<1>4. /\ h \in LooseStates /\ AtRest(h) /\ ToldAll(rec, h)
      /\ h.steps = sess.g.steps /\ Len(h.calls) = n
  BY <1>2, <1>3, ClearedTold
<1>5. /\ sess.g.steps \in Nat /\ n \in Nat /\ largest \in Nat
      /\ sess.visits \in Nat /\ MaxSteps \in Nat /\ Recursion \in Nat
  BY <1>0, <1>2, Fields, Numbers
<1> HIDE DEF h
<1>6. /\ UNCHANGED <<agent, row, record, largest, lost>>
      /\ sess'.pc = "agent" /\ sess'.g = h /\ sess'.record = rec
      /\ sess'.limit = sess.limit /\ sess'.init = sess.init /\ sess'.error = sess.error
      /\ sess'.visits = sess.visits + 1
      /\ LooseInv'
  BY <1>0, <1>1, <1>3, <1>4, GoOnEffect
<1>7. RowInv'
  BY <1>1, <1>6, RowRests
<1>8. sess.g.steps <= MaxSteps /\ n <= largest /\ sess.g.steps = n
  BY <1>3 DEF GraphInv, SessInv, Bounded, Open
<1>9. SessInv'
  <2>1. Bounded(sess.g)'
    BY <1>4, <1>5, <1>6, <1>8 DEF Bounded, AtRest
  <2>2. Bounded(sess.init)'
    BY <1>6 DEF GraphInv, SessInv, Bounded
  <2> QED
    BY <1>1, <1>3, <1>4, <1>5, <1>6, <1>8, <2>1, <2>2 DEF GraphInv, SessInv
<1>10. VisitInv'
  BY <1>1, <1>4, <1>5, <1>6, <1>8, SMTT(30) DEF GraphInv, VisitInv
<1> QED
  BY <1>6, <1>7, <1>9, <1>10 DEF GraphInv

-----------------------------------------------------------------------------
(* The runtime *)

\* A run that is cut short is saved with the state the runtime was given.
LEMMA FailStep ==
    ASSUME GraphInv, NEW error \in {"AGENT_LLM_FAILED", "AGENT_TIMEOUT", "AGENT_RUNTIME_FAILED"},
           sess.pc # "idle", FailWith(error),
           error = "AGENT_RUNTIME_FAILED" => 2 * largest + 1 > Recursion - 2
    PROVE  GraphInv'
<1>0. LooseInv
  BY DEF GraphInv
<1>1. /\ UNCHANGED <<agent, row, record, largest, lost>>
      /\ sess'.pc = "saving" /\ sess'.g = sess.init /\ sess'.record = sess.record
      /\ sess'.out = "failed" /\ sess'.error = error /\ sess'.visits = sess.visits
      /\ sess'.limit = sess.limit /\ sess'.init = sess.init
      /\ LooseInv'
  <2>1. error \in Errors
    BY DEF Errors
  <2> QED
    BY <1>0, <2>1, FailEffect
<1>2. RowInv'
  BY <1>1, RowRests
<1>3. SessInv'
  BY <1>1 DEF GraphInv, SessInv, Outcome, Bounded, CleanErrors
<1>4. VisitInv'
  <2>1. largest \in Nat /\ Recursion \in Nat
    BY <1>0, Fields
  <2> QED
    BY <1>1, <2>1 DEF GraphInv, VisitInv
<1> QED
  BY <1>1, <1>2, <1>3, <1>4 DEF GraphInv

LEMMA ModelFailsStep == GraphInv /\ ModelFails => GraphInv'
BY FailStep DEF ModelFails, Visit

LEMMA TimeoutStep == GraphInv /\ Timeout => GraphInv'
BY FailStep DEF Timeout

\* LangGraph stops only a graph whose limit is too large for it.
LEMMA RecursionStep == GraphInv /\ RecursionStop => GraphInv'
<1> SUFFICES ASSUME GraphInv, RecursionStop PROVE GraphInv'
  OBVIOUS
<1>0. LooseInv
  BY DEF GraphInv
<1>1. /\ sess.g.steps \in Nat /\ largest \in Nat /\ sess.visits \in Nat /\ Recursion \in Nat
      /\ sess.g \in LooseStates /\ Len(sess.g.calls) \in Nat
  BY <1>0, Fields, Numbers
<1>2. CASE sess.pc \in {"agent", "tool"} /\ sess.visits >= Recursion - 1
  <2>1. sess.g.steps = Len(sess.g.calls) /\ Len(sess.g.calls) <= largest
    BY <1>2 DEF GraphInv, SessInv, AtRest, Open, Paused, Bounded
  <2>2. sess.visits <= 2 * sess.g.steps
    BY <1>1, <1>2, SMTT(30) DEF GraphInv, VisitInv
  <2> QED
    BY <1>1, <1>2, <2>1, <2>2, FailStep DEF RecursionStop
<1>3. CASE sess.pc = "ended" /\ sess.visits = Recursion
  <2>1. sess.visits <= 2 * largest + 1
    BY <1>3 DEF GraphInv, VisitInv
  <2> QED
    BY <1>1, <1>3, <2>1, FailStep DEF RecursionStop
<1> QED
  BY <1>2, <1>3 DEF RecursionStop

LEMMA EnterStep == GraphInv /\ EnterGraph => GraphInv'
<1> SUFFICES ASSUME GraphInv, EnterGraph PROVE GraphInv'
  OBVIOUS
<1>0. LooseInv
  BY DEF GraphInv
<1> DEFINE pc == IF sess.g.resume /\ sess.g.pending THEN "tool" ELSE "agent"
<1>1. /\ sess.pc = "building" /\ sess' = [sess EXCEPT !.pc = pc]
      /\ UNCHANGED <<agent, row, record, largest, lost>>
  BY DEF EnterGraph, ghosts
<1>2. pc \in {"agent", "tool", "saving"}
  OBVIOUS
<1>3. /\ ToldAll(sess.record, sess.g)
      /\ \/ AtRest(sess.g) /\ pc = "agent"
         \/ Paused(sess.g) /\ sess.g.resume /\ pc = "tool"
  BY <1>1 DEF GraphInv, SessInv, AtRest, Paused, Open
<1> HIDE DEF pc
<1>4. /\ sess'.pc = pc /\ sess'.g = sess.g /\ sess'.record = sess.record
      /\ sess'.error = sess.error
      /\ sess'.limit = sess.limit /\ sess'.init = sess.init /\ sess'.visits = sess.visits
      /\ LooseInv'
  BY <1>0, <1>1, <1>2, PlaceEffect
<1>5. RowInv'
  BY <1>1, <1>3, <1>4, RowRests
<1>6. SessInv'
  BY <1>1, <1>3, <1>4 DEF GraphInv, SessInv, Bounded
<1>7. VisitInv'
  <2>1. /\ sess.g \in LooseStates /\ sess.g.steps \in Nat
        /\ Paused(sess.g) => sess.g.steps >= 1
    BY <1>0, Fields, Numbers DEF Paused, Open
  <2> QED
    BY <1>1, <1>3, <1>4, <2>1 DEF GraphInv, VisitInv
<1> QED
  BY <1>4, <1>5, <1>6, <1>7 DEF GraphInv

LEMMA ReturnStep == GraphInv /\ Return => GraphInv'
<1> SUFFICES ASSUME GraphInv, Return PROVE GraphInv'
  OBVIOUS
<1>0. LooseInv
  BY DEF GraphInv
<1>1. /\ sess.pc = "ended" /\ sess' = [sess EXCEPT !.pc = "saving"]
      /\ UNCHANGED <<agent, row, record, largest, lost>>
  BY DEF Return, ghosts
<1>2. /\ sess'.pc = "saving" /\ sess'.g = sess.g /\ sess'.record = sess.record
      /\ sess'.out = sess.out /\ sess'.error = sess.error
      /\ sess'.limit = sess.limit /\ sess'.init = sess.init /\ sess'.visits = sess.visits
      /\ LooseInv'
  BY <1>0, <1>1, PlaceEffect
<1>3. RowInv'
  BY <1>1, <1>2, RowRests
<1>4. SessInv'
  BY <1>1, <1>2 DEF GraphInv, SessInv, Bounded
<1>5. VisitInv'
  BY <1>1, <1>2 DEF GraphInv, VisitInv
<1> QED
  BY <1>2, <1>3, <1>4, <1>5 DEF GraphInv

-----------------------------------------------------------------------------
(* The run row *)

\* What a state says is not changed by its way through JSON, nor by a resume.
SameCalls(h, g) ==
    /\ h.steps = g.steps /\ h.calls = g.calls /\ h.results = g.results
    /\ h.pending = g.pending

LEMMA SameFacts ==
    ASSUME NEW g, NEW h, SameCalls(h, g)
    PROVE  /\ Bounded(h) <=> Bounded(g)
           /\ Paused(h) <=> Paused(g)
           /\ Answered(h) <=> Answered(g)
           /\ h.resume = g.resume => (AtRest(h) <=> AtRest(g))
           /\ \A rec : ToldAll(rec, h) <=> ToldAll(rec, g)
BY DEF SameCalls, Bounded, Paused, Open, Answered, AtRest, Ended, ToldAll, Told

LEMMA JsonFacts ==
    ASSUME NEW g \in LooseStates
    PROVE  /\ JsonState(g) \in LooseStates
           /\ SameCalls(JsonState(g), g) /\ JsonState(g).resume = g.resume
<1> DEFINE kb == IF g.kb = "none" THEN "none" ELSE "text"
<1>1. JsonState(g) = [g EXCEPT !.kb = kb] /\ kb \in {"none", "uuid", "text"}
  BY DEF JsonState
<1> HIDE DEF kb
<1> QED
  BY <1>1 DEF LooseStates, SameCalls

LEMMA NewBounded ==
    ASSUME LooseInv, NEW kb \in {"none", "uuid"}
    PROVE  Bounded(NewState(kb))
<1>1. NewState(kb).steps = 0 /\ NewState(kb).results = 0 /\ Len(NewState(kb).calls) = 0
  BY DEF NewState
<1>2. largest \in Nat /\ MaxSteps \in Nat
  BY Fields
<1> QED
  BY <1>1, <1>2 DEF Bounded

LEMMA SaveStep == GraphInv /\ Save => GraphInv'
<1> SUFFICES ASSUME GraphInv, Save PROVE GraphInv'
  OBVIOUS
<1>0. LooseInv
  BY DEF GraphInv
<1> DEFINE h == JsonState(sess.g)
<1>1. /\ sess.pc = "saving"
      /\ row' = [row EXCEPT !.status = sess.out, !.state = h, !.error = sess.error]
      /\ record' = sess.record /\ sess' = Idle /\ UNCHANGED <<agent, largest, lost>>
  BY DEF Save, ghosts
<1>2. /\ sess.g \in LooseStates /\ sess.error \in Errors /\ sess.record \in Seq(RecordStatuses)
      /\ sess.out \in {"none", "waiting_approval", "completed", "failed"}
      /\ largest \in Nat /\ Recursion \in Nat
  BY <1>0, Fields
<1>3. /\ h \in LooseStates /\ SameCalls(h, sess.g) /\ h.resume = sess.g.resume
  BY <1>2, JsonFacts
<1>4. /\ sess.out # "none" /\ Outcome(sess.out, sess.error, sess.g, sess.record)
      /\ Bounded(sess.g) /\ Len(sess.record) <= MaxSteps /\ agent.max <= largest
  BY <1>1 DEF GraphInv, SessInv
<1>5. Outcome(sess.out, sess.error, h, sess.record) /\ Bounded(h)
  BY <1>3, <1>4, SameFacts DEF Outcome
<1> HIDE DEF h
<1>6. /\ row' \in LooseRows
      /\ row'.status = sess.out /\ row'.state = h /\ row'.error = sess.error
  <2>1. sess.out \in {"waiting_approval", "completed", "failed"}
    BY <1>2, <1>4
  <2>2. row \in LooseRows
    BY <1>0 DEF LooseInv
  <2> QED
    BY <1>1, <1>2, <1>3, <2>1, <2>2 DEF LooseRows
<1>7. /\ sess' \in LooseSessions /\ sess'.pc = "idle" /\ sess'.limit = 0 /\ sess'.error = "none"
      /\ Len(sess'.record) = 0 /\ sess'.visits = 0
      /\ sess'.g = NewState("none") /\ sess'.init = NewState("none")
  BY <1>1, GraphAssumption, IdleEffect DEF Idle
<1>8. LooseInv'
  BY <1>0, <1>1, <1>2, <1>6, <1>7 DEF LooseInv
<1>9. RowInv'
  <2>1. Outcome(row.status, row.error, row.state, record)'
    BY <1>1, <1>5, <1>6 DEF Outcome
  <2>2. Bounded(row.state)'
    BY <1>1, <1>5, <1>6 DEF Bounded
  <2>3. row'.status \notin {"absent", "running"}
    BY <1>2, <1>4, <1>6
  <2> QED
    BY <1>1, <1>4, <2>1, <2>2, <2>3 DEF RowInv
<1>10. SessInv'
  <2>1. Bounded(NewState("none"))'
    BY <1>0, <1>1, NewBounded DEF Bounded
  <2> QED
    BY <1>1, <1>2, <1>4, <1>7, <2>1, Fields, GraphAssumption DEF SessInv, GraphAssumption
<1>11. VisitInv'
  BY <1>1, <1>2, <1>6, <1>7 DEF GraphInv, VisitInv
<1> QED
  BY <1>8, <1>9, <1>10, <1>11 DEF GraphInv

\* A request that ends without saving.
LEMMA LostStep ==
    ASSUME GraphInv, sess.pc # "idle", sess' = Idle, lost' = TRUE,
           UNCHANGED <<agent, row, record, largest>>
    PROVE  GraphInv'
<1>0. LooseInv
  BY DEF GraphInv
<1>1. /\ sess' \in LooseSessions /\ sess'.pc = "idle" /\ sess'.limit = 0 /\ sess'.error = "none"
      /\ Len(sess'.record) = 0 /\ sess'.visits = 0
      /\ sess'.g = NewState("none") /\ sess'.init = NewState("none")
  BY GraphAssumption, IdleEffect DEF Idle
<1>2. largest \in Nat /\ Recursion \in Nat /\ MaxSteps \in Nat
  BY <1>0, Fields
<1>3. LooseInv'
  BY <1>0, <1>1 DEF LooseInv
<1>4. RowInv'
  BY <1>1 DEF GraphInv, RowInv, SessInv, Bounded
<1>5. SessInv'
  <2>1. Bounded(NewState("none"))'
    BY <1>0, NewBounded DEF Bounded
  <2> QED
    BY <1>1, <1>2, <2>1 DEF GraphInv, SessInv
<1>6. VisitInv'
  BY <1>1, <1>2 DEF GraphInv, VisitInv
<1> QED
  BY <1>3, <1>4, <1>5, <1>6 DEF GraphInv

LEMMA UpdateStep == GraphInv /\ UpdateAgent => GraphInv'
<1> SUFFICES ASSUME GraphInv, UpdateAgent PROVE GraphInv'
  OBVIOUS
<1>0. LooseInv
  BY DEF GraphInv
<1>1. PICK a \in Agents : /\ agent' = a
                          /\ largest' = IF a.max > largest THEN a.max ELSE largest
  BY DEF UpdateAgent
<1>2. UNCHANGED <<row, record, sess, lost>>
  BY DEF UpdateAgent
<1>3. a.max \in 1 .. MaxSteps /\ largest \in 1 .. MaxSteps /\ MaxSteps \in Nat
  BY <1>0, Fields DEF Agents, LooseInv
<1>4. largest' \in 1 .. MaxSteps /\ agent'.max <= largest' /\ largest <= largest'
  BY <1>1, <1>3
<1>5. /\ sess.g \in LooseStates /\ sess.init \in LooseStates /\ row.state \in LooseStates
      /\ sess.limit \in Nat /\ sess.visits \in Nat /\ Recursion \in Nat
  BY <1>0, Fields
<1>6. \A g \in LooseStates : Bounded(g) => (g.steps <= MaxSteps /\ Len(g.calls) <= g.steps
                                            /\ g.results <= Len(g.calls) /\ Len(g.calls) <= largest')
  BY <1>3, <1>4, Numbers DEF Bounded
<1>7. LooseInv'
  BY <1>0, <1>1, <1>2, <1>4 DEF LooseInv
<1>8. RowInv'
  BY <1>2, <1>5, <1>6 DEF GraphInv, RowInv, Bounded
<1>9. SessInv'
  <2>1. Bounded(sess.g)' /\ Bounded(sess.init)'
    BY <1>2, <1>5, <1>6 DEF GraphInv, SessInv, Bounded
  <2>2. sess.limit <= largest'
    BY <1>3, <1>4, <1>5 DEF GraphInv, SessInv
  <2> QED
    BY <1>2, <1>4, <2>1, <2>2 DEF GraphInv, SessInv
<1>10. VisitInv'
  <2>1. VisitInv
    BY DEF GraphInv
  <2>2. \A x, y, v \in Nat : x <= y => /\ v <= 2 * x + 1 => v <= 2 * y + 1
                                       /\ 2 * y + 1 <= Recursion - 2 => 2 * x + 1 <= Recursion - 2
    BY <1>5
  <2>3. largest \in Nat /\ largest' \in Nat /\ largest <= largest'
    BY <1>3, <1>4
  <2>4. sess.pc = "ended" => sess.visits <= 2 * largest' + 1
    BY <1>5, <2>1, <2>2, <2>3 DEF VisitInv
  <2>5. 2 * largest' + 1 <= Recursion - 2 =>
            row.error # "AGENT_RUNTIME_FAILED" /\ sess.error # "AGENT_RUNTIME_FAILED"
    BY <1>5, <2>1, <2>2, <2>3 DEF VisitInv
  <2> QED
    BY <1>2, <2>1, <2>4, <2>5 DEF VisitInv
<1> QED
  BY <1>7, <1>8, <1>9, <1>10 DEF GraphInv

LEMMA StartStep == ASSUME NEW kb \in {"none", "uuid"} PROVE GraphInv /\ StartRun(kb) => GraphInv'
<1> SUFFICES ASSUME GraphInv, StartRun(kb) PROVE GraphInv'
  OBVIOUS
<1>0. LooseInv
  BY DEF GraphInv
<1> DEFINE g == NewState(kb)
           h == JsonState(g)
<1>1. /\ row.status = "absent" /\ sess' = Enter(g)
      /\ row' = [status |-> "running", max |-> agent.max, state |-> h, error |-> "none"]
      /\ largest' = agent.max /\ UNCHANGED <<agent, record, lost>>
  BY DEF StartRun
<1>2. g \in LooseStates /\ AtRest(g) /\ ToldAll(<<>>, g) /\ g.steps = 0 /\ Len(g.calls) = 0
      /\ g.results = 0
  BY NewStateFacts DEF NewState
<1>3. record = <<>>
  BY <1>1 DEF GraphInv, RowInv
<1>4. h \in LooseStates /\ SameCalls(h, g)
  BY <1>2, JsonFacts
<1>5. agent.max \in 1 .. MaxSteps /\ MaxSteps \in Nat /\ Recursion \in Nat
  BY <1>0, Fields
<1>6. /\ sess' \in LooseSessions /\ sess'.pc = "building" /\ sess'.limit = agent.max
      /\ sess'.init = g /\ sess'.g = g /\ sess'.visits = 0 /\ sess'.record = record
      /\ sess'.error = "none"
  BY <1>0, <1>1, <1>2, EnterFacts
<1> HIDE DEF g, h
<1>7. /\ row' \in LooseRows /\ row'.status = "running" /\ row'.state = h /\ row'.error = "none"
  BY <1>1, <1>4, <1>5 DEF LooseRows, Errors
<1>8. LooseInv'
  BY <1>0, <1>1, <1>5, <1>6, <1>7 DEF LooseInv
<1>9. Len(<<>>) = 0
  OBVIOUS
<1>10. h.steps = 0 /\ Len(h.calls) = 0 /\ h.results = 0
  BY <1>2, <1>4 DEF SameCalls
<1>11. RowInv'
  <2>1. Bounded(row.state)'
    BY <1>1, <1>5, <1>7, <1>10 DEF Bounded
  <2> QED
    BY <1>1, <1>3, <1>5, <1>6, <1>7, <1>9, <2>1 DEF RowInv, Outcome
<1>12. SessInv'
  <2>1. Bounded(sess.g)' /\ Bounded(sess.init)'
    BY <1>1, <1>2, <1>5, <1>6 DEF Bounded
  <2> QED
    BY <1>1, <1>2, <1>3, <1>5, <1>6, <1>7, <1>9, <2>1 DEF SessInv
<1>13. VisitInv'
  BY <1>5, <1>6, <1>7 DEF VisitInv
<1> QED
  BY <1>8, <1>11, <1>12, <1>13 DEF GraphInv

LEMMA ResumeStep == GraphInv /\ ResumeRun => GraphInv'
<1> SUFFICES ASSUME GraphInv, ResumeRun PROVE GraphInv'
  OBVIOUS
<1>0. LooseInv
  BY DEF GraphInv
<1> DEFINE g == [row.state EXCEPT !.approved = TRUE, !.resume = TRUE]
<1>1. /\ row.status = "waiting_approval" /\ sess' = Enter(g)
      /\ row' = [row EXCEPT !.status = "running", !.state = g, !.error = "none"]
      /\ UNCHANGED <<agent, record, largest, lost>>
  BY DEF ResumeRun, ghosts
<1>2. row.state \in LooseStates /\ row \in LooseRows
  BY <1>0, Fields DEF LooseInv
<1>3. g \in LooseStates /\ SameCalls(g, row.state) /\ g.resume
  BY <1>2 DEF LooseStates, SameCalls
<1> HIDE DEF g
<1>4. /\ Paused(row.state) /\ ToldAll(record, row.state) /\ Bounded(row.state)
      /\ Len(record) <= MaxSteps
  BY <1>1 DEF GraphInv, RowInv, Outcome
<1>5. Paused(g) /\ ToldAll(record, g) /\ Bounded(g)
  BY <1>3, <1>4, SameFacts
<1>6. /\ sess' \in LooseSessions /\ sess'.pc = "building" /\ sess'.limit = agent.max
      /\ sess'.init = g /\ sess'.g = g /\ sess'.visits = 0 /\ sess'.record = record
      /\ sess'.error = "none"
  BY <1>0, <1>1, <1>3, EnterFacts
<1>7. /\ row' \in LooseRows /\ row'.status = "running" /\ row'.state = g /\ row'.error = "none"
  BY <1>1, <1>2, <1>3 DEF LooseRows, Errors
<1>8. LooseInv'
  BY <1>0, <1>1, <1>6, <1>7 DEF LooseInv
<1>9. RowInv'
  <2>1. Bounded(row.state)'
    BY <1>1, <1>5, <1>7 DEF Bounded
  <2> QED
    BY <1>1, <1>4, <1>6, <1>7, <2>1 DEF RowInv, Outcome
<1>10. SessInv'
  <2>1. Bounded(sess.g)' /\ Bounded(sess.init)'
    BY <1>1, <1>5, <1>6 DEF Bounded
  <2>2. agent.max <= largest
    BY DEF GraphInv, SessInv
  <2> QED
    BY <1>1, <1>3, <1>4, <1>5, <1>6, <1>7, <2>1, <2>2 DEF SessInv
<1>11. VisitInv'
  <2>1. Recursion \in Nat
    BY <1>0, Fields
  <2> QED
    BY <1>6, <1>7, <2>1 DEF VisitInv
<1> QED
  BY <1>8, <1>9, <1>10, <1>11 DEF GraphInv

LEMMA RejectStep == GraphInv /\ RejectRun => GraphInv'
<1> SUFFICES ASSUME GraphInv, RejectRun PROVE GraphInv'
  OBVIOUS
<1>0. LooseInv
  BY DEF GraphInv
<1> DEFINE g == [row.state EXCEPT !.resume = FALSE]
<1>1. /\ row.status = "waiting_approval" /\ sess.pc = "idle"
      /\ row' = [row EXCEPT !.status = "failed", !.state.resume = FALSE,
                            !.error = "APPROVAL_REJECTED"]
      /\ record' = WithLast(record, "failed")
      /\ UNCHANGED <<agent, sess, largest, lost>>
  BY DEF RejectRun, ghosts
<1>2. row.state \in LooseStates /\ row \in LooseRows
  BY <1>0, Fields DEF LooseInv
<1>3. g \in LooseStates /\ SameCalls(g, row.state)
  BY <1>2 DEF LooseStates, SameCalls
<1>4. row' = [row EXCEPT !.status = "failed", !.state = g, !.error = "APPROVAL_REJECTED"]
  BY <1>1, <1>2 DEF LooseRows
<1> HIDE DEF g
<1>5. Bounded(row.state) /\ Paused(row.state) /\ ToldAll(record, row.state) /\ Len(record) <= MaxSteps
  BY <1>1 DEF GraphInv, RowInv, Outcome
<1>6. /\ record' \in Seq(RecordStatuses) /\ Len(record') = Len(record)
  <2>1. record \in Seq(RecordStatuses) /\ "failed" \in RecordStatuses
    BY <1>0 DEF LooseInv, RecordStatuses
  <2>2. record # <<>>
    <3>1. Len(record) >= 1
      BY <1>2, <1>5, Numbers DEF Paused, Open, ToldAll, Told
    <3> QED
      BY <2>1, <3>1
  <2> QED
    BY <1>1, <2>1, <2>2, WithLastFacts
<1>7. /\ row' \in LooseRows /\ row'.status = "failed" /\ row'.state = g
      /\ row'.error = "APPROVAL_REJECTED"
  BY <1>2, <1>3, <1>4 DEF LooseRows, Errors
<1>8. LooseInv'
  BY <1>0, <1>1, <1>6, <1>7 DEF LooseInv
<1>9. RowInv'
  <2>1. Bounded(row.state)'
    BY <1>1, <1>3, <1>5, <1>7, SameFacts DEF Bounded, SameCalls
  <2>2. Outcome(row.status, row.error, row.state, record)'
    BY <1>7 DEF Outcome, CleanErrors
  <2> QED
    BY <1>5, <1>6, <1>7, <2>1, <2>2 DEF RowInv
<1>10. SessInv'
  BY <1>1 DEF GraphInv, SessInv, Bounded
<1>11. VisitInv'
  BY <1>1, <1>7 DEF GraphInv, VisitInv
<1> QED
  BY <1>8, <1>9, <1>10, <1>11 DEF GraphInv

LEMMA InitGraph == Init => GraphInv
<1> SUFFICES ASSUME Init PROVE GraphInv
  OBVIOUS
<1>1. /\ agent \in Agents /\ row = NoRow /\ record = <<>> /\ sess = Idle
      /\ largest = agent.max /\ lost = FALSE
  BY DEF Init
<1>2. agent.max \in 1 .. MaxSteps /\ MaxSteps \in Nat /\ Recursion \in Nat
  BY <1>1, GraphAssumption DEF Agents, GraphAssumption
<1>3. NewState("none") \in LooseStates
  BY NewStateFacts
<1>4. /\ NoRow \in LooseRows /\ NoRow.status = "absent" /\ NoRow.error = "none"
      /\ NoRow.state = NewState("none")
  BY <1>2, <1>3 DEF NoRow, LooseRows, Errors
<1>5. /\ Idle \in LooseSessions /\ Idle.pc = "idle" /\ Idle.limit = 0 /\ Idle.error = "none"
      /\ Len(Idle.record) = 0 /\ Idle.visits = 0
      /\ Idle.g = NewState("none") /\ Idle.init = NewState("none")
  BY GraphAssumption, IdleEffect DEF Idle
<1>6. LooseInv
  <2>1. <<>> \in Seq(RecordStatuses)
    OBVIOUS
  <2> QED
    BY <1>1, <1>2, <1>4, <1>5, <2>1 DEF LooseInv
<1>7. Bounded(NewState("none"))
  BY <1>6, NewBounded
<1>8. Len(<<>>) = 0
  OBVIOUS
<1>9. RowInv
  BY <1>1, <1>2, <1>4, <1>5, <1>7, <1>8 DEF RowInv, Outcome
<1>10. SessInv
  BY <1>1, <1>2, <1>5, <1>7 DEF SessInv
<1>11. VisitInv
  BY <1>1, <1>2, <1>4, <1>5 DEF VisitInv
<1> QED
  BY <1>6, <1>9, <1>10, <1>11 DEF GraphInv

LEMMA GraphInvariant == Spec => []GraphInv
<1>1. GraphInv /\ Next => GraphInv'
  <2> SUFFICES ASSUME GraphInv, Next PROVE GraphInv'
    OBVIOUS
  <2>1. RegistryFails \/ Abort => GraphInv'
    BY LostStep DEF RegistryFails, Abort
  <2> QED
    BY <2>1, UpdateStep, StartStep, ResumeStep, RejectStep, EnterStep, ExhaustedStep, AnswerStep,
       CallStep, RefuseStep, PauseStep, CallToolStep, ReturnsStep, FailsStep, ModelFailsStep,
       TimeoutStep, RecursionStep, ReturnStep, SaveStep DEF Next
<1>2. GraphInv /\ UNCHANGED vars => GraphInv'
  BY DEF vars, GraphInv, LooseInv, RowInv, SessInv, VisitInv, Bounded
<1> QED
  BY <1>1, <1>2, InitGraph, PTL DEF Spec

-----------------------------------------------------------------------------
(* What the records keep of a state *)

\* The calls of g that have ended have their status in the records rec.
Kept(rec, g) ==
    \A i \in 1 .. Len(g.calls) :
        g.calls[i].status \in Settled => i <= Len(rec) /\ rec[i] = g.calls[i].status

\* They come before the call of h that is still open.
Below(g, h) ==
    \A i \in 1 .. Len(g.calls) :
        g.calls[i].status \in Settled => i <= Len(h.calls) /\ (h.pending => i < Len(h.calls))

\* A paused state whose last record was set to failed.
TurnedDown(rec, g) ==
    /\ Paused(g) /\ Len(rec) = Len(g.calls) /\ rec[Len(g.calls)] = "failed"
    /\ \A i \in 1 .. Len(g.calls) - 1 : rec[i] = g.calls[i].status

CutOff(out, error) == out = "failed" /\ error \notin CleanErrors

TellInv ==
    /\ Kept(record, row.state)
    /\ Rejected => row.status = "failed" /\ TurnedDown(record, row.state)
    /\ sess.error # "APPROVAL_REJECTED"
    /\ sess.pc # "idle" => Kept(sess.record, sess.init)
    /\ sess.pc \in {"building", "agent", "tool", "executing"} => Below(sess.init, sess.g)
    /\ sess.pc = "ended" => ~CutOff(sess.out, sess.error)
    /\ sess.pc = "saving" /\ CutOff(sess.out, sess.error) => sess.g = sess.init

\* Records that tell of every call keep it, and so does a paused state.
LEMMA ToldKept ==
    ASSUME NEW g \in LooseStates, NEW rec, ToldAll(rec, g)
    PROVE  Kept(rec, g)
<1>1. Len(g.calls) \in Nat
  BY Numbers
<1> QED
  BY <1>1 DEF ToldAll, Told, Kept

LEMMA PausedBelow ==
    ASSUME NEW g \in LooseStates, Paused(g) \/ AtRest(g)
    PROVE  Below(g, g)
<1>1. Len(g.calls) \in Nat /\ (g.calls # <<>> => Len(g.calls) >= 1)
  BY Numbers
<1>2. CASE AtRest(g)
  BY <1>1, <1>2 DEF AtRest, Below
<1>3. CASE Paused(g)
  <2>1. g.calls[Len(g.calls)].status \notin Settled
    BY <1>3 DEF Paused, Settled
  <2>2. \A i \in 1 .. Len(g.calls) : i # Len(g.calls) => i < Len(g.calls)
    BY <1>1
  <2> QED
    BY <1>1, <2>1, <2>2 DEF Below
<1> QED
  BY <1>2, <1>3

LEMMA RowTells ==
    ASSUME TellInv, UNCHANGED <<row, record>>
    PROVE  Kept(record, row.state)' /\ (Rejected => row.status = "failed" /\ TurnedDown(record, row.state))'
BY DEF TellInv, Kept, Rejected, TurnedDown, Paused, Open, Ended

\* A node is through: what it leaves in the state and in the records.
LEMMA GoOnTells ==
    ASSUME GraphInv, TellInv, sess.pc # "idle",
           NEW pc \in {"agent", "tool", "executing"}, NEW g \in LooseStates,
           NEW rec \in Seq(RecordStatuses), GoOn(pc, g, rec),
           Kept(rec, sess.init), Below(sess.init, g)
    PROVE  TellInv'
<1>1. /\ UNCHANGED <<row, record>>
      /\ sess'.pc = pc /\ sess'.g = g /\ sess'.record = rec
      /\ sess'.init = sess.init /\ sess'.error = sess.error
  BY GoOnEffect DEF GraphInv
<1>2. sess'.error # "APPROVAL_REJECTED"
  BY <1>1 DEF TellInv
<1>3. Kept(sess.record, sess.init)' /\ Below(sess.init, sess.g)'
  BY <1>1 DEF Kept, Below
<1> QED
  BY <1>1, <1>2, <1>3, RowTells DEF TellInv

LEMMA EndTells ==
    ASSUME GraphInv, TellInv, sess.pc # "idle", NEW g \in LooseStates,
           NEW out \in {"waiting_approval", "completed", "failed"},
           NEW error \in {"none", "MAX_STEPS_EXCEEDED", "TOOL_FAILED"},
           NEW rec \in Seq(RecordStatuses), End(g, out, error, rec),
           Kept(rec, sess.init), ~CutOff(out, error)
    PROVE  TellInv'
<1>1. error \in Errors
  BY DEF Errors
<1>2. /\ UNCHANGED <<row, record>>
      /\ sess'.pc = "ended" /\ sess'.g = g /\ sess'.record = rec
      /\ sess'.out = out /\ sess'.error = error /\ sess'.init = sess.init
  BY <1>1, EndEffect DEF GraphInv
<1>3. Kept(sess.record, sess.init)'
  BY <1>2 DEF Kept
<1>4. ~CutOff(sess.out, sess.error)'
  BY <1>2 DEF CutOff
<1> QED
  BY <1>2, <1>3, <1>4, RowTells DEF TellInv

\* The tool node writes on the last record only, and that of an open call.
LEMMA NotedKeeps ==
    ASSUME GraphInv, TellInv, sess.pc = "tool", NEW status \in RecordStatuses
    PROVE  Kept(Noted(status), sess.init)
<1> DEFINE n == Len(sess.g.calls)
           rec == Noted(status)
<1>1. Open(sess.g) /\ Len(rec) = n /\ \A i \in 1 .. n - 1 : rec[i] = sess.g.calls[i].status
  BY NotedFacts
<1>2. \A i \in 1 .. n - 1 : sess.record[i] = sess.g.calls[i].status
  <2>1. n \in Nat
    BY Fields, Numbers DEF GraphInv
  <2> QED
    BY <2>1 DEF GraphInv, SessInv, ToldAll, Told
<1>3. Kept(sess.record, sess.init) /\ Below(sess.init, sess.g)
  BY DEF TellInv
<1>4. n \in Nat /\ Len(sess.init.calls) \in Nat
  BY Fields, Numbers DEF GraphInv
<1> HIDE DEF rec
<1>5. ASSUME NEW i \in 1 .. Len(sess.init.calls), sess.init.calls[i].status \in Settled
      PROVE  i <= Len(rec) /\ rec[i] = sess.init.calls[i].status
  <2>1. i < n
    BY <1>1, <1>3, <1>5 DEF Below, Open
  <2>2. i \in 1 .. n - 1
    BY <1>4, <2>1
  <2>3. rec[i] = sess.record[i]
    BY <1>1, <1>2, <2>2
  <2>4. sess.record[i] = sess.init.calls[i].status
    BY <1>3, <1>5 DEF Kept
  <2> QED
    BY <1>1, <1>4, <2>2, <2>3, <2>4
<1>6. Kept(rec, sess.init)
  BY <1>5 DEF Kept
<1> QED
  BY <1>6 DEF rec

LEMMA FinishedKeeps ==
    ASSUME GraphInv, TellInv, sess.pc = "executing", NEW status \in RecordStatuses
    PROVE  Kept(Finished(status), sess.init)
<1> DEFINE n == Len(sess.g.calls)
           rec == Finished(status)
<1>1. Open(sess.g) /\ Len(rec) = n /\ \A i \in 1 .. n - 1 : rec[i] = sess.g.calls[i].status
  BY FinishedFacts
<1>2. \A i \in 1 .. n - 1 : sess.record[i] = sess.g.calls[i].status
  BY DEF GraphInv, SessInv
<1>3. Kept(sess.record, sess.init) /\ Below(sess.init, sess.g)
  BY DEF TellInv
<1>4. n \in Nat /\ Len(sess.init.calls) \in Nat
  BY Fields, Numbers DEF GraphInv
<1> HIDE DEF rec
<1>5. ASSUME NEW i \in 1 .. Len(sess.init.calls), sess.init.calls[i].status \in Settled
      PROVE  i <= Len(rec) /\ rec[i] = sess.init.calls[i].status
  <2>1. i < n
    BY <1>1, <1>3, <1>5 DEF Below, Open
  <2>2. i \in 1 .. n - 1
    BY <1>4, <2>1
  <2>3. rec[i] = sess.record[i]
    BY <1>1, <1>2, <2>2
  <2>4. sess.record[i] = sess.init.calls[i].status
    BY <1>3, <1>5 DEF Kept
  <2> QED
    BY <1>1, <1>4, <2>2, <2>3, <2>4
<1>6. Kept(rec, sess.init)
  BY <1>5 DEF Kept
<1> QED
  BY <1>6 DEF rec

\* A state with no fewer calls, and none open, is above the settled ones as well.
LEMMA BelowRest ==
    ASSUME NEW g \in LooseStates, NEW h \in LooseStates, NEW k \in LooseStates, Below(g, h),
           \/ Len(k.calls) = Len(h.calls) /\ ~k.pending
           \/ Len(k.calls) = Len(h.calls) + 1
    PROVE  Below(g, k)
<1>1. Len(h.calls) \in Nat
  BY Numbers
<1> QED
  BY <1>1 DEF Below

LEMMA AgentNodeTells ==
    ASSUME GraphInv, TellInv, StepsExhausted \/ DecideAnswer \/ \E tool \in Tools : DecideCall(tool)
    PROVE  TellInv'
<1>1. sess.pc = "agent" /\ AtRest(sess.g)
  BY DEF StepsExhausted, DecideAnswer, DecideCall, Visit, GraphInv, SessInv
<1>2. sess.g \in LooseStates /\ sess.init \in LooseStates /\ sess.record \in Seq(RecordStatuses)
  BY Fields DEF GraphInv
<1>3. Kept(sess.record, sess.init) /\ Below(sess.init, sess.g)
  BY <1>1 DEF TellInv
<1>4. CASE StepsExhausted
  <2>1. End(sess.g, "failed", "MAX_STEPS_EXCEEDED", sess.record)
    BY <1>4 DEF StepsExhausted
  <2> QED
    BY <1>1, <1>2, <1>3, <2>1, EndTells DEF CutOff, CleanErrors
<1>5. CASE DecideAnswer
  <2> DEFINE s == sess.g.steps + 1
             g == [sess.g EXCEPT !.steps = s, !.pending = FALSE]
  <2>1. End(g, "completed", "none", sess.record)
    BY <1>5 DEF DecideAnswer
  <2>2. s \in Nat
    BY <1>2, Numbers
  <2> HIDE DEF s
  <2>3. g \in LooseStates
    BY <1>2, <2>2 DEF LooseStates
  <2> HIDE DEF g
  <2> QED
    BY <1>1, <1>2, <1>3, <2>1, <2>3, EndTells DEF CutOff
<1>6. ASSUME NEW tool \in Tools, DecideCall(tool) PROVE TellInv'
  <2> DEFINE g == [sess.g EXCEPT !.steps = @ + 1, !.pending = TRUE,
                                 !.calls = Append(@, [tool |-> tool, status |-> "pending"])]
  <2>1. GoOn("tool", g, sess.record)
    BY <1>6 DEF DecideCall
  <2>2. g \in LooseStates /\ Len(g.calls) = Len(sess.g.calls) + 1
    BY <1>1, <1>2, AskedFacts
  <2> HIDE DEF g
  <2>3. Below(sess.init, g)
    BY <1>2, <1>3, <2>2, BelowRest
  <2> QED
    BY <1>1, <1>2, <1>3, <2>1, <2>2, <2>3, GoOnTells
<1> QED
  BY <1>4, <1>5, <1>6

LEMMA ToolNodeTells ==
    ASSUME GraphInv, TellInv, RefuseCall \/ PauseForApproval \/ CallTool
    PROVE  TellInv'
<1>1. sess.pc = "tool" /\ Open(sess.g)
  BY DEF RefuseCall, PauseForApproval, CallTool, Visit, GraphInv, SessInv, Paused
<1>2. sess.g \in LooseStates /\ sess.init \in LooseStates
  BY Fields DEF GraphInv
<1>3. \A status \in RecordStatuses : Noted(status) \in Seq(RecordStatuses) /\ Kept(Noted(status), sess.init)
  BY <1>1, NotedFacts, NotedKeeps
<1>4. CASE RefuseCall
  <2>1. End(Cleared(sess.g, "failed"), "failed", "TOOL_FAILED", Noted("failed"))
    BY <1>4 DEF RefuseCall
  <2>2. Cleared(sess.g, "failed") \in LooseStates /\ "failed" \in RecordStatuses
    BY <1>1, <1>2, ClearedFacts DEF RecordStatuses
  <2> QED
    BY <1>1, <1>3, <2>1, <2>2, EndTells DEF CutOff, CleanErrors
<1>5. CASE PauseForApproval
  <2> DEFINE m == Marked(sess.g, "waiting_approval")
             g == [m EXCEPT !.resume = FALSE]
  <2>1. End(g, "waiting_approval", "none", Noted("waiting_approval"))
    BY <1>5 DEF PauseForApproval
  <2>2. m \in LooseStates
    <3>1. sess.g.calls # <<>> /\ "waiting_approval" \in CallStatuses
      BY <1>1 DEF Open, CallStatuses
    <3> QED
      BY <1>2, <3>1, MarkedFacts
  <2> HIDE DEF m
  <2>3. g \in LooseStates /\ "waiting_approval" \in RecordStatuses
    BY <2>2 DEF LooseStates, RecordStatuses
  <2> HIDE DEF g
  <2> QED
    BY <1>1, <1>3, <2>1, <2>3, EndTells DEF CutOff
<1>6. CASE CallTool
  <2>1. GoOn("executing", sess.g, Noted("running")) /\ "running" \in RecordStatuses
    BY <1>6 DEF CallTool, RecordStatuses
  <2>2. Below(sess.init, sess.g)
    BY <1>1 DEF TellInv
  <2> QED
    BY <1>1, <1>2, <1>3, <2>1, <2>2, GoOnTells
<1> QED
  BY <1>4, <1>5, <1>6

LEMMA ToolEndTells ==
    ASSUME GraphInv, TellInv, ToolReturns \/ ToolFails
    PROVE  TellInv'
<1>1. sess.pc = "executing" /\ Open(sess.g)
  BY DEF ToolReturns, ToolFails, GraphInv, SessInv
<1>2. sess.g \in LooseStates /\ sess.init \in LooseStates
  BY Fields DEF GraphInv
<1>3. \A status \in RecordStatuses : Finished(status) \in Seq(RecordStatuses) /\ Kept(Finished(status), sess.init)
  BY <1>1, FinishedFacts, FinishedKeeps
<1>4. \A status \in {"completed", "failed"} :
        /\ Cleared(sess.g, status) \in LooseStates /\ ~Cleared(sess.g, status).pending
        /\ Len(Cleared(sess.g, status).calls) = Len(sess.g.calls)
        /\ status \in RecordStatuses
  BY <1>1, <1>2, ClearedFacts DEF AtRest, RecordStatuses
<1>5. CASE ToolFails
  <2>1. End(Cleared(sess.g, "failed"), "failed", "TOOL_FAILED", Finished("failed"))
    BY <1>5 DEF ToolFails
  <2> QED
    BY <1>1, <1>3, <1>4, <2>1, EndTells DEF CutOff, CleanErrors
<1>6. CASE ToolReturns
  <2>1. GoOn("agent", Cleared(sess.g, "completed"), Finished("completed"))
    BY <1>6 DEF ToolReturns
  <2>2. Below(sess.init, sess.g)
    BY <1>1 DEF TellInv
  <2>3. Below(sess.init, Cleared(sess.g, "completed"))
    BY <1>2, <1>4, <2>2, BelowRest
  <2> QED
    BY <1>1, <1>3, <1>4, <2>1, <2>3, GoOnTells
<1> QED
  BY <1>5, <1>6

LEMMA FailTells ==
    ASSUME GraphInv, TellInv, ModelFails \/ Timeout \/ RecursionStop
    PROVE  TellInv'
<1>1. sess.pc # "idle"
  BY DEF ModelFails, Timeout, RecursionStop, Visit
<1>2. PICK error \in {"AGENT_LLM_FAILED", "AGENT_TIMEOUT", "AGENT_RUNTIME_FAILED"} : FailWith(error)
  BY DEF ModelFails, Timeout, RecursionStop
<1>3. error \in Errors
  BY DEF Errors
<1>4. /\ UNCHANGED <<row, record>>
      /\ sess'.pc = "saving" /\ sess'.g = sess.init /\ sess'.record = sess.record
      /\ sess'.error = error /\ sess'.init = sess.init
  BY <1>2, <1>3, FailEffect DEF GraphInv
<1>5. Kept(sess.record, sess.init)'
  BY <1>1, <1>4 DEF TellInv, Kept
<1> QED
  BY <1>4, <1>5, RowTells DEF TellInv

LEMMA PlaceTells ==
    ASSUME GraphInv, TellInv, EnterGraph \/ Return
    PROVE  TellInv'
<1>1. CASE EnterGraph
  <2> DEFINE pc == IF sess.g.resume /\ sess.g.pending THEN "tool" ELSE "agent"
  <2>1. /\ sess.pc = "building" /\ sess' = [sess EXCEPT !.pc = pc]
        /\ UNCHANGED <<agent, row, record, largest, lost>>
    BY <1>1 DEF EnterGraph, ghosts
  <2>2. pc \in {"agent", "tool"}
    OBVIOUS
  <2> HIDE DEF pc
  <2>3. /\ sess'.pc = pc /\ sess'.g = sess.g /\ sess'.record = sess.record
        /\ sess'.error = sess.error /\ sess'.init = sess.init
    BY <2>1, <2>2, PlaceEffect DEF GraphInv
  <2>4. Kept(sess.record, sess.init)' /\ Below(sess.init, sess.g)' /\ sess'.error # "APPROVAL_REJECTED"
    BY <2>1, <2>3 DEF TellInv, Kept, Below
  <2> QED
    BY <2>1, <2>2, <2>3, <2>4, RowTells DEF TellInv
<1>2. CASE Return
  <2>1. /\ sess.pc = "ended" /\ sess' = [sess EXCEPT !.pc = "saving"]
        /\ UNCHANGED <<agent, row, record, largest, lost>>
    BY <1>2 DEF Return, ghosts
  <2>2. /\ sess'.pc = "saving" /\ sess'.g = sess.g /\ sess'.record = sess.record
        /\ sess'.out = sess.out /\ sess'.error = sess.error /\ sess'.init = sess.init
    BY <2>1, PlaceEffect DEF GraphInv
  <2>3. /\ Kept(sess.record, sess.init)' /\ sess'.error # "APPROVAL_REJECTED"
        /\ ~CutOff(sess.out, sess.error)'
    BY <2>1, <2>2 DEF TellInv, Kept, CutOff
  <2> QED
    BY <2>1, <2>2, <2>3, RowTells DEF TellInv
<1> QED
  BY <1>1, <1>2

LEMMA SaveTells ==
    ASSUME GraphInv, TellInv, Save
    PROVE  TellInv'
<1> DEFINE h == JsonState(sess.g)
<1>1. /\ sess.pc = "saving"
      /\ row' = [row EXCEPT !.status = sess.out, !.state = h, !.error = sess.error]
      /\ record' = sess.record /\ sess' = Idle
  BY DEF Save
<1>2. sess.g \in LooseStates /\ row \in LooseRows /\ sess.error \in Errors
  BY Fields DEF GraphInv, LooseInv
<1>3. h.calls = sess.g.calls
  BY <1>2, JsonFacts DEF SameCalls
<1> HIDE DEF h
<1>4. row'.state = h /\ row'.error = sess.error
  BY <1>1, <1>2 DEF LooseRows
<1>5. Kept(sess.record, sess.g)
  <2>1. CASE CutOff(sess.out, sess.error)
    BY <1>1, <2>1 DEF TellInv
  <2>2. CASE ~CutOff(sess.out, sess.error)
    <3>1. sess.out \in {"waiting_approval", "completed", "failed"}
      BY <1>1, Fields DEF GraphInv, SessInv
    <3>2. ToldAll(sess.record, sess.g)
      BY <1>1, <2>2, <3>1 DEF GraphInv, SessInv, Outcome, CutOff
    <3> QED
      BY <1>2, <3>2, ToldKept
  <2> QED
    BY <2>1, <2>2
<1>6. Kept(record, row.state)'
  BY <1>1, <1>3, <1>4, <1>5 DEF Kept
<1>7. ~Rejected'
  BY <1>4 DEF TellInv, Rejected
<1>8. sess'.pc = "idle" /\ sess'.error = "none"
  BY <1>1, GraphAssumption, IdleEffect
<1> QED
  BY <1>6, <1>7, <1>8 DEF TellInv

LEMMA StartTells ==
    ASSUME GraphInv, TellInv, NEW kb \in {"none", "uuid"}, StartRun(kb)
    PROVE  TellInv'
<1>1. /\ row' = [status |-> "running", max |-> agent.max, state |-> JsonState(NewState(kb)),
                 error |-> "none"]
      /\ sess' = Enter(NewState(kb))
  BY DEF StartRun
<1>2. NewState(kb) \in LooseStates /\ NewState(kb).calls = <<>> /\ Len(<<>>) = 0
  BY NewStateFacts DEF NewState
<1>3. /\ sess'.pc = "building" /\ sess'.init = NewState(kb) /\ sess'.error = "none"
  BY <1>1, <1>2, EnterFacts DEF GraphInv
<1>4. row'.state.calls = <<>> /\ row'.error = "none"
  BY <1>1, <1>2, JsonFacts DEF SameCalls
<1>5. Kept(record, row.state)' /\ Kept(sess.record, sess.init)' /\ Below(sess.init, sess.g)'
  BY <1>2, <1>3, <1>4 DEF Kept, Below
<1> QED
  BY <1>3, <1>4, <1>5 DEF TellInv, Rejected

LEMMA ResumeTells ==
    ASSUME GraphInv, TellInv, ResumeRun
    PROVE  TellInv'
<1> DEFINE g == [row.state EXCEPT !.approved = TRUE, !.resume = TRUE]
<1>1. /\ row.status = "waiting_approval" /\ sess' = Enter(g)
      /\ row' = [row EXCEPT !.status = "running", !.state = g, !.error = "none"]
      /\ record' = record
  BY DEF ResumeRun
<1>2. row.state \in LooseStates /\ row \in LooseRows
  BY Fields DEF GraphInv, LooseInv
<1>3. g \in LooseStates /\ SameCalls(g, row.state)
  BY <1>2 DEF LooseStates, SameCalls
<1> HIDE DEF g
<1>4. Paused(row.state) /\ ToldAll(record, row.state)
  BY <1>1 DEF GraphInv, RowInv, Outcome
<1>5. Paused(g) /\ ToldAll(record, g)
  BY <1>3, <1>4, SameFacts
<1>6. Kept(record, g) /\ Below(g, g)
  BY <1>3, <1>5, ToldKept, PausedBelow
<1>7. /\ sess'.pc = "building" /\ sess'.init = g /\ sess'.g = g /\ sess'.record = record
      /\ sess'.error = "none"
  BY <1>1, <1>3, EnterFacts DEF GraphInv
<1>8. row'.state = g /\ row'.error = "none"
  BY <1>1, <1>2 DEF LooseRows
<1>9. Kept(record, row.state)' /\ Kept(sess.record, sess.init)' /\ Below(sess.init, sess.g)'
  BY <1>1, <1>6, <1>7, <1>8 DEF Kept, Below
<1> QED
  BY <1>7, <1>8, <1>9 DEF TellInv, Rejected

\* A reject writes on the record of the open call.
LEMMA RejectTells ==
    ASSUME GraphInv, TellInv, RejectRun
    PROVE  TellInv'
<1> DEFINE g == [row.state EXCEPT !.resume = FALSE]
           n == Len(row.state.calls)
<1>1. /\ row.status = "waiting_approval" /\ sess.pc = "idle"
      /\ row' = [row EXCEPT !.status = "failed", !.state.resume = FALSE,
                            !.error = "APPROVAL_REJECTED"]
      /\ record' = WithLast(record, "failed") /\ sess' = sess
  BY DEF RejectRun
<1>2. row.state \in LooseStates /\ row \in LooseRows /\ record \in Seq(RecordStatuses)
  BY Fields DEF GraphInv, LooseInv
<1>3. g \in LooseStates /\ SameCalls(g, row.state)
  BY <1>2 DEF LooseStates, SameCalls
<1>4. row' = [row EXCEPT !.status = "failed", !.state = g, !.error = "APPROVAL_REJECTED"]
  BY <1>1, <1>2 DEF LooseRows
<1> HIDE DEF g
<1>5. Paused(row.state) /\ ToldAll(record, row.state)
  BY <1>1 DEF GraphInv, RowInv, Outcome
<1>6. row'.status = "failed" /\ row'.state = g /\ row'.error = "APPROVAL_REJECTED"
  BY <1>2, <1>4 DEF LooseRows
<1>7. /\ n \in Nat /\ n >= 1 /\ Len(record) = n
      /\ \A i \in 1 .. n : record[i] = row.state.calls[i].status
  BY <1>2, <1>5, Numbers DEF Paused, Open, ToldAll, Told
<1>8. /\ Len(record') = n /\ record'[n] = "failed"
      /\ \A i \in 1 .. n - 1 : record'[i] = row.state.calls[i].status
  <2>1. record # <<>> /\ "failed" \in RecordStatuses
    BY <1>2, <1>7 DEF RecordStatuses
  <2>2. /\ Len(record') = Len(record)
        /\ \A i \in 1 .. Len(record) :
              record'[i] = IF i = Len(record) THEN "failed" ELSE record[i]
    BY <1>1, <1>2, <2>1, WithLastFacts
  <2> HIDE DEF n
  <2>3. Len(record') = n /\ record'[n] = "failed"
    BY <1>7, <2>2
  <2>4. ASSUME NEW i \in 1 .. n - 1 PROVE record'[i] = row.state.calls[i].status
    BY <1>7, <2>2, <2>4
  <2> QED
    BY <2>3, <2>4
<1>9. Paused(g) /\ g.calls = row.state.calls
  BY <1>3, <1>5, SameFacts DEF SameCalls
<1>10. TurnedDown(record, row.state)'
  BY <1>6, <1>7, <1>8, <1>9 DEF TurnedDown, Paused, Open, Ended
<1>11. Kept(record, row.state)'
  <2>1. row.state.calls[n].status \notin Settled
    BY <1>5 DEF Paused, Settled
  <2>2. \A i \in 1 .. n : i # n => i \in 1 .. n - 1
    BY <1>7
  <2> QED
    BY <1>6, <1>7, <1>8, <1>9, <2>1, <2>2 DEF Kept
<1> QED
  BY <1>1, <1>6, <1>10, <1>11 DEF TellInv

LEMMA LostTells ==
    ASSUME GraphInv, TellInv, sess' = Idle, UNCHANGED <<row, record>>
    PROVE  TellInv'
<1>1. sess'.pc = "idle" /\ sess'.error = "none"
  BY GraphAssumption, IdleEffect
<1> QED
  BY <1>1, RowTells DEF TellInv

LEMMA TellInvariant == Spec => []TellInv
<1>1. Init => TellInv
  <2> SUFFICES ASSUME Init PROVE TellInv
    OBVIOUS
  <2>1. row = NoRow /\ sess = Idle
    BY DEF Init
  <2>2. row.error = "none" /\ row.state.calls = <<>> /\ Len(<<>>) = 0
    BY <2>1 DEF NoRow, NewState
  <2>3. sess.pc = "idle" /\ sess.error = "none"
    BY <2>1, GraphAssumption, IdleEffect
  <2> QED
    BY <2>2, <2>3 DEF TellInv, Rejected, Kept
<1>2. GraphInv /\ TellInv /\ Next => TellInv'
  <2> SUFFICES ASSUME GraphInv, TellInv, Next PROVE TellInv'
    OBVIOUS
  <2>1. CASE UpdateAgent
    BY <2>1, RowTells DEF UpdateAgent, TellInv
  <2>2. CASE RegistryFails \/ Abort
    BY <2>2, LostTells DEF RegistryFails, Abort
  <2> QED
    BY <2>1, <2>2, StartTells, ResumeTells, RejectTells, PlaceTells, AgentNodeTells,
       ToolNodeTells, ToolEndTells, FailTells, SaveTells DEF Next
<1>3. TellInv /\ UNCHANGED vars => TellInv'
  BY RowTells DEF vars, TellInv
<1> QED
  BY <1>1, <1>2, <1>3, GraphInvariant, PTL DEF Spec

-----------------------------------------------------------------------------
(* Theorems *)

LEMMA Bounds ==
    ASSUME NEW S, NEW s \in Seq(S), NEW n \in Nat, Len(s) <= n
    PROVE  s \in BoundedSeq(S, n)
<1>1. s \in [1 .. Len(s) -> S] /\ Len(s) \in 0 .. n
  BY LenProperties
<1> QED
  BY <1>1 DEF BoundedSeq, SeqOf

LEMMA StatesBounded ==
    ASSUME LooseInv, NEW g \in LooseStates, Bounded(g)
    PROVE  g \in States
<1>1. /\ g.steps \in 0 .. MaxSteps /\ g.results \in 0 .. MaxSteps
      /\ Len(g.calls) <= MaxSteps /\ MaxSteps \in Nat /\ g.calls \in Seq(CallRecords)
  BY Fields, Numbers DEF Bounded
<1>2. g.calls \in BoundedSeq(CallRecords, MaxSteps)
  BY <1>1, Bounds
<1> QED
  BY <1>1, <1>2 DEF LooseStates, States, CallRecords

\* Row, records, session and history keep to their types for any tools, any step limit
\* and any number of node visits: no state outgrows max_steps.
THEOREM TypeCorrect == Spec => []TypeOK
<1>1. GraphInv => TypeOK
  <2> SUFFICES ASSUME GraphInv PROVE TypeOK
    OBVIOUS
  <2>0. LooseInv /\ MaxSteps \in Nat /\ Recursion \in Nat
    BY GraphAssumption DEF GraphInv, GraphAssumption
  <2>1. row.state \in States /\ sess.g \in States /\ sess.init \in States
    BY <2>0, Fields, StatesBounded DEF GraphInv, RowInv, SessInv
  <2>2. row \in Rows
    BY <2>0, <2>1 DEF LooseInv, LooseRows, Rows
  <2>3. record \in BoundedSeq(RecordStatuses, MaxSteps)
    BY <2>0, Bounds DEF GraphInv, RowInv, LooseInv
  <2>4. sess.record \in BoundedSeq(RecordStatuses, MaxSteps)
    BY <2>0, Fields, Bounds DEF GraphInv, SessInv
  <2>5. sess.visits \in 0 .. Recursion
    BY <2>0, Fields DEF GraphInv, VisitInv
  <2>6. sess \in Sessions
    BY <2>0, <2>1, <2>4, <2>5 DEF LooseInv, LooseSessions, Sessions
  <2> QED
    BY <2>0, <2>2, <2>3, <2>6 DEF TypeOK, LooseInv
<1> QED
  BY <1>1, GraphInvariant, PTL

\* However often the agent is edited and the run paused, it makes no more calls than
\* the largest limit it was given.
THEOREM BudgetKept == Spec => []BudgetHolds
<1>1. GraphInv => BudgetHolds
  BY DEF GraphInv, RowInv, SessInv, Bounded, BudgetHolds
<1> QED
  BY <1>1, GraphInvariant, PTL

\* Only a crash, or a registry that cannot be built, leaves a run running.
THEOREM RunsEnd == Spec => []NothingAbandoned
<1>1. GraphInv => NothingAbandoned
  BY DEF GraphInv, RowInv, NothingAbandoned
<1> QED
  BY <1>1, GraphInvariant, PTL

\* Whatever LangGraph grants, a limit well below it is what stops a run.
THEOREM LimitsReported == Spec => []SmallLimitIsReported
<1>1. GraphInv => SmallLimitIsReported
  BY DEF GraphInv, VisitInv, SmallLimitIsReported
<1> QED
  BY <1>1, GraphInvariant, PTL

LEMMA CleanOutcome ==
    ASSUME GraphInv, TellInv, Clean
    PROVE  \/ /\ ~Rejected /\ ToldAll(record, row.state)
              /\ \/ row.status = "waiting_approval" /\ Paused(row.state)
                 \/ row.status = "completed" /\ Answered(row.state)
                 \/ row.status = "failed" /\ AtRest(row.state)
           \/ Rejected /\ row.status = "failed" /\ TurnedDown(record, row.state)
<1>1. row.status \in {"absent", "running", "waiting_approval", "completed", "failed"}
  BY DEF GraphInv, LooseInv, LooseRows
<1>2. row.status \in {"absent", "running"} => row.error = "none"
  BY DEF GraphInv, RowInv, NoRow
<1>3. CASE Rejected
  BY <1>3 DEF TellInv
<1>4. CASE ~Rejected /\ row.status \in {"waiting_approval", "completed"}
  BY <1>4 DEF GraphInv, RowInv, Outcome
<1>5. CASE ~Rejected /\ row.error \in {"MAX_STEPS_EXCEEDED", "TOOL_FAILED"}
           /\ row.status \notin {"waiting_approval", "completed"}
  <2>1. row.status = "failed"
    BY <1>1, <1>2, <1>5
  <2> QED
    BY <1>5, <2>1 DEF GraphInv, RowInv, Outcome, CleanErrors
<1> QED
  BY <1>3, <1>4, <1>5 DEF Clean

\* For any number of calls and pauses the JSON state accounts for its run; it keeps
\* the pending call of a rejected one.
THEOREM StatesAccount == Spec => []StateAccounts
<1>1. GraphInv /\ TellInv => StateAccounts
  <2> SUFFICES ASSUME GraphInv, TellInv, Clean PROVE StateAccounts
    BY DEF StateAccounts
  <2> DEFINE g == row.state
             n == Len(g.calls)
             open == {i \in DOMAIN g.calls : g.calls[i].status \notin Settled}
  <2>1. g \in LooseStates /\ n \in Nat /\ DOMAIN g.calls = 1 .. n
    <3>1. g \in LooseStates
      BY Fields DEF GraphInv
    <3> QED
      BY <3>1, Numbers
  <2>2. CASE (row.status = "waiting_approval" \/ Rejected) /\ row.status # "completed" /\ Paused(g)
    <3>1. /\ g.pending /\ g.steps = n /\ g.results = n - 1 /\ n >= 1
          /\ Ended(g, n - 1) /\ g.calls[n].status = "waiting_approval"
      BY <2>1, <2>2, Numbers DEF Paused, Open
    <3>2. open = {n}
      BY <2>1, <3>1 DEF Ended, Settled
    <3>3. g.pending = (row.status = "waiting_approval" \/ Rejected)
      BY <2>1, <2>2, <3>1, Numbers
    <3>4. g.steps = n + (IF row.status = "completed" THEN 1 ELSE 0)
      BY <2>1, <2>2, <3>1
    <3>5. g.results = n - (IF g.pending THEN 1 ELSE 0)
      BY <3>1
    <3>6. open = IF g.pending THEN {n} ELSE {}
      BY <3>1, <3>2
    <3> QED
      BY <3>3, <3>4, <3>5, <3>6 DEF StateAccounts
  <2>3. CASE row.status # "waiting_approval" /\ ~Rejected /\ ~g.pending /\ Ended(g, n)
             /\ g.results = n /\ g.steps = IF row.status = "completed" THEN n + 1 ELSE n
    <3>1. open = {}
      BY <2>1, <2>3 DEF Ended, Settled
    <3>2. g.pending = FALSE
      BY <2>1, <2>3, Numbers
    <3>3. g.pending = (row.status = "waiting_approval" \/ Rejected)
      BY <2>3, <3>2
    <3>4. g.steps = n + (IF row.status = "completed" THEN 1 ELSE 0)
      <4>1. CASE row.status = "completed"
        BY <2>3, <4>1
      <4>2. CASE row.status # "completed"
        BY <2>1, <2>3, <4>2
      <4> QED
        BY <4>1, <4>2
    <3>5. g.results = n - (IF g.pending THEN 1 ELSE 0)
      BY <2>1, <2>3, <3>2
    <3>6. open = IF g.pending THEN {n} ELSE {}
      BY <3>1, <3>2
    <3> QED
      BY <3>3, <3>4, <3>5, <3>6 DEF StateAccounts
  <2> QED
    BY <2>2, <2>3, CleanOutcome DEF Answered, AtRest, TurnedDown
<1> QED
  BY <1>1, GraphInvariant, TellInvariant, PTL

LEMMA StatusesFacts ==
    ASSUME NEW calls \in Seq(CallRecords)
    PROVE  /\ Len(Statuses(calls)) = Len(calls)
           /\ \A i \in 1 .. Len(calls) : Statuses(calls)[i] = calls[i].status
           /\ Statuses(calls) \in Seq(CallStatuses)
<1> DEFINE n == Len(calls)
           s == [i \in 1 .. n |-> calls[i].status]
<1>1. Statuses(calls) = s /\ n \in Nat
  BY DEF Statuses
<1>2. ASSUME NEW i \in 1 .. n PROVE calls[i].status \in CallStatuses
  <2>1. calls[i] \in CallRecords
    BY ElementOfSeq
  <2> QED
    BY <2>1 DEF CallRecords
<1>3. s \in Seq(CallStatuses)
  BY <1>1, <1>2, IsASeq
<1>4. DOMAIN s = 1 .. n
  OBVIOUS
<1>5. Len(s) = n
  BY <1>1, <1>3, <1>4
<1> QED
  BY <1>1, <1>3, <1>5

\* Whatever became of a run, its records have the outcome of every call that its state
\* shows as ended.  If it was not cut off they tell the same of all its calls, but for
\* the last one of a rejected run: failed in the records, waiting in the state.
THEOREM RecordsAgreeAlways == Spec => []RecordsAgree
<1>1. GraphInv /\ TellInv => RecordsAgree
  <2> SUFFICES ASSUME GraphInv, TellInv PROVE RecordsAgree
    OBVIOUS
  <2> DEFINE calls == row.state.calls
             n == Len(calls)
             told == Statuses(calls)
  <2>1. /\ row.state \in LooseStates /\ record \in Seq(RecordStatuses)
        /\ calls \in Seq(CallRecords) /\ n \in Nat /\ DOMAIN calls = 1 .. n
    <3>1. row.state \in LooseStates /\ record \in Seq(RecordStatuses)
      BY Fields DEF GraphInv, LooseInv
    <3> QED
      BY <3>1, Numbers
  <2>2. told \in Seq(CallStatuses) /\ Len(told) = n /\ \A i \in 1 .. n : told[i] = calls[i].status
    BY <2>1, StatusesFacts
  <2>3. ASSUME NEW i \in DOMAIN calls, calls[i].status \in Settled
        PROVE  i \in DOMAIN record /\ record[i] = calls[i].status
    <3>1. i \in 1 .. n
      BY <2>1, <2>3
    <3>2. i <= Len(record) /\ record[i] = calls[i].status
      BY <2>3, <3>1 DEF TellInv, Kept
    <3> QED
      BY <2>1, <3>1, <3>2
  <2>4. ASSUME Clean, ~Rejected PROVE record = told
    <3>1. ToldAll(record, row.state)
      BY <2>4, CleanOutcome
    <3>2. Len(record) = n /\ \A i \in 1 .. n : record[i] = calls[i].status
      BY <3>1 DEF ToldAll, Told
    <3> HIDE DEF told, calls
    <3> QED
      BY <2>1, <2>2, <3>2, SeqEqual
  <2>5. ASSUME Rejected
        PROVE  calls # <<>> /\ Last(calls).status = "waiting_approval" /\ record = WithLast(told, "failed")
    <3>1. TurnedDown(record, row.state)
      BY <2>5 DEF TellInv
    <3>2. /\ calls # <<>> /\ calls[n].status = "waiting_approval"
          /\ Len(record) = n /\ record[n] = "failed"
          /\ \A i \in 1 .. n - 1 : record[i] = calls[i].status
      BY <3>1 DEF TurnedDown, Paused, Open
    <3>3. Last(calls).status = "waiting_approval"
      BY <3>2 DEF Last
    <3> DEFINE both == RecordStatuses \cup CallStatuses
               cut == [told EXCEPT ![Len(told)] = "failed"]
    <3>4. told \in Seq(both) /\ "failed" \in both
      BY <2>2 DEF RecordStatuses
    <3>5. n \in 1 .. n
      BY <2>1, <3>2
    <3>7. \A i \in 1 .. n : i # n => i \in 1 .. n - 1
      <4> HIDE DEF n
      <4> QED
        BY <2>1
    <3> HIDE DEF both, told, calls
    <3>6. /\ cut \in Seq(both) /\ Len(cut) = n
          /\ \A i \in 1 .. n : cut[i] = IF i = n THEN "failed" ELSE told[i]
      BY <2>2, <3>4, <3>5, ExceptSeq
    <3> HIDE DEF cut, n
    <3>8. \A i \in 1 .. n : record[i] = cut[i]
      BY <2>2, <3>2, <3>6, <3>7
    <3>9. record = cut
      BY <2>1, <3>2, <3>6, <3>8, SeqEqual
    <3> QED
      BY <3>2, <3>3, <3>9 DEF WithLast, cut, calls
  <2> QED
    BY <2>3, <2>4, <2>5 DEF RecordsAgree
<1> QED
  BY <1>1, GraphInvariant, TellInvariant, PTL

=============================================================================
