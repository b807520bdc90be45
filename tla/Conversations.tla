--------------------------- MODULE Conversations ---------------------------
(***************************************************************************)
(* One conversation and what writes to it: chats (services/chat.py) and    *)
(* agent runs that were given its id (services/agents.py), each in a       *)
(* session of its own.  A turn is one question of the user; a chat or a    *)
(* run tries to answer it.                                                 *)
(*                                                                         *)
(* Messages are ordered by created_at, which the process sets when it      *)
(* flushes the row; the row becomes visible to others with the commit.     *)
(* Question and answer are two transactions with the model between them.   *)
(***************************************************************************)
EXTENDS Integers, Sequences, Selection

CONSTANTS
    Turns,      \* the questions asked
    AgentTurns, \* those put to an agent; the others are chats
    Requests,   \* requests the server handles at the same time
    History,    \* chat_history_max_messages, agent_history_max_messages
    Budget,     \* chat_context_token_budget, agent_context_token_budget
    Size,       \* Size[t][role]: estimate_tokens of the question or answer of a turn
    MaxPauses,  \* how often a run pauses for approval, at most
    Nobody      \* no request, no turn

ASSUME ConversationAssumption ==
    /\ AgentTurns \subseteq Turns
    /\ Nobody \notin Turns \cup Requests
    /\ History \in Nat \ {0}
    /\ Budget \in Nat \ {0}
    /\ Size \in [Turns -> [{"user", "assistant"} -> Nat \ {0}]]
    /\ MaxPauses \in Nat

VARIABLES
    conv,       \* the conversation row exists
    log,        \* its messages by created_at
    run,        \* run[t]: the agent_runs row of turn t, if it has one
    sess,       \* sess[q]: the request q
    told,       \* told[t]: what the client of t was last told
    aborted,    \* turns a request about which was cut off
    contended   \* turns two requests have worked on at the same time

rows == <<conv, log, run>>
ghosts == <<told, aborted, contended>>
vars == <<rows, sess, ghosts>>

-----------------------------------------------------------------------------
\* lock is the session that has flushed the message and not committed it.
Messages == [turn : Turns, role : {"user", "assistant"}, lock : Requests \cup {Nobody}]

Cost(m) == Size[m.turn][m.role]

\* What a model sees of a message.  One that is longer than the whole budget is shown
\* by itself only, cut to the budget.
Seen(m) == [turn |-> m.turn, role |-> m.role, cut |-> Cost(m) > Budget]

SeenMessages == [turn : Turns, role : {"user", "assistant"}, cut : BOOLEAN]

Windows == {w \in Seq(SeenMessages) : Len(w) <= History}

Question(t, q) == [turn |-> t, role |-> "user", lock |-> q]
Answer(t, q) == [turn |-> t, role |-> "assistant", lock |-> q]

\* A run row: its status, how often it has paused, and the messages of its JSON
\* state, the history it began with and, once completed, its answer.
Runs == [status   : {"absent", "running", "waiting", "completed", "failed"},
         pauses   : 0 .. MaxPauses,
         history  : Windows,
         answered : BOOLEAN]

NoRun == [status |-> "absent", pauses |-> 0, history |-> <<>>, answered |-> FALSE]

Phases == {"idle", "loading", "asking", "asked", "retrieving", "thinking", "creating",
           "resuming", "working", "persisted", "answering", "answered"}

Sessions ==
    [pc     : Phases,
     turn   : Turns \cup {Nobody},
     window : Windows]

Idle == [pc |-> "idle", turn |-> Nobody, window |-> <<>>]

Init ==
    /\ conv = TRUE
    /\ log = <<>>
    /\ run = [t \in Turns |-> NoRun]
    /\ sess = [q \in Requests |-> Idle]
    /\ told = [t \in Turns |-> "nothing"]
    /\ aborted = {}
    /\ contended = {}

-----------------------------------------------------------------------------
Turn(q) == sess[q].turn

IsChat(q) == Turn(q) \notin AgentTurns

Goto(q, pc) == sess' = [sess EXCEPT ![q].pc = pc]

\* The response: the session is closed, what it has not committed is gone.
Reply(q, what) ==
    /\ sess' = [sess EXCEPT ![q] = Idle]
    /\ told' = [told EXCEPT ![Turn(q)] = what]

\* A row insert fails on the foreign key when the conversation is gone.
ForeignKeyFails(q) == ~conv /\ Reply(q, "no answer") /\ UNCHANGED <<log, aborted, contended>>

Flush(q, m, next) ==
    /\ conv
    /\ log' = Append(log, m)
    /\ Goto(q, next)
    /\ UNCHANGED ghosts

\* The commit of the session's message.  touch(), which is part of it, only sets
\* the updated_at by which conversations are listed.
Commit(q) ==
    log' = [i \in DOMAIN log |->
               IF log[i].lock = q THEN [log[i] EXCEPT !.lock = Nobody] ELSE log[i]]

\* A session that ends without it leaves nothing of its message.
Rollback(q) == log' = Kept(log, {m \in Messages : m.lock # q})

\* list_for_conversation: the newest messages this session can see, oldest first.
ListMessages(q, limit) ==
    Newest(Kept(log, {m \in Messages : m.lock \in {q, Nobody}}), limit)

\* The filter that leaves out the messages of the turn.
OfOthers(t) == {m \in Messages : m.turn # t}

\* The tokens of the newest n of the messages.
Tokens(messages, n) ==
    LET sum[i \in 0 .. n] ==
            IF i = 0 THEN 0 ELSE sum[i - 1] + Cost(messages[Len(messages) - i + 1])
    IN  sum[n]

Fits(messages, n) == n = 1 \/ Tokens(messages, n) <= Budget

\* Variant: the budget is not looked at.
RoomForAll(messages) == Len(messages)

\* The loop of ShortTermMemory.select: how many messages it takes, from the newest
\* back.  It takes the newest one whatever its length, and breaks at the first other
\* one that exceeds the budget.
Room(messages) ==
    LET taken[k \in 0 .. Len(messages)] ==
            IF k = 0 THEN 0
            ELSE IF taken[k - 1] = k - 1 /\ Fits(messages, k) THEN k ELSE taken[k - 1]
    IN  taken[Len(messages)]

\* ShortTermMemory.select.
Windowed(messages) ==
    LET newest == Newest(messages, History)
        shown == Newest(newest, Room(newest))
    IN  [i \in DOMAIN shown |-> Seen(shown[i])]

\* Variants: own question not left out; one message too few fetched; not cut to the
\* limit.
ChatWindowUncut(q) ==
    LET others == Kept(ListMessages(q, History + 1), OfOthers(Turn(q)))
    IN  [i \in DOMAIN others |-> Seen(others[i])]
ChatWindowWithOwn(q) == Windowed(ListMessages(q, History + 1))
ChatWindowShort(q) ==
    Windowed(Kept(ListMessages(q, History), OfOthers(Turn(q))))

\* A chat reads one message more than it needs, its own question.
ChatWindow(q) ==
    Windowed(Kept(ListMessages(q, History + 1), OfOthers(Turn(q))))

\* A run reads before it writes its question.
RunWindow(q) == Windowed(ListMessages(q, History))

-----------------------------------------------------------------------------
(* Requests *)

Started(t) == told[t] # "nothing" \/ \E q \in Requests : Turn(q) = t

Begin(q, t) ==
    /\ sess[q].pc = "idle"
    /\ ~Started(t)
    /\ conv
    /\ sess' = [sess EXCEPT ![q] = [Idle EXCEPT
                    !.pc = IF t \in AgentTurns THEN "loading" ELSE "asking", !.turn = t]]
    /\ UNCHANGED <<rows, ghosts>>

\* approve or resume of a run that the request reads as waiting.
BeginResumeAnyRun(q, t) ==
    /\ sess[q].pc = "idle"
    /\ run[t].status # "absent"
    /\ sess' = [sess EXCEPT ![q] = [Idle EXCEPT !.pc = "resuming", !.turn = t]]
    /\ contended' = contended \cup {u \in {t} : \E p \in Requests : Turn(p) = u}
    /\ UNCHANGED <<rows, told, aborted>>

BeginResume(q, t) ==
    /\ sess[q].pc = "idle"
    /\ run[t].status = "waiting"
    /\ sess' = [sess EXCEPT ![q] = [Idle EXCEPT !.pc = "resuming", !.turn = t]]
    /\ contended' = contended \cup {u \in {t} : \E p \in Requests : Turn(p) = u}
    /\ UNCHANGED <<rows, told, aborted>>

\* reject, or the expiry of the approval.
Reject(t) ==
    /\ run[t].status = "waiting"
    /\ run' = [run EXCEPT ![t].status = "failed"]
    /\ UNCHANGED <<conv, log, sess, ghosts>>

\* The history of a run, and that of a chat once retrieval has found something.
LoadHistory(q) ==
    /\ sess[q].pc = "loading"
    /\ sess' = [sess EXCEPT ![q].pc = IF IsChat(q) THEN "thinking" ELSE "asking",
                            ![q].window = IF IsChat(q) THEN ChatWindow(q) ELSE RunWindow(q)]
    /\ UNCHANGED <<rows, ghosts>>

\* The question is inserted, which needs the conversation,
Ask(q) ==
    /\ sess[q].pc = "asking"
    /\ Flush(q, Question(Turn(q), q), "asked") \/ ForeignKeyFails(q)
    /\ UNCHANGED <<conv, run>>

\* and committed before anything else is done.
CommitQuestion(q) ==
    /\ sess[q].pc = "asked"
    /\ Commit(q)
    /\ Goto(q, IF IsChat(q) THEN "retrieving" ELSE "creating")
    /\ UNCHANGED <<conv, run, ghosts>>

\* Retrieval finds something, finds nothing (a fixed answer, no model), or fails.
Retrieve(q) ==
    /\ sess[q].pc = "retrieving"
    /\ \/ (\E next \in {"loading", "answering"} : Goto(q, next)) /\ UNCHANGED ghosts
       \/ Reply(q, "no answer") /\ UNCHANGED <<aborted, contended>>
    /\ UNCHANGED rows

\* The model answers, or fails (an error, or nothing but blanks): 502.
Generate(q) ==
    /\ sess[q].pc = "thinking"
    /\ \/ Goto(q, "answering") /\ UNCHANGED ghosts
       \/ Reply(q, "no answer") /\ UNCHANGED <<aborted, contended>>
    /\ UNCHANGED rows

-----------------------------------------------------------------------------
(* Agent runs *)

\* The run row, which refers to the conversation, and its status running: two
\* commits between which only a crash matters, and leaves no answer either way.
CreateRun(q) ==
    LET t == Turn(q) IN
    /\ sess[q].pc = "creating"
    /\ \/ /\ conv
          /\ run' = [run EXCEPT ![t].status = "running", ![t].history = sess[q].window]
          /\ Goto(q, "working")
          /\ UNCHANGED <<log, ghosts>>
       \/ ForeignKeyFails(q) /\ UNCHANGED run
    /\ UNCHANGED conv

\* resume: the history is taken from the saved state.
Resume(q) ==
    LET t == Turn(q) IN
    /\ sess[q].pc = "resuming"
    /\ run' = [run EXCEPT ![t].status = "running"]
    /\ sess' = [sess EXCEPT ![q].pc = "working", ![q].window = run[t].history]
    /\ UNCHANGED <<conv, log, ghosts>>

SaveRun(q, status, pauses) ==
    run' = [run EXCEPT ![Turn(q)] = [status |-> status, pauses |-> pauses,
                                     history |-> sess[q].window,
                                     answered |-> status = "completed"]]

\* Variant: the answer is written by the first request of a run only.
FinishRunFirstOnly(q) ==
    /\ sess[q].pc = "working"
    /\ SaveRun(q, "completed", run[Turn(q)].pauses)
    /\ IF run[Turn(q)].pauses = 0 THEN Goto(q, "persisted") /\ UNCHANGED ghosts
       ELSE Reply(q, "no answer") /\ UNCHANGED <<aborted, contended>>
    /\ UNCHANGED <<conv, log>>

\* _persist_runtime_result, first transaction: the run has its answer,
FinishRun(q) ==
    /\ sess[q].pc = "working"
    /\ SaveRun(q, "completed", run[Turn(q)].pauses)
    /\ Goto(q, "persisted")
    /\ UNCHANGED <<conv, log, ghosts>>

\* fails,
FailRun(q) ==
    /\ sess[q].pc = "working"
    /\ SaveRun(q, "failed", run[Turn(q)].pauses)
    /\ Reply(q, "no answer")
    /\ UNCHANGED <<conv, log, aborted, contended>>

\* or waits for an approval.
PauseRun(q) ==
    /\ sess[q].pc = "working"
    /\ run[Turn(q)].pauses < MaxPauses
    /\ SaveRun(q, "waiting", run[Turn(q)].pauses + 1)
    /\ Reply(q, "no answer")
    /\ UNCHANGED <<conv, log, aborted, contended>>

\* refresh(run): a conversation deleted meanwhile has set conversation_id to NULL.
Refresh(q) ==
    /\ sess[q].pc = "persisted"
    /\ \/ conv /\ Goto(q, "answering") /\ UNCHANGED ghosts
       \/ ~conv /\ Reply(q, "no answer") /\ UNCHANGED <<aborted, contended>>
    /\ UNCHANGED rows

-----------------------------------------------------------------------------
(* The answer, of a chat and of a run *)

FlushAnswer(q) ==
    /\ sess[q].pc = "answering"
    /\ Flush(q, Answer(Turn(q), q), "answered") \/ ForeignKeyFails(q)
    /\ UNCHANGED <<conv, run>>

\* Variant: the response is sent without the commit.
ReplyUncommitted(q) ==
    /\ sess[q].pc = "answered"
    /\ Rollback(q)
    /\ Reply(q, "answered")
    /\ UNCHANGED <<conv, run, aborted, contended>>

CommitAnswer(q) ==
    /\ sess[q].pc = "answered"
    /\ Commit(q)
    /\ Reply(q, "answered")
    /\ UNCHANGED <<conv, run, aborted, contended>>

-----------------------------------------------------------------------------
(* The environment *)

\* DELETE of the conversation, of its knowledge base or of its user: messages go
\* with it.  It waits for sessions whose new message refers to the row.
DeleteConversation ==
    /\ conv
    /\ \A i \in DOMAIN log : log[i].lock = Nobody
    /\ conv' = FALSE
    /\ log' = <<>>
    /\ UNCHANGED <<run, sess, ghosts>>

\* The process dies or the connection is lost.
Abort(q) ==
    /\ sess[q].pc # "idle"
    /\ Rollback(q)
    /\ aborted' = aborted \cup {Turn(q)}
    /\ Reply(q, "no answer")
    /\ UNCHANGED <<conv, run, contended>>

Serve(q) ==
    \/ LoadHistory(q) \/ Ask(q) \/ CommitQuestion(q) \/ Retrieve(q) \/ Generate(q)
    \/ CreateRun(q) \/ Resume(q) \/ FinishRun(q) \/ FailRun(q) \/ PauseRun(q) \/ Refresh(q)
    \/ FlushAnswer(q) \/ CommitAnswer(q)

Arrive(q) ==
    \E t \in Turns : Begin(q, t) \/ BeginResume(q, t)

Next ==
    \/ \E q \in Requests : Serve(q) \/ Arrive(q) \/ Abort(q)
    \/ \E t \in Turns : Reject(t)
    \/ DeleteConversation

Spec == Init /\ [][Next]_vars

-----------------------------------------------------------------------------
(* Properties *)

Says(m, t, role) == m.turn = t /\ m.role = role /\ m.lock = Nobody

\* Rows, sessions and history hold what their columns and fields admit, and no
\* window is longer than the configured history.
TypeOK ==
    /\ conv \in BOOLEAN
    /\ log \in Seq(Messages)
    /\ run \in [Turns -> Runs]
    /\ sess \in [Requests -> Sessions]
    /\ told \in [Turns -> {"nothing", "no answer", "answered"}]
    /\ aborted \subseteq Turns
    /\ contended \subseteq Turns

\* The model gets the question once: the history it is shown beside it has no
\* message of the same turn, however the requests interleave and however often a
\* run is resumed (the id filter of ChatService._chat; AgentService.run reads the
\* history before it writes).
OwnTurnUnseen ==
    \A q \in Requests : sess[q].pc \in {"thinking", "working"} =>
        \A i \in DOMAIN sess[q].window : sess[q].window[i].turn # Turn(q)

\* A client that was told of an answer finds question and answer in the
\* conversation, in this order and committed, for as long as it exists.
TurnIsWhole ==
    conv => \A t \in Turns : told[t] = "answered" =>
        \E j \in DOMAIN log : /\ Says(log[j], t, "assistant")
                              /\ \E i \in 1 .. (j - 1) : Says(log[i], t, "user")

\* Run and answer are two commits: a completed run that nobody works on has its
\* answer in the conversation, unless a request about it was cut off.
CompletedRunIsAnswered ==
    conv => \A t \in Turns \ aborted :
        (run[t].status = "completed" /\ \A q \in Requests : Turn(q) # t) =>
            \E i \in DOMAIN log : Says(log[i], t, "assistant")

\* No question is answered twice, unless two requests resumed its run at the same
\* time.
OneAnswer ==
    \A t \in Turns \ contended :
        \A i, j \in DOMAIN log :
            log[i].turn = t /\ log[i].role = "assistant"
                /\ log[j].turn = t /\ log[j].role = "assistant" => i = j

\* The answer a completed run has put into its state.
OwnAnswer(t) == [turn |-> t, role |-> "assistant", cut |-> FALSE]

\* Variant: the first assistant message of the state.
ResponseTurnFirst(t) ==
    LET messages == run[t].history \o IF run[t].answered THEN <<OwnAnswer(t)>> ELSE <<>>
        answers == Kept(messages, {m \in SeenMessages : m.role = "assistant"})
    IN  IF answers = <<>> THEN Nobody ELSE Head(answers).turn

\* _run_response: the turn whose answer the response about run t carries, the last
\* assistant message of the state, which begins with the history.
ResponseTurn(t) ==
    LET messages == run[t].history \o IF run[t].answered THEN <<OwnAnswer(t)>> ELSE <<>>
        answers == Kept(messages, {m \in SeenMessages : m.role = "assistant"})
    IN  IF answers = <<>> THEN Nobody ELSE answers[Len(answers)].turn

\* The response about a completed run carries the answer to its own question, also
\* when the run began with a history of other answers.
ResponseIsOwn ==
    \A t \in Turns : run[t].status = "completed" => ResponseTurn(t) = t

\* The window shows the newest of these messages, as many as the count and the budget
\* allow and no fewer: one more would exceed one of the two, and where there is a
\* message at all the newest is shown, cut if it is longer than the budget by itself.
ShowsNewest(window, messages) ==
    LET n == Len(window)
    IN  /\ n <= Len(messages) /\ n <= History
        /\ \A i \in 1 .. n : window[i] = Seen(messages[Len(messages) - n + i])
        /\ n > 1 => Tokens(messages, n) <= Budget
        /\ n < Len(messages) /\ n < History => n > 0 /\ Tokens(messages, n + 1) > Budget

\* Whenever a history is read, it is the newest messages of other turns that are
\* committed, as many as count and budget allow: the question just written, which is
\* shown beside the history, costs no place in it and no tokens.
WindowIsFull ==
    [][\A q \in Requests : (sess[q].pc = "loading" /\ sess'[q].pc \in {"thinking", "asking"}) =>
          ShowsNewest(sess'[q].window,
                      Kept(log, {m \in OfOthers(Turn(q)) : m.lock = Nobody}))]_vars
=============================================================================
