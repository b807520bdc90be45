------------------------ MODULE ConversationsProofs ------------------------
(***************************************************************************)
(* Proofs about Conversations.  The invariants come in layers, each proved *)
(* with the ones before it.                                                *)
(***************************************************************************)
EXTENDS Conversations, SelectionProofs

-----------------------------------------------------------------------------
(* The inductive invariant *)

\* The messages, without their order.
Written == {log[i] : i \in DOMAIN log}

\* Every session but an idle one is about a turn.
SessionHasTurn == \A q \in Requests : sess[q].pc = "idle" <=> Turn(q) = Nobody

Types == TypeOK /\ SessionHasTurn

\* Chats and runs go through phases of their own,
PhasesOfKind ==
    \A q \in Requests :
        sess[q].pc \in IF IsChat(q)
                       THEN {"idle", "asking", "asked", "retrieving", "loading", "thinking",
                             "answering", "answered"}
                       ELSE {"loading", "asking", "asked", "creating", "resuming", "working",
                             "persisted", "answering", "answered"}

\* and only agents have runs.
RunsOfAgents == \A t \in Turns : run[t].status # "absent" => t \in AgentTurns

\* A chat, and the first request of a run until the run has its row,
First(q) ==
    /\ sess[q].pc # "idle"
    /\ IsChat(q) \/ sess[q].pc \in {"loading", "asking", "asked", "creating"}

\* has its turn to itself.
FirstIsAlone ==
    \A q \in Requests : First(q) =>
        /\ told[Turn(q)] = "nothing"
        /\ run[Turn(q)].status = "absent"
        /\ \A p \in Requests : Turn(p) = Turn(q) => p = q

NoRunYet == \A t \in Turns : ~Started(t) => run[t].status = "absent"

Control == PhasesOfKind /\ RunsOfAgents /\ FirstIsAlone /\ NoRunYet

\* A message that is not committed is that of a session between flush and commit,
OwnLocks ==
    \A m \in Written : m.lock # Nobody =>
        /\ m.turn = Turn(m.lock)
        /\ sess[m.lock].pc = IF m.role = "user" THEN "asked" ELSE "answered"

\* which has one.
Flushed ==
    \A q \in Requests :
        /\ sess[q].pc = "asked" => Question(Turn(q), q) \in Written
        /\ sess[q].pc = "answered" => Answer(Turn(q), q) \in Written

\* Nobody writes for a turn before its first request does,
NothingYet ==
    \A m \in Written :
        /\ Started(m.turn)
        /\ \A q \in Requests : Turn(q) = m.turn =>
              sess[q].pc # "asking" /\ (sess[q].pc = "loading" => IsChat(q))

\* which answers at last.
NoAnswerYet ==
    \A m \in Written : m.role = "assistant" =>
        \A q \in Requests : Turn(q) = m.turn /\ First(q) => sess[q].pc = "answered"

Writing == OwnLocks /\ Flushed /\ NothingYet /\ NoAnswerYet

\* The turns of which a message is committed.
Asked == {t \in Turns : Question(t, Nobody) \in Written}
Replied == {t \in Turns : Answer(t, Nobody) \in Written}

\* The phases in which the question of a turn is committed.
Past(q) ==
    /\ sess[q].pc \notin {"idle", "asking", "asked"}
    /\ sess[q].pc = "loading" => IsChat(q)

\* What is committed stays as long as the conversation: the question of every turn
\* that has got that far,
QuestionStays ==
    conv => /\ \A q \in Requests : Past(q) => Turn(q) \in Asked
            /\ \A t \in Turns : run[t].status # "absent" => t \in Asked

\* and the answer a client was told of.
AnswerStays == conv => \A t \in Turns : told[t] = "answered" => t \in Replied

\* A completed run has its answer or somebody who is about to write it.
Writes(q) == sess[q].pc \in {"persisted", "answering", "answered"}

AnswerComes ==
    conv => \A t \in Turns \ aborted : run[t].status = "completed" =>
        t \in Replied \/ \E q \in Requests : Turn(q) = t /\ Writes(q)

Keeping == QuestionStays /\ AnswerStays /\ AnswerComes

\* The order of the messages.
Once(t, role) ==
    \A i, j \in DOMAIN log :
        log[i].turn = t /\ log[i].role = role /\ log[j].turn = t /\ log[j].role = role => i = j

OneQuestion == \A t \in Turns : Once(t, "user")

QuestionFirst ==
    \A j \in DOMAIN log : log[j].role = "assistant" =>
        \E i \in 1 .. (j - 1) : Says(log[i], log[j].turn, "user")

Order == OneQuestion /\ QuestionFirst

\* Requests that keep apart: one at a time on a turn,
OneAtATime ==
    \A p, q \in Requests : Turn(p) = Turn(q) /\ Turn(q) \in Turns \ contended => p = q

\* a run that waits is not worked on,
WaitingRests ==
    \A q \in Requests : Turn(q) \in Turns \ contended /\ run[Turn(q)].status = "waiting" =>
        sess[q].pc = "resuming"

\* and there is no answer while one is still to come.
NoSecondAnswer ==
    \A m \in Written : m.role = "assistant" /\ m.turn \notin contended =>
        /\ run[m.turn].status # "waiting"
        /\ \A q \in Requests : Turn(q) = m.turn => sess[q].pc = "answered"

Apart == OneAtATime /\ WaitingRests /\ NoSecondAnswer

\* No history shows a turn to itself.
HistoryOfOthers ==
    /\ \A q \in Requests : \A i \in DOMAIN sess[q].window : sess[q].window[i].turn # Turn(q)
    /\ \A t \in Turns : \A i \in DOMAIN run[t].history : run[t].history[i].turn # t

CompletedHasAnswer == \A t \in Turns : run[t].status = "completed" => run[t].answered

-----------------------------------------------------------------------------
(* Histories *)

\* Sizes are positive, and so is the budget.
LEMMA CostTyped ==
    /\ Budget \in Nat
    /\ \A m \in Messages : Cost(m) \in Nat
<1>1. Budget \in Nat /\ Size \in [Turns -> [{"user", "assistant"} -> Nat \ {0}]]
  BY ConversationAssumption DEF ConversationAssumption
<1>2. ASSUME NEW m \in Messages PROVE Cost(m) \in Nat
  <2>1. m.turn \in Turns /\ m.role \in {"user", "assistant"}
    BY DEF Messages
  <2>2. Size[m.turn] \in [{"user", "assistant"} -> Nat \ {0}]
    BY <1>1, <2>1
  <2> QED
    BY <2>1, <2>2 DEF Cost
<1> QED
  BY <1>1, <1>2

\* What the recursion of Tokens says.
SummedBy(f, s, n) ==
    f = [i \in 0 .. n |-> IF i = 0 THEN 0 ELSE f[i - 1] + Cost(s[Len(s) - i + 1])]

LEMMA TokensRecursion ==
    ASSUME NEW s \in Seq(Messages), NEW n \in 0 .. Len(s)
    PROVE  \E f : /\ f[0] = 0
                  /\ \A i \in 1 .. n : f[i] = f[i - 1] + Cost(s[Len(s) - i + 1])
                  /\ \A i \in 0 .. n : f[i] \in Nat
                  /\ Tokens(s, n) = f[n]
<1> DEFINE t(i) == Cost(s[Len(s) - i + 1])
<1>0. n \in Nat
  OBVIOUS
<1>1. \A i \in 1 .. n : t(i) \in Nat
  <2>1. \A i \in 1 .. n : s[Len(s) - i + 1] \in Messages
    OBVIOUS
  <2> QED
    BY <2>1, CostTyped
<1> HIDE DEF t
<1>2. PICK f : /\ f \in [0 .. n -> Nat] /\ f[0] = 0
               /\ \A i \in 1 .. n : f[i] = f[i - 1] + t(i)
  <2> DEFINE c == [i \in 1 .. n |-> t(i)]
  <2>1. c \in [1 .. n -> Nat] /\ \A i \in 1 .. n : c[i] = t(i)
    BY <1>1
  <2> HIDE DEF c
  <2>2. \E f \in [0 .. n -> Nat] : f[0] = 0 /\ \A i \in 1 .. n : f[i] = f[i - 1] + c[i]
    BY <1>0, <2>1, RunningTotals
  <2> QED
    BY <2>1, <2>2
<1>3. \A i \in 0 .. n : f[i] = IF i = 0 THEN 0 ELSE f[i - 1] + t(i)
  <2>1. \A i \in 0 .. n : i = 0 \/ i \in 1 .. n
    OBVIOUS
  <2>2. \A i \in 1 .. n : i # 0
    OBVIOUS
  <2> QED
    BY <1>2, <2>1, <2>2
<1>4. SummedBy(f, s, n)
  BY <1>2, <1>3 DEF SummedBy, t
<1> DEFINE h == CHOOSE h : SummedBy(h, s, n)
<1>5. SummedBy(h, s, n)
  BY <1>4, Zenon
<1>6. Tokens(s, n) = h[n]
  BY Zenon DEF Tokens, SummedBy
<1> HIDE DEF h
<1> DEFINE e(i) == IF i = 0 THEN 0 ELSE h[i - 1] + t(i)
<1>7. h = [i \in 0 .. n |-> e(i)]
  BY <1>5 DEF SummedBy, t
<1> HIDE DEF e
<1>8. \A i \in 0 .. n : h[i] = e(i)
  BY <1>7
<1>9. h[0] = 0
  BY <1>8 DEF e
<1>10. \A i \in 1 .. n : h[i] = e(i)
  BY <1>8
<1>11. \A i \in 1 .. n : h[i] = h[i - 1] + t(i)
  BY <1>10 DEF e
<1>12. \A i \in 0 .. n : h[i] = f[i]
  <2>1. Parallel(h, f, n)
    BY <1>2, <1>11 DEF Parallel
  <2>2. h[0] = f[0]
    BY <1>2, <1>9
  <2> QED
    BY <1>0, <2>1, <2>2, Agreement, SMTT(30)
<1>13. \A i \in 0 .. n : h[i] \in Nat
  BY <1>2, <1>12
<1> QED
  BY <1>6, <1>9, <1>11, <1>13 DEF t

LEMMA TokensTyped ==
    ASSUME NEW s \in Seq(Messages), NEW n \in 0 .. Len(s)
    PROVE  Tokens(s, n) \in Nat
<1>1. n \in 0 .. n
  OBVIOUS
<1> QED
  BY <1>1, TokensRecursion

\* What is cut off a list does not change what its newest messages cost.
LEMMA TokensOfTail ==
    ASSUME NEW s \in Seq(Messages), NEW r \in Seq(Messages), Len(r) <= Len(s),
           \A i \in 1 .. Len(r) : r[i] = s[Len(s) - Len(r) + i], NEW n \in 0 .. Len(r)
    PROVE  Tokens(r, n) = Tokens(s, n)
<1>1. n \in 0 .. Len(s) /\ n \in Nat /\ n \in 0 .. n
  OBVIOUS
<1>2. ASSUME NEW i \in 1 .. n
      PROVE  r[Len(r) - i + 1] = s[Len(s) - i + 1]
  <2> DEFINE j == Len(r) - i + 1
  <2>1. j \in 1 .. Len(r) /\ Len(s) - Len(r) + j = Len(s) - i + 1
    BY <1>1
  <2> HIDE DEF j
  <2>2. r[j] = s[Len(s) - i + 1]
    BY <2>1
  <2> QED
    BY <2>2 DEF j
<1>3. PICK f : /\ f[0] = 0 /\ Tokens(r, n) = f[n]
               /\ \A i \in 1 .. n : f[i] = f[i - 1] + Cost(r[Len(r) - i + 1])
  BY TokensRecursion
<1>4. PICK g : /\ g[0] = 0 /\ Tokens(s, n) = g[n]
               /\ \A i \in 1 .. n : g[i] = g[i - 1] + Cost(s[Len(s) - i + 1])
  BY <1>1, TokensRecursion
<1>5. Parallel(f, g, n)
  BY <1>2, <1>3, <1>4 DEF Parallel
<1>6. \A i \in 0 .. n : f[i] = g[i]
  BY <1>1, <1>3, <1>4, <1>5, Agreement
<1> QED
  BY <1>1, <1>3, <1>4, <1>6

\* What the recursion of Room says.
TakenBy(f, s) ==
    f = [k \in 0 .. Len(s) |->
            IF k = 0 THEN 0
            ELSE IF f[k - 1] = k - 1 /\ Fits(s, k) THEN k ELSE f[k - 1]]

LEMMA RoomRecursion ==
    ASSUME NEW s \in Seq(Messages)
    PROVE  \E f : /\ f[0] = 0
                  /\ \A k \in 1 .. Len(s) :
                        f[k] = IF f[k - 1] = k - 1 /\ Fits(s, k) THEN k ELSE f[k - 1]
                  /\ Room(s) = f[Len(s)]
<1> DEFINE n == Len(s)
           X == Nat
           x == 0
           step == [k \in 1 .. n |-> [t \in X |-> IF t = k - 1 /\ Fits(s, k) THEN k ELSE t]]
<1>1. n \in Nat /\ x \in X /\ step \in [1 .. n -> [X -> X]]
  OBVIOUS
<1>2. \A k \in 1 .. n : \A t \in X : step[k][t] = IF t = k - 1 /\ Fits(s, k) THEN k ELSE t
  OBVIOUS
<1> HIDE DEF n, X, x, step
<1>3. PICK f : /\ f \in [0 .. n -> X]
               /\ f[0] = x /\ \A k \in 1 .. n : f[k] = step[k][f[k - 1]]
  <2>1. Steps(X, x, n, step)
    BY <1>1 DEF Steps
  <2>2. PICK f : Follows(f, X, x, n, step)
    BY <2>1, Iteration
  <2> QED
    BY <2>2 DEF Follows
<1>4. ASSUME NEW k \in 0 .. n
      PROVE  f[k] = IF k = 0 THEN 0
                    ELSE IF f[k - 1] = k - 1 /\ Fits(s, k) THEN k ELSE f[k - 1]
  <2>1. CASE k = 0
    BY <1>3, <2>1 DEF x
  <2>2. CASE k # 0
    <3>1. k \in 1 .. n /\ k - 1 \in 0 .. n
      BY <1>1, <2>2
    <3>2. f[k - 1] \in X /\ f[k] = step[k][f[k - 1]]
      BY <1>3, <3>1
    <3> QED
      BY <1>2, <2>2, <3>1, <3>2
  <2> QED
    BY <2>1, <2>2
<1>5. TakenBy(f, s)
  BY <1>3, <1>4 DEF TakenBy, n
<1> DEFINE h == CHOOSE h : TakenBy(h, s)
<1>6. TakenBy(h, s)
  BY <1>5, Zenon
<1>7. Room(s) = h[n]
  BY Zenon DEF Room, TakenBy, n
<1> HIDE DEF h
<1> DEFINE e(k) == IF k = 0 THEN 0
                   ELSE IF h[k - 1] = k - 1 /\ Fits(s, k) THEN k ELSE h[k - 1]
<1>8. h = [k \in 0 .. n |-> e(k)]
  BY <1>6 DEF TakenBy, n
<1> HIDE DEF e
<1>9. \A k \in 0 .. n : h[k] = e(k)
  BY <1>8
<1>10. h[0] = 0
  BY <1>1, <1>9 DEF e
<1>11. ASSUME NEW k \in 1 .. n
       PROVE  h[k] = IF h[k - 1] = k - 1 /\ Fits(s, k) THEN k ELSE h[k - 1]
  <2>1. k \in 0 .. n /\ k # 0
    BY <1>1
  <2> QED
    BY <1>9, <2>1 DEF e
<1> QED
  BY <1>7, <1>10, <1>11 DEF n

\* The loop takes the longest run of newest messages that fits.
LEMMA RoomFacts ==
    ASSUME NEW s \in Seq(Messages)
    PROVE  LET r == Room(s) IN
               /\ r \in 0 .. Len(s)
               /\ r > 1 => Tokens(s, r) <= Budget
               /\ r < Len(s) => r > 0 /\ Tokens(s, r + 1) > Budget
<1>1. PICK f : /\ f[0] = 0 /\ Room(s) = f[Len(s)]
               /\ \A k \in 1 .. Len(s) :
                     f[k] = IF f[k - 1] = k - 1 /\ Fits(s, k) THEN k ELSE f[k - 1]
  BY RoomRecursion
<1> DEFINE Good(k, t) == /\ t \in 0 .. k
                         /\ t > 1 => Tokens(s, t) <= Budget
                         /\ t < k => t > 0 /\ Tokens(s, t + 1) > Budget
           T == {k \in Nat : k <= Len(s) => Good(k, f[k])}
<1>2. Budget \in Nat /\ Len(s) \in Nat
  BY CostTyped
<1>3. Good(0, f[0])
  BY <1>1
<1>4. ASSUME NEW k \in Nat, k + 1 <= Len(s), Good(k, f[k])
      PROVE  Good(k + 1, f[k + 1])
  <2>1. k + 1 \in 1 .. Len(s) /\ (k + 1) - 1 = k /\ k + 1 \in 0 .. Len(s)
    BY <1>2, <1>4
  <2>2. f[k + 1] = IF f[k] = k /\ Fits(s, k + 1) THEN k + 1 ELSE f[k]
    BY <1>1, <2>1
  <2>3. Tokens(s, k + 1) \in Nat
    BY <2>1, TokensTyped
  <2>4. CASE f[k] = k /\ Fits(s, k + 1)
    <3>1. f[k + 1] = k + 1
      BY <2>2, <2>4
    <3>2. k + 1 > 1 => Tokens(s, k + 1) <= Budget
      BY <2>4 DEF Fits
    <3> QED
      BY <3>1, <3>2
  <2>5. CASE f[k] = k /\ ~Fits(s, k + 1)
    <3>1. f[k + 1] = k
      BY <2>2, <2>5
    <3>2. k + 1 # 1 /\ ~(Tokens(s, k + 1) <= Budget)
      BY <2>5 DEF Fits
    <3>3. k > 0 /\ Tokens(s, k + 1) > Budget
      BY <1>2, <2>3, <3>2
    <3>4. k > 1 => Tokens(s, k) <= Budget
      BY <1>4, <2>5
    <3> QED
      BY <3>1, <3>3, <3>4
  <2>6. CASE f[k] # k
    <3>1. f[k + 1] = f[k]
      BY <2>2, <2>6
    <3>2. f[k] \in 0 .. k /\ f[k] < k
      BY <1>4, <2>6
    <3> QED
      BY <1>4, <3>1, <3>2
  <2> QED
    BY <2>4, <2>5, <2>6
<1> HIDE DEF Good
<1>5. 0 \in T
  BY <1>3
<1>6. \A k \in Nat : k \in T => k + 1 \in T
  BY <1>2, <1>4
<1> HIDE DEF T
<1>7. Len(s) \in T
  BY <1>2, <1>5, <1>6, SetInduction
<1>8. Good(Len(s), f[Len(s)])
  BY <1>2, <1>7 DEF T
<1> QED
  BY <1>1, <1>8 DEF Good

\* The last History messages of a list are its end.
LEMMA NewestTail ==
    ASSUME History \in Nat, NEW s \in Seq(Messages)
    PROVE  LET r == Newest(s, History) IN
               /\ r \in Seq(Messages) /\ Len(r) \in Nat
               /\ Len(r) <= Len(s) /\ Len(r) <= History
               /\ Len(r) < Len(s) => Len(r) = History
               /\ \A i \in 1 .. Len(r) : r[i] = s[Len(s) - Len(r) + i]
<1> DEFINE r == Newest(s, History)
           Ending(t) == /\ t \in Seq(Messages) /\ Len(t) \in Nat
                        /\ Len(t) <= Len(s) /\ Len(t) <= History
                        /\ Len(t) < Len(s) => Len(t) = History
                        /\ \A i \in 1 .. Len(t) : t[i] = s[Len(s) - Len(t) + i]
<1>1. Len(s) \in Nat
  OBVIOUS
<1>2. ASSUME Len(s) >= History PROVE Ending(r)
  <2>1. /\ r \in Seq(Messages) /\ Len(r) = History
        /\ \A i \in 1 .. History : r[i] = s[Len(s) - History + i]
    BY <1>2, NewestEnough
  <2> HIDE DEF r
  <2> QED
    BY <1>1, <1>2, <2>1
<1>3. ASSUME Len(s) <= History PROVE Ending(r)
  <2>1. r = s
    BY <1>3, NewestWhole
  <2>2. \A i \in 1 .. Len(s) : Len(s) - Len(s) + i = i
    BY <1>1
  <2> HIDE DEF r
  <2> QED
    BY <1>1, <1>3, <2>1, <2>2
<1> HIDE DEF Ending
<1>4. Ending(r)
  <2> HIDE DEF r
  <2> QED
    BY <1>1, <1>2, <1>3
<1> QED
  BY <1>4 DEF Ending

\* What is made of a list is a window, and shows the newest of it.
LEMMA WindowedShows ==
    ASSUME History \in Nat, NEW s \in Seq(Messages)
    PROVE  Windowed(s) \in Windows /\ ShowsNewest(Windowed(s), s)
<1> DEFINE newest == Newest(s, History)
           l == Len(newest)
           n == Room(newest)
           shown == Newest(newest, n)
           w == [i \in 1 .. n |-> Seen(shown[i])]
<1>1. /\ newest \in Seq(Messages) /\ l \in Nat /\ l <= Len(s) /\ l <= History
      /\ l < Len(s) => l = History
      /\ \A i \in 1 .. l : newest[i] = s[Len(s) - l + i]
  BY NewestTail
<1>2. Len(s) \in Nat
  OBVIOUS
<1>3. /\ n \in 0 .. l
      /\ n > 1 => Tokens(newest, n) <= Budget
      /\ n < l => n > 0 /\ Tokens(newest, n + 1) > Budget
  BY <1>1, RoomFacts
<1>4. \A k \in 0 .. l : Tokens(newest, k) = Tokens(s, k)
  BY <1>1, TokensOfTail
<1> HIDE DEF newest, l, n
<1>5. /\ shown \in Seq(Messages) /\ Len(shown) = n
      /\ \A i \in 1 .. n : shown[i] = newest[l - n + i]
  <2>1. n \in Nat /\ Len(newest) = l /\ Len(newest) >= n
    BY <1>1, <1>3 DEF l
  <2> QED
    BY <1>1, <2>1, NewestEnough
<1> HIDE DEF shown
<1>6. Windowed(s) = w
  <2>1. DOMAIN shown = 1 .. n
    BY <1>5
  <2> QED
    BY <2>1 DEF Windowed, newest, n, shown
<1>7. n \in Nat /\ n <= History
  BY <1>1, <1>3
<1>8. ASSUME NEW i \in 1 .. n PROVE Seen(shown[i]) \in SeenMessages
  <2>1. shown[i] \in Messages
    BY <1>5, ElementOfSeq
  <2>2. (Cost(shown[i]) > Budget) \in BOOLEAN
    BY <2>1, CostTyped
  <2> QED
    BY <2>1, <2>2 DEF Messages, Seen, SeenMessages
<1>9. w \in Seq(SeenMessages) /\ Len(w) = n /\ \A i \in 1 .. n : w[i] = Seen(shown[i])
  BY <1>7, <1>8
<1> HIDE DEF w
<1>10. w \in Windows
  BY <1>7, <1>9 DEF Windows
<1>11. ASSUME NEW i \in 1 .. n PROVE w[i] = Seen(s[Len(s) - n + i])
  <2>1. shown[i] = newest[l - n + i] /\ l - n + i \in 1 .. l
    BY <1>1, <1>3, <1>5
  <2>2. newest[l - n + i] = s[Len(s) - l + (l - n + i)]
    BY <1>1, <2>1
  <2>3. Len(s) - l + (l - n + i) = Len(s) - n + i
    BY <1>1, <1>2, <1>3
  <2> QED
    BY <1>9, <2>1, <2>2, <2>3
<1>12. n > 1 => Tokens(s, n) <= Budget
  BY <1>3, <1>4
<1>13. n < Len(s) /\ n < History => n > 0 /\ Tokens(s, n + 1) > Budget
  <2> SUFFICES ASSUME n < Len(s), n < History PROVE n > 0 /\ Tokens(s, n + 1) > Budget
    OBVIOUS
  <2>1. n < l /\ n + 1 \in 0 .. l
    BY <1>1, <1>2, <1>3
  <2> QED
    BY <1>3, <1>4, <2>1
<1>14. n <= Len(s) /\ n <= History
  BY <1>1, <1>2, <1>3
<1>15. ShowsNewest(w, s)
  BY <1>9, <1>11, <1>12, <1>13, <1>14 DEF ShowsNewest
<1> QED
  BY <1>6, <1>10, <1>15

LEMMA WindowOf ==
    ASSUME History \in Nat, NEW s \in Seq(Messages), NEW t,
           \A i \in 1 .. Len(s) : s[i].turn # t
    PROVE  \A i \in DOMAIN Windowed(s) : Windowed(s)[i].turn # t
<1> DEFINE w == Windowed(s)
           n == Len(w)
<1>1. w \in Windows /\ ShowsNewest(w, s)
  BY WindowedShows
<1> HIDE DEF w
<1>2. w \in Seq(SeenMessages)
  BY <1>1 DEF Windows
<1>3. DOMAIN w = 1 .. n /\ n \in Nat /\ Len(s) \in Nat
  BY <1>2
<1>4. n <= Len(s) /\ \A i \in 1 .. n : w[i] = Seen(s[Len(s) - n + i])
  BY <1>1 DEF ShowsNewest
<1>5. ASSUME NEW i \in 1 .. n PROVE w[i].turn # t
  <2>1. Len(s) - n + i \in 1 .. Len(s)
    BY <1>3, <1>4
  <2>2. \A m : Seen(m).turn = m.turn
    BY DEF Seen
  <2> QED
    BY <1>4, <2>1, <2>2
<1>6. \A i \in DOMAIN w : w[i].turn # t
  BY <1>3, <1>5
<1> QED
  BY <1>6 DEF w

\* The queries behind a history.
LEMMA ListTyped ==
    ASSUME log \in Seq(Messages), NEW q, NEW n \in Nat
    PROVE  ListMessages(q, n) \in Seq(Messages)
BY KeptTyped, NewestTyped DEF ListMessages

LEMMA WindowsTyped ==
    ASSUME log \in Seq(Messages), History \in Nat, NEW q
    PROVE  ChatWindow(q) \in Windows /\ RunWindow(q) \in Windows
<1>1. /\ ListMessages(q, History) \in Seq(Messages)
      /\ ListMessages(q, History + 1) \in Seq(Messages)
  BY ListTyped
<1>2. Kept(ListMessages(q, History + 1), OfOthers(Turn(q))) \in Seq(Messages)
  BY <1>1, KeptTyped
<1> QED
  BY <1>1, <1>2, WindowedShows DEF ChatWindow, RunWindow

-----------------------------------------------------------------------------
(* Types *)

\* The log, and what is written, after a flush,
LEMMA Appended ==
    ASSUME log \in Seq(Messages), NEW m \in Messages, log' = Append(log, m)
    PROVE  /\ log' \in Seq(Messages)
           /\ Len(log) \in Nat /\ Len(log') = Len(log) + 1
           /\ DOMAIN log = 1 .. Len(log) /\ DOMAIN log' = 1 .. Len(log) + 1
           /\ log'[Len(log) + 1] = m
           /\ \A i \in 1 .. Len(log) : log'[i] = log[i]
           /\ Written' = Written \cup {m}
<1>1. /\ log' \in Seq(Messages)
      /\ Len(log) \in Nat /\ Len(log') = Len(log) + 1
      /\ DOMAIN log = 1 .. Len(log) /\ DOMAIN log' = 1 .. Len(log) + 1
      /\ log'[Len(log) + 1] = m
      /\ \A i \in 1 .. Len(log) : log'[i] = log[i]
  OBVIOUS
<1>2. Written' = Written \cup {m}
  BY <1>1 DEF Written
<1> QED
  BY <1>1, <1>2

\* a commit
Released(m, q) == IF m.lock = q THEN [m EXCEPT !.lock = Nobody] ELSE m

LEMMA Committed ==
    ASSUME log \in Seq(Messages), NEW q, Commit(q)
    PROVE  /\ log' \in Seq(Messages)
           /\ DOMAIN log' = DOMAIN log
           /\ \A i \in DOMAIN log : log'[i] = Released(log[i], q)
           /\ Written' = {Released(m, q) : m \in Written}
<1>1. DOMAIN log' = DOMAIN log /\ \A i \in DOMAIN log : log'[i] = Released(log[i], q)
  BY DEF Commit, Released
<1>2. \A m \in Messages : Released(m, q) \in Messages
  BY DEF Messages, Released
<1>3. Len(log) \in Nat /\ DOMAIN log = 1 .. Len(log) /\ \A i \in 1 .. Len(log) : log[i] \in Messages
  BY LenProperties
<1>4. log' = [i \in 1 .. Len(log) |-> Released(log[i], q)]
  BY <1>3 DEF Commit, Released
<1>5. \A i \in 1 .. Len(log) : Released(log[i], q) \in Messages
  BY <1>2, <1>3
<1>6. log' \in Seq(Messages)
  BY <1>3, <1>4, <1>5
<1>7. Written' = {Released(m, q) : m \in Written}
  BY <1>1 DEF Written
<1> QED
  BY <1>1, <1>6, <1>7

\* and a rollback.
LEMMA RolledBack ==
    ASSUME log \in Seq(Messages), NEW q, Rollback(q)
    PROVE  /\ log' \in Seq(Messages)
           /\ \E at : Places(at, log', log, {m \in Messages : m.lock # q})
           /\ Written' = {m \in Written : m.lock # q}
<1> DEFINE S == {m \in Messages : m.lock # q}
<1>1. log' = Kept(log, S)
  BY DEF Rollback
<1>2. log' \in Seq(Messages)
  BY <1>1, KeptTyped
<1>3. PICK at : Places(at, log', log, S)
  BY <1>1, KeptPlaces
<1>4. /\ DOMAIN log = 1 .. Len(log) /\ \A i \in 1 .. Len(log) : log[i] \in Messages
      /\ DOMAIN log' = 1 .. Len(log')
  BY <1>2, LenProperties
<1>5. \A m : m \in Written' => m \in Written /\ m \in S
  BY <1>3, <1>4 DEF Written, Places
<1>6. \A m : m \in Written /\ m \in S => m \in Written'
  BY <1>3, <1>4 DEF Written, Places
<1>7. \A m \in Written : m \in Messages
  BY <1>4 DEF Written
<1> QED
  BY <1>2, <1>3, <1>5, <1>6, <1>7

-----------------------------------------------------------------------------
(* What a step does, one kind of step after the other *)

OthersStay(q) == \A p \in Requests : p # q => sess'[p] = sess[p]

SessionTo(q, pc) == sess'[q].pc = pc /\ sess'[q].turn = Turn(q) /\ OthersStay(q)

SessionEnds(q) == sess'[q].pc = "idle" /\ sess'[q].turn = Nobody /\ OthersStay(q)

ClientTold(t, what) == told'[t] = what /\ \A u \in Turns : u # t => told'[u] = told[u]

RunTo(t, status) == run'[t].status = status /\ \A u \in Turns : u # t => run'[u] = run[u]

Begins(q, t) ==
    /\ sess[q].pc = "idle" /\ ~Started(t)
    /\ sess'[q].pc = IF t \in AgentTurns THEN "loading" ELSE "asking"
    /\ sess'[q].turn = t /\ OthersStay(q)
    /\ UNCHANGED <<rows, ghosts>>

Resumes(q, t) ==
    /\ sess[q].pc = "idle" /\ run[t].status = "waiting"
    /\ sess'[q].pc = "resuming" /\ sess'[q].turn = t /\ OthersStay(q)
    /\ contended' = contended \cup {u \in {t} : \E p \in Requests : Turn(p) = u}
    /\ UNCHANGED <<rows, told, aborted>>

Rejects(t) ==
    /\ run[t].status = "waiting" /\ RunTo(t, "failed")
    /\ UNCHANGED <<conv, log, sess, ghosts>>

\* A session moves on,
Moves(q, from, to) ==
    /\ sess[q].pc = from /\ SessionTo(q, to)
    /\ \/ from = "loading" /\ to = IF IsChat(q) THEN "thinking" ELSE "asking"
       \/ from = "retrieving" /\ to \in {"loading", "answering"}
       \/ from = "thinking" /\ to = "answering"
       \/ from = "persisted" /\ to = "answering" /\ conv
    /\ UNCHANGED <<rows, ghosts>>

\* ends without an answer
Quits(q) ==
    /\ \/ sess[q].pc \in {"retrieving", "thinking"}
       \/ sess[q].pc \in {"asking", "creating", "persisted", "answering"} /\ ~conv
    /\ SessionEnds(q) /\ ClientTold(Turn(q), "no answer")
    /\ UNCHANGED <<rows, aborted, contended>>

\* or writes a message.
Flushes(q, m, from, to) ==
    /\ sess[q].pc = from /\ SessionTo(q, to) /\ conv
    /\ \/ from = "asking" /\ to = "asked" /\ m = Question(Turn(q), q)
       \/ from = "answering" /\ to = "answered" /\ m = Answer(Turn(q), q)
    /\ log' = Append(log, m)
    /\ UNCHANGED <<conv, run, ghosts>>

CommitsQuestion(q) ==
    /\ sess[q].pc = "asked"
    /\ SessionTo(q, IF IsChat(q) THEN "retrieving" ELSE "creating")
    /\ Commit(q)
    /\ UNCHANGED <<conv, run, ghosts>>

CommitsAnswer(q) ==
    /\ sess[q].pc = "answered" /\ SessionEnds(q) /\ ClientTold(Turn(q), "answered")
    /\ Commit(q)
    /\ UNCHANGED <<conv, run, aborted, contended>>

\* A run goes on
Runs1(q, from, to, status) ==
    /\ sess[q].pc = from /\ SessionTo(q, to) /\ RunTo(Turn(q), status)
    /\ \/ from = "creating" /\ to = "working" /\ status = "running" /\ conv
       \/ from = "resuming" /\ to = "working" /\ status = "running"
       \/ from = "working" /\ to = "persisted" /\ status = "completed"
    /\ UNCHANGED <<conv, log, ghosts>>

\* or ends, for the time being.
Stops(q, status) ==
    /\ sess[q].pc = "working" /\ status \in {"failed", "waiting"}
    /\ SessionEnds(q) /\ RunTo(Turn(q), status) /\ ClientTold(Turn(q), "no answer")
    /\ UNCHANGED <<conv, log, aborted, contended>>

Aborts(q) ==
    /\ sess[q].pc # "idle" /\ SessionEnds(q) /\ ClientTold(Turn(q), "no answer")
    /\ Rollback(q)
    /\ aborted' = aborted \cup {Turn(q)}
    /\ UNCHANGED <<conv, run, contended>>

Deletes ==
    /\ conv /\ (\A m \in Written : m.lock = Nobody)
    /\ ~conv' /\ Written' = {} /\ log' = <<>>
    /\ UNCHANGED <<run, sess, ghosts>>

SessionStep(q) ==
    \/ \E t \in Turns : Begins(q, t) \/ Resumes(q, t)
    \/ \E from, to \in Phases : Moves(q, from, to)
    \/ Quits(q)
    \/ \E from, to \in Phases, m \in Messages : Flushes(q, m, from, to)
    \/ CommitsQuestion(q) \/ CommitsAnswer(q)
    \/ \E from, to \in Phases, status \in {"running", "completed"} : Runs1(q, from, to, status)
    \/ \E status \in {"failed", "waiting"} : Stops(q, status)
    \/ Aborts(q)

Step ==
    \/ \E q \in Requests : SessionStep(q)
    \/ \E t \in Turns : Rejects(t)
    \/ Deletes

\* Sessions and replies.
LEMMA EmptyTyped ==
    /\ History \in Nat /\ History >= 1 /\ MaxPauses \in Nat
    /\ <<>> \in Windows /\ Idle \in Sessions /\ NoRun \in Runs
<1>1. History \in Nat /\ History >= 1 /\ MaxPauses \in Nat
  BY ConversationAssumption DEF ConversationAssumption
<1>2. <<>> \in Seq(SeenMessages) /\ Len(<<>>) = 0
  BY EmptySeq
<1>3. <<>> \in Windows
  BY <1>1, <1>2 DEF Windows
<1> QED
  BY <1>1, <1>3 DEF Idle, Sessions, Phases, NoRun, Runs

LEMMA GotoTo ==
    ASSUME Types, NEW q \in Requests, NEW pc \in Phases, Goto(q, pc)
    PROVE  SessionTo(q, pc) /\ sess' \in [Requests -> Sessions] /\ sess'[q].window = sess[q].window
BY DEF Types, TypeOK, Goto, SessionTo, OthersStay, Sessions, Turn

LEMMA ReplyEnds ==
    ASSUME Types, NEW q \in Requests, sess[q].pc # "idle",
           NEW what \in {"no answer", "answered"}, Reply(q, what)
    PROVE  /\ SessionEnds(q) /\ ClientTold(Turn(q), what)
           /\ sess' \in [Requests -> Sessions]
           /\ told' \in [Turns -> {"nothing", "no answer", "answered"}]
<1>1. Turn(q) \in Turns
  BY DEF Types, TypeOK, SessionHasTurn, Sessions, Turn
<1>2. Idle \in Sessions
  BY EmptyTyped
<1> QED
  BY <1>1, <1>2
     DEF Types, TypeOK, Reply, SessionEnds, ClientTold, OthersStay, Idle, Turn

\* What the actions are, and that they keep the types.
Done == Step /\ TypeOK'

LEMMA StepOf ==
    ASSUME NEW q \in Requests, SessionStep(q), TypeOK'
    PROVE  Done
BY DEF Done, Step

LEMMA QuitDone ==
    ASSUME Types, NEW q \in Requests, Reply(q, "no answer"),
           \/ sess[q].pc \in {"retrieving", "thinking"}
           \/ sess[q].pc \in {"asking", "creating", "persisted", "answering"} /\ ~conv,
           UNCHANGED <<rows, aborted, contended>>
    PROVE  Done
<1>1. sess[q].pc # "idle"
  OBVIOUS
<1>2. /\ SessionEnds(q) /\ ClientTold(Turn(q), "no answer")
      /\ sess' \in [Requests -> Sessions]
      /\ told' \in [Turns -> {"nothing", "no answer", "answered"}]
  BY <1>1, ReplyEnds
<1>3. Quits(q)
  BY <1>2 DEF Quits
<1>4. TypeOK'
  BY <1>2 DEF Types, TypeOK, rows
<1> QED
  BY <1>3, <1>4, StepOf DEF SessionStep

LEMMA MoveDone ==
    ASSUME Types, NEW q \in Requests, NEW from \in Phases, NEW to \in Phases,
           Moves(q, from, to), sess' \in [Requests -> Sessions]
    PROVE  Done
<1>1. TypeOK'
  BY DEF Types, TypeOK, Moves, rows, ghosts
<1> QED
  BY <1>1, StepOf DEF SessionStep

LEMMA FlushDone ==
    ASSUME Types, NEW q \in Requests, sess[q].pc # "idle",
           NEW from \in Phases, NEW to \in Phases, sess[q].pc = from, NEW m,
           \/ from = "asking" /\ to = "asked" /\ m = Question(Turn(q), q)
           \/ from = "answering" /\ to = "answered" /\ m = Answer(Turn(q), q),
           Flush(q, m, to), UNCHANGED <<conv, run>>
    PROVE  Done
<1>1. SessionTo(q, to) /\ sess' \in [Requests -> Sessions]
  BY GotoTo DEF Flush
<1>2. Turn(q) \in Turns
  BY DEF Types, TypeOK, SessionHasTurn, Sessions, Turn
<1>3. m \in Messages
  BY <1>2 DEF Question, Answer, Messages
<1>4. Flushes(q, m, from, to)
  BY <1>1 DEF Flushes, Flush
<1>5. log' \in Seq(Messages)
  BY <1>3, Appended DEF Types, TypeOK, Flush
<1>6. TypeOK'
  BY <1>1, <1>5 DEF Types, TypeOK, Flush, ghosts
<1> QED
  BY <1>3, <1>4, <1>6, StepOf DEF SessionStep

LEMMA BeginDone ==
    ASSUME Types, NEW q \in Requests, NEW t \in Turns, Begin(q, t)
    PROVE  Done
<1> DEFINE new == [Idle EXCEPT !.pc = IF t \in AgentTurns THEN "loading" ELSE "asking",
                               !.turn = t]
<1>1. new \in Sessions
  BY EmptyTyped DEF Sessions, Idle, Phases
<1>2. /\ new.pc = IF t \in AgentTurns THEN "loading" ELSE "asking"
      /\ new.turn = t
  BY DEF Idle
<1>3. sess' = [sess EXCEPT ![q] = new]
  BY DEF Begin
<1> HIDE DEF new
<1>4. sess' \in [Requests -> Sessions] /\ sess'[q] = new /\ OthersStay(q)
  BY <1>1, <1>3 DEF Types, TypeOK, OthersStay
<1>5. Begins(q, t)
  BY <1>2, <1>4 DEF Begin, Begins
<1>6. TypeOK'
  BY <1>4, <1>5 DEF Types, TypeOK, Begins, rows, ghosts
<1> QED
  BY <1>5, <1>6, StepOf DEF SessionStep

LEMMA BeginResumeDone ==
    ASSUME Types, NEW q \in Requests, NEW t \in Turns, BeginResume(q, t)
    PROVE  Done
<1> DEFINE new == [Idle EXCEPT !.pc = "resuming", !.turn = t]
<1>1. new \in Sessions
  BY EmptyTyped DEF Sessions, Idle, Phases
<1>2. new.pc = "resuming" /\ new.turn = t
  BY DEF Idle
<1>3. sess' = [sess EXCEPT ![q] = new]
  BY DEF BeginResume
<1> HIDE DEF new
<1>4. sess' \in [Requests -> Sessions] /\ sess'[q] = new /\ OthersStay(q)
  BY <1>1, <1>3 DEF Types, TypeOK, OthersStay
<1>5. Resumes(q, t)
  BY <1>2, <1>4 DEF BeginResume, Resumes
<1>6. TypeOK'
  BY <1>4, <1>5 DEF Types, TypeOK, Resumes, rows
<1> QED
  BY <1>5, <1>6, StepOf DEF SessionStep

LEMMA LoadHistoryDone ==
    ASSUME Types, NEW q \in Requests, LoadHistory(q)
    PROVE  Done
<1> DEFINE to == IF IsChat(q) THEN "thinking" ELSE "asking"
           w == IF IsChat(q) THEN ChatWindow(q) ELSE RunWindow(q)
<1>1. to \in Phases
  BY DEF Phases
<1>2. w \in Windows
  BY EmptyTyped, WindowsTyped DEF Types, TypeOK
<1>3. sess' = [sess EXCEPT ![q].pc = to, ![q].window = w]
  BY DEF LoadHistory
<1>4. "loading" \in Phases /\ sess[q].pc = "loading" /\ UNCHANGED <<rows, ghosts>>
  BY DEF LoadHistory, Phases
<1>5. to = IF IsChat(q) THEN "thinking" ELSE "asking"
  OBVIOUS
<1> HIDE DEF to, w
<1>6. sess' \in [Requests -> Sessions] /\ SessionTo(q, to)
  BY <1>1, <1>2, <1>3 DEF Types, TypeOK, OthersStay, Sessions, SessionTo, Turn
<1>7. Moves(q, "loading", to)
  BY <1>4, <1>5, <1>6 DEF Moves
<1> QED
  BY <1>1, <1>4, <1>6, <1>7, MoveDone

LEMMA AskDone ==
    ASSUME Types, NEW q \in Requests, Ask(q)
    PROVE  Done
<1>1. CASE Flush(q, Question(Turn(q), q), "asked")
  <2>1. "asking" \in Phases /\ "asked" \in Phases
    BY DEF Phases
  <2>2. sess[q].pc = "asking" /\ UNCHANGED <<conv, run>>
    BY DEF Ask
  <2> QED
    BY <1>1, <2>1, <2>2, FlushDone
<1>2. CASE ForeignKeyFails(q)
  BY <1>2, QuitDone DEF Ask, ForeignKeyFails, rows
<1> QED
  BY <1>1, <1>2 DEF Ask

LEMMA FlushAnswerDone ==
    ASSUME Types, NEW q \in Requests, FlushAnswer(q)
    PROVE  Done
<1>1. CASE Flush(q, Answer(Turn(q), q), "answered")
  <2>1. "answering" \in Phases /\ "answered" \in Phases
    BY DEF Phases
  <2>2. sess[q].pc = "answering" /\ UNCHANGED <<conv, run>>
    BY DEF FlushAnswer
  <2> QED
    BY <1>1, <2>1, <2>2, FlushDone
<1>2. CASE ForeignKeyFails(q)
  BY <1>2, QuitDone DEF FlushAnswer, ForeignKeyFails, rows
<1> QED
  BY <1>1, <1>2 DEF FlushAnswer

LEMMA CommitQuestionDone ==
    ASSUME Types, NEW q \in Requests, CommitQuestion(q)
    PROVE  Done
<1> DEFINE to == IF IsChat(q) THEN "retrieving" ELSE "creating"
<1>1. to \in Phases /\ Goto(q, to)
  BY DEF CommitQuestion, Phases
<1> HIDE DEF to
<1>2. SessionTo(q, to) /\ sess' \in [Requests -> Sessions]
  BY <1>1, GotoTo
<1>3. CommitsQuestion(q)
  BY <1>2 DEF CommitsQuestion, CommitQuestion, to
<1>4. log' \in Seq(Messages)
  BY Committed DEF Types, TypeOK, CommitQuestion
<1>5. TypeOK'
  BY <1>2, <1>4 DEF Types, TypeOK, CommitQuestion, ghosts
<1> QED
  BY <1>3, <1>5, StepOf DEF SessionStep

LEMMA CommitAnswerDone ==
    ASSUME Types, NEW q \in Requests, CommitAnswer(q)
    PROVE  Done
<1>1. sess[q].pc # "idle" /\ Reply(q, "answered")
  BY DEF CommitAnswer
<1>2. /\ SessionEnds(q) /\ ClientTold(Turn(q), "answered")
      /\ sess' \in [Requests -> Sessions]
      /\ told' \in [Turns -> {"nothing", "no answer", "answered"}]
  BY <1>1, ReplyEnds
<1>3. CommitsAnswer(q)
  BY <1>2 DEF CommitsAnswer, CommitAnswer
<1>4. log' \in Seq(Messages)
  BY Committed DEF Types, TypeOK, CommitAnswer
<1>5. TypeOK'
  BY <1>2, <1>4 DEF Types, TypeOK, CommitAnswer
<1> QED
  BY <1>3, <1>5, StepOf DEF SessionStep

LEMMA AbortDone ==
    ASSUME Types, NEW q \in Requests, Abort(q)
    PROVE  Done
<1>1. sess[q].pc # "idle" /\ Reply(q, "no answer")
  BY DEF Abort
<1>2. /\ SessionEnds(q) /\ ClientTold(Turn(q), "no answer")
      /\ sess' \in [Requests -> Sessions]
      /\ told' \in [Turns -> {"nothing", "no answer", "answered"}]
  BY <1>1, ReplyEnds
<1>3. Aborts(q)
  BY <1>2 DEF Aborts, Abort
<1>4. log' \in Seq(Messages)
  BY RolledBack DEF Types, TypeOK, Abort
<1>5. aborted' \subseteq Turns
  BY <1>1 DEF Types, TypeOK, Abort, SessionHasTurn, Sessions, Turn
<1>6. TypeOK'
  BY <1>2, <1>4, <1>5 DEF Types, TypeOK, Abort
<1> QED
  BY <1>3, <1>6, StepOf DEF SessionStep

LEMMA RetrieveDone ==
    ASSUME Types, NEW q \in Requests, Retrieve(q) \/ Generate(q) \/ Refresh(q)
    PROVE  Done
<1>1. ASSUME NEW from \in Phases, NEW to \in Phases, sess[q].pc = from, Goto(q, to),
             UNCHANGED <<rows, ghosts>>,
             \/ from = "retrieving" /\ to \in {"loading", "answering"}
             \/ from = "thinking" /\ to = "answering"
             \/ from = "persisted" /\ to = "answering" /\ conv
      PROVE  Done
  <2>1. SessionTo(q, to) /\ sess' \in [Requests -> Sessions]
    BY <1>1, GotoTo
  <2>2. Moves(q, from, to)
    BY <1>1, <2>1 DEF Moves
  <2> QED
    BY <2>1, <2>2, MoveDone
<1>2. ASSUME Reply(q, "no answer"), UNCHANGED <<aborted, contended>>, UNCHANGED rows,
             \/ sess[q].pc \in {"retrieving", "thinking"}
             \/ sess[q].pc = "persisted" /\ ~conv
      PROVE  Done
  BY <1>2, QuitDone
<1>3. {"retrieving", "loading", "answering", "thinking", "persisted"} \subseteq Phases
  BY DEF Phases
<1>4. CASE Retrieve(q)
  BY <1>1, <1>2, <1>3, <1>4 DEF Retrieve
<1>5. CASE Generate(q)
  BY <1>1, <1>2, <1>3, <1>5 DEF Generate
<1>6. CASE Refresh(q)
  BY <1>1, <1>2, <1>3, <1>6 DEF Refresh
<1> QED
  BY <1>4, <1>5, <1>6

\* The row of a run.
RunChanged(f, t, status) ==
    /\ f \in [Turns -> Runs] /\ f[t].status = status
    /\ \A u \in Turns : u # t => f[u] = run[u]

LEMMA StatusSet ==
    ASSUME Types, NEW t \in Turns, NEW status \in {"running", "failed"}
    PROVE  RunChanged([run EXCEPT ![t].status = status], t, status)
BY DEF Types, TypeOK, Runs, RunChanged

LEMMA HistorySet ==
    ASSUME Types, NEW t \in Turns, NEW w \in Windows
    PROVE  RunChanged([run EXCEPT ![t].status = "running", ![t].history = w], t, "running")
BY DEF Types, TypeOK, Runs, RunChanged

LEMMA Worker ==
    ASSUME Types, NEW q \in Requests, sess[q].pc # "idle"
    PROVE  Turn(q) \in Turns /\ sess[q].window \in Windows /\ sess[q].turn = Turn(q)
BY DEF Types, TypeOK, SessionHasTurn, Sessions, Turn

LEMMA RunSaved ==
    ASSUME Types, NEW q \in Requests, sess[q].pc # "idle",
           NEW status \in {"completed", "failed", "waiting"}, NEW n \in 0 .. MaxPauses,
           SaveRun(q, status, n)
    PROVE  run' \in [Turns -> Runs] /\ RunTo(Turn(q), status)
<1> DEFINE row == [status |-> status, pauses |-> n, history |-> sess[q].window,
                   answered |-> status = "completed"]
<1>1. Turn(q) \in Turns /\ sess[q].window \in Windows
  BY Worker
<1>2. (status = "completed") \in BOOLEAN
  OBVIOUS
<1>3. row \in Runs /\ row.status = status
  BY <1>1, <1>2 DEF Runs
<1>4. run' = [run EXCEPT ![Turn(q)] = row]
  BY DEF SaveRun
<1> HIDE DEF row
<1> QED
  BY <1>1, <1>3, <1>4 DEF Types, TypeOK, RunTo

LEMMA Runs1Done ==
    ASSUME Types, NEW q \in Requests, NEW from \in Phases, NEW to \in Phases,
           NEW status \in {"running", "completed"},
           Runs1(q, from, to, status), sess' \in [Requests -> Sessions],
           run' \in [Turns -> Runs]
    PROVE  Done
<1>1. TypeOK'
  BY DEF Types, TypeOK, Runs1, ghosts
<1> QED
  BY <1>1, StepOf DEF SessionStep

LEMMA CreateRunDone ==
    ASSUME Types, NEW q \in Requests, CreateRun(q)
    PROVE  Done
<1>1. CASE ForeignKeyFails(q)
  BY <1>1, QuitDone DEF CreateRun, ForeignKeyFails, rows
<1>2. CASE conv /\ Goto(q, "working")
              /\ run' = [run EXCEPT ![Turn(q)].status = "running",
                                    ![Turn(q)].history = sess[q].window]
              /\ UNCHANGED <<conv, log, ghosts>>
  <2>1. sess[q].pc = "creating" /\ "creating" \in Phases /\ "working" \in Phases
    BY DEF CreateRun, Phases
  <2>2. Turn(q) \in Turns /\ sess[q].window \in Windows
    BY <2>1, Worker
  <2>3. run' \in [Turns -> Runs] /\ RunTo(Turn(q), "running")
    <3>1. RunChanged(run', Turn(q), "running")
      BY <1>2, <2>2, HistorySet, Zenon
    <3> QED
      BY <3>1 DEF RunTo, RunChanged
  <2>4. SessionTo(q, "working") /\ sess' \in [Requests -> Sessions]
    BY <1>2, <2>1, GotoTo
  <2>5. Runs1(q, "creating", "working", "running")
    BY <1>2, <2>1, <2>3, <2>4 DEF Runs1
  <2> QED
    BY <2>1, <2>3, <2>4, <2>5, Runs1Done
<1> QED
  BY <1>1, <1>2, Zenon DEF CreateRun

LEMMA ResumeDone ==
    ASSUME Types, NEW q \in Requests, Resume(q)
    PROVE  Done
<1>1. sess[q].pc = "resuming" /\ "resuming" \in Phases /\ "working" \in Phases
  BY DEF Resume, Phases
<1>2. Turn(q) \in Turns
  BY <1>1, Worker
<1> DEFINE w == run[Turn(q)].history
<1>3. w \in Windows
  BY <1>2 DEF Types, TypeOK, Runs
<1>4. sess' = [sess EXCEPT ![q].pc = "working", ![q].window = w]
  BY DEF Resume
<1> HIDE DEF w
<1>5. SessionTo(q, "working") /\ sess' \in [Requests -> Sessions]
  BY <1>1, <1>3, <1>4 DEF Types, TypeOK, SessionTo, OthersStay, Sessions, Turn
<1>6. run' = [run EXCEPT ![Turn(q)].status = "running"]
  BY DEF Resume
<1>7. run' \in [Turns -> Runs] /\ RunTo(Turn(q), "running")
  BY <1>2, <1>6, StatusSet DEF RunTo, RunChanged
<1>8. Runs1(q, "resuming", "working", "running")
  BY <1>1, <1>5, <1>7 DEF Runs1, Resume
<1> QED
  BY <1>1, <1>5, <1>7, <1>8, Runs1Done

LEMMA FinishRunDone ==
    ASSUME Types, NEW q \in Requests, FinishRun(q)
    PROVE  Done
<1>1. sess[q].pc = "working" /\ "working" \in Phases /\ "persisted" \in Phases
  BY DEF FinishRun, Phases
<1>2. run[Turn(q)].pauses \in 0 .. MaxPauses
  BY <1>1, Worker DEF Types, TypeOK, Runs
<1>3. run' \in [Turns -> Runs] /\ RunTo(Turn(q), "completed")
  BY <1>1, <1>2, RunSaved DEF FinishRun
<1>4. SessionTo(q, "persisted") /\ sess' \in [Requests -> Sessions]
  BY <1>1, GotoTo DEF FinishRun
<1>5. Runs1(q, "working", "persisted", "completed")
  BY <1>1, <1>3, <1>4 DEF Runs1, FinishRun
<1> QED
  BY <1>1, <1>3, <1>4, <1>5, Runs1Done

LEMMA StopDone ==
    ASSUME Types, NEW q \in Requests, FailRun(q) \/ PauseRun(q)
    PROVE  Done
<1>1. sess[q].pc = "working" /\ Reply(q, "no answer") /\ UNCHANGED <<conv, log, aborted, contended>>
  BY DEF FailRun, PauseRun
<1>2. /\ SessionEnds(q) /\ ClientTold(Turn(q), "no answer")
      /\ sess' \in [Requests -> Sessions]
      /\ told' \in [Turns -> {"nothing", "no answer", "answered"}]
  BY <1>1, ReplyEnds
<1>3. run[Turn(q)].pauses \in 0 .. MaxPauses
  BY <1>1, Worker DEF Types, TypeOK, Runs
<1>4. ASSUME NEW status \in {"failed", "waiting"}, run' \in [Turns -> Runs],
             RunTo(Turn(q), status)
      PROVE  Done
  <2>1. Stops(q, status)
    BY <1>1, <1>2, <1>4 DEF Stops
  <2>2. TypeOK'
    BY <1>1, <1>2, <1>4 DEF Types, TypeOK
  <2> QED
    BY <2>1, <2>2, StepOf DEF SessionStep
<1>5. CASE FailRun(q)
  <2>1. SaveRun(q, "failed", run[Turn(q)].pauses)
    BY <1>5 DEF FailRun
  <2>2. run' \in [Turns -> Runs] /\ RunTo(Turn(q), "failed")
    BY <1>1, <1>3, <2>1, RunSaved
  <2> QED
    BY <1>4, <2>2
<1>6. CASE PauseRun(q)
  <2>1. SaveRun(q, "waiting", run[Turn(q)].pauses + 1)
    BY <1>6 DEF PauseRun
  <2>2. run[Turn(q)].pauses + 1 \in 0 .. MaxPauses
    <3>1. run[Turn(q)].pauses < MaxPauses
      BY <1>6 DEF PauseRun
    <3> QED
      BY <1>3, <3>1, EmptyTyped
  <2>3. run' \in [Turns -> Runs] /\ RunTo(Turn(q), "waiting")
    BY <1>1, <2>1, <2>2, RunSaved
  <2> QED
    BY <1>4, <2>3
<1> QED
  BY <1>5, <1>6

LEMMA RejectDone ==
    ASSUME Types, NEW t \in Turns, Reject(t)
    PROVE  Done
<1>1. run' = [run EXCEPT ![t].status = "failed"]
  BY DEF Reject
<1>2. run' \in [Turns -> Runs] /\ RunTo(t, "failed")
  BY <1>1, StatusSet DEF RunTo, RunChanged
<1>3. Rejects(t)
  BY <1>2 DEF Reject, Rejects
<1>4. TypeOK'
  BY <1>2 DEF Types, TypeOK, Reject, ghosts
<1> QED
  BY <1>3, <1>4 DEF Done, Step

LEMMA DeleteDone ==
    ASSUME Types, DeleteConversation
    PROVE  Done
<1>1. log' \in Seq(Messages) /\ Written' = {}
  <2>1. log' = <<>>
    BY DEF DeleteConversation
  <2> QED
    BY <2>1, EmptySeq DEF Written
<1>2. \A m \in Written : m.lock = Nobody
  BY DEF DeleteConversation, Written
<1>3. Deletes
  BY <1>1, <1>2 DEF DeleteConversation, Deletes
<1>4. TypeOK'
  BY <1>1 DEF Types, TypeOK, DeleteConversation, ghosts
<1> QED
  BY <1>3, <1>4 DEF Done, Step

LEMMA NextDone ==
    ASSUME Types, Next
    PROVE  Done
<1>1. ASSUME NEW q \in Requests, Serve(q)
      PROVE  Done
  BY <1>1, LoadHistoryDone, AskDone, CommitQuestionDone, RetrieveDone, CreateRunDone,
     ResumeDone, FinishRunDone, StopDone, FlushAnswerDone, CommitAnswerDone
     DEF Serve
<1>2. ASSUME NEW q \in Requests, Arrive(q)
      PROVE  Done
  BY <1>2, BeginDone, BeginResumeDone DEF Arrive
<1>3. CASE \E t \in Turns : Reject(t)
  BY <1>3, RejectDone
<1> QED
  BY <1>1, <1>2, <1>3, AbortDone, DeleteDone DEF Next

LEMMA InitTyped == Init => Types
<1> SUFFICES ASSUME Init PROVE Types
  OBVIOUS
<1>1. TypeOK
  BY EmptyTyped, EmptySeq DEF Init, TypeOK
<1>2. SessionHasTurn
  BY DEF Init, SessionHasTurn, Turn, Idle
<1> QED
  BY <1>1, <1>2 DEF Types

\* A session is about a turn from its first phase to its last.
LEMMA TurnsStep ==
    ASSUME Types, Step
    PROVE  SessionHasTurn'
<1> USE DEF SessionHasTurn, Turn
<1>1. Nobody \notin Turns
  BY ConversationAssumption DEF ConversationAssumption
<1>2. ASSUME NEW q \in Requests, SessionStep(q)
      PROVE  SessionHasTurn'
  <2>1. ASSUME NEW t \in Turns, Begins(q, t) \/ Resumes(q, t)
        PROVE  SessionHasTurn'
    BY <1>1, <2>1 DEF Types, Begins, Resumes, OthersStay
  <2>2. ASSUME NEW from \in Phases, NEW to \in Phases, Moves(q, from, to)
        PROVE  SessionHasTurn'
    BY <2>2 DEF Types, Moves, SessionTo, OthersStay
  <2>3. ASSUME NEW from \in Phases, NEW to \in Phases, NEW m \in Messages,
               Flushes(q, m, from, to)
        PROVE  SessionHasTurn'
    BY <2>3 DEF Types, Flushes, SessionTo, OthersStay
  <2>4. ASSUME NEW from \in Phases, NEW to \in Phases, NEW status \in {"running", "completed"},
               Runs1(q, from, to, status)
        PROVE  SessionHasTurn'
    BY <2>4 DEF Types, Runs1, SessionTo, OthersStay
  <2>5. CASE CommitsQuestion(q)
    BY <2>5 DEF Types, CommitsQuestion, SessionTo, OthersStay
  <2>6. CASE SessionEnds(q)
    BY <2>6 DEF Types, SessionEnds, OthersStay
  <2> QED
    BY <1>2, <2>1, <2>2, <2>3, <2>4, <2>5, <2>6
       DEF SessionStep, Quits, CommitsAnswer, Stops, Aborts
<1>3. CASE sess' = sess
  BY <1>3 DEF Types
<1> QED
  BY <1>2, <1>3 DEF Step, Rejects, Deletes

LEMMA TypesStep == Types /\ [Next]_vars => Types'
<1> SUFFICES ASSUME Types, [Next]_vars
             PROVE  Types'
  OBVIOUS
<1>1. CASE Next
  BY <1>1, NextDone, TurnsStep DEF Done, Types
<1>2. CASE UNCHANGED vars
  BY <1>2 DEF Types, TypeOK, SessionHasTurn, Turn, vars, rows, ghosts
<1> QED
  BY <1>1, <1>2

\* Rows, sessions and histories keep their types and no history is longer than
\* the limit, for every number of requests at a time and every limit.
THEOREM TypeCorrect == Spec => []TypeOK
<1>1. Types => TypeOK
  BY DEF Types
<1> QED
  BY InitTyped, TypesStep, <1>1, PTL DEF Spec

-----------------------------------------------------------------------------
(* Who works on a turn *)

\* What holds of every session.
LEMMA SessionFacts ==
    ASSUME Types
    PROVE  /\ Nobody \notin Turns /\ AgentTurns \subseteq Turns /\ Nobody \notin Requests
           /\ \A q \in Requests : /\ Turn(q) \in Turns \cup {Nobody} /\ sess[q].pc \in Phases
                                  /\ sess[q].pc # "idle" => Turn(q) \in Turns
                                  /\ sess[q].pc = "idle" => Turn(q) = Nobody
BY ConversationAssumption
   DEF ConversationAssumption, Types, TypeOK, SessionHasTurn, Sessions, Turn

LEMMA InitControl == Init => Control
BY ConversationAssumption
   DEF ConversationAssumption, Init, Control, PhasesOfKind, RunsOfAgents, FirstIsAlone, NoRunYet,
       First, IsChat, Turn, Idle, NoRun

LEMMA ControlStep ==
    ASSUME Types, Control, Step
    PROVE  Control'
<1> USE SessionFacts DEF Control, Turn, IsChat
<1>1. ASSUME NEW q \in Requests, SessionStep(q)
      PROVE  Control'
  <2>1. ASSUME NEW t \in Turns, Begins(q, t)
        PROVE  Control'
    <3>1. PhasesOfKind' /\ RunsOfAgents'
      BY <2>1 DEF Begins, OthersStay, rows, PhasesOfKind, RunsOfAgents
    <3>2. FirstIsAlone'
      BY <2>1 DEF Begins, OthersStay, rows, ghosts, FirstIsAlone, NoRunYet, Started, First
    <3>3. NoRunYet'
      BY <2>1 DEF Begins, OthersStay, rows, ghosts, NoRunYet, Started
    <3> QED
      BY <3>1, <3>2, <3>3
  <2>2. ASSUME NEW t \in Turns, Resumes(q, t)
        PROVE  Control'
    <3>1. PhasesOfKind' /\ RunsOfAgents'
      BY <2>2 DEF Resumes, OthersStay, rows, PhasesOfKind, RunsOfAgents
    <3>2. FirstIsAlone'
      BY <2>2 DEF Resumes, OthersStay, rows, FirstIsAlone, RunsOfAgents, First
    <3>3. NoRunYet'
      BY <2>2 DEF Resumes, OthersStay, rows, NoRunYet, Started
    <3> QED
      BY <3>1, <3>2, <3>3
  <2>3. ASSUME NEW from \in Phases, NEW to \in Phases, SessionTo(q, to), sess[q].pc = from,
               \/ /\ \E m \in Messages : Flushes(q, m, from, to)
               \/ CommitsQuestion(q) /\ to = IF IsChat(q) THEN "retrieving" ELSE "creating"
               \/ Moves(q, from, to)
        PROVE  Control'
    <3>1. UNCHANGED <<run, told>>
      BY <2>3 DEF Flushes, CommitsQuestion, Moves, rows, ghosts
    <3>2. PhasesOfKind'
      BY <2>3 DEF Flushes, CommitsQuestion, Moves, SessionTo, OthersStay, PhasesOfKind
    <3>3. First(q)' => First(q)
      BY <2>3 DEF Flushes, CommitsQuestion, Moves, SessionTo, First, PhasesOfKind
    <3>4. FirstIsAlone'
      BY <2>3, <3>1, <3>3 DEF SessionTo, OthersStay, First, FirstIsAlone
    <3>5. NoRunYet' /\ RunsOfAgents'
      BY <2>3, <3>1 DEF SessionTo, OthersStay, NoRunYet, RunsOfAgents, Started
    <3> QED
      BY <3>2, <3>4, <3>5
  <2>4. ASSUME NEW from \in Phases, NEW to \in Phases, NEW status \in {"running", "completed"},
               Runs1(q, from, to, status)
        PROVE  Control'
    <3>1. PhasesOfKind' /\ RunsOfAgents'
      BY <2>4 DEF Runs1, RunTo, SessionTo, OthersStay, PhasesOfKind, RunsOfAgents
    <3>2. FirstIsAlone'
      BY <2>4 DEF Runs1, RunTo, SessionTo, OthersStay, FirstIsAlone, First, PhasesOfKind, ghosts
    <3>3. NoRunYet'
      BY <2>4 DEF Runs1, RunTo, SessionTo, OthersStay, NoRunYet, Started, ghosts
    <3> QED
      BY <3>1, <3>2, <3>3
  <2>5. ASSUME NEW what \in {"no answer", "answered"}, sess[q].pc # "idle",
               SessionEnds(q), ClientTold(Turn(q), what),
               \/ UNCHANGED run
               \/ \E status \in {"failed", "waiting"} :
                     sess[q].pc = "working" /\ RunTo(Turn(q), status)
        PROVE  Control'
    <3>1. PhasesOfKind' /\ RunsOfAgents'
      BY <2>5 DEF SessionEnds, RunTo, OthersStay, PhasesOfKind, RunsOfAgents
    <3>2. \A u \in Turns : u # Turn(q) => run'[u] = run[u] /\ told'[u] = told[u]
      BY <2>5 DEF ClientTold, RunTo
    <3>3. sess'[q].pc = "idle" /\ \A p \in Requests : p # q => sess'[p] = sess[p]
      BY <2>5 DEF SessionEnds, OthersStay
    <3>4. ASSUME NEW p \in Requests, First(p)'
          PROVE  /\ told'[sess'[p].turn] = "nothing" /\ run'[sess'[p].turn].status = "absent"
                 /\ \A r \in Requests : sess'[r].turn = sess'[p].turn => r = p
      <4>1. p # q /\ First(p) /\ sess'[p] = sess[p]
        BY <3>3, <3>4 DEF First
      <4>2. /\ told[Turn(p)] = "nothing" /\ run[Turn(p)].status = "absent"
            /\ Turn(p) \in Turns /\ Turn(p) # Turn(q)
            /\ \A r \in Requests : Turn(r) = Turn(p) => r = p
        BY <4>1 DEF FirstIsAlone, First
      <4>3. sess'[q].turn = Nobody
        BY <2>5 DEF SessionEnds
      <4> QED
        BY <3>2, <3>3, <4>1, <4>2, <4>3
    <3>5. FirstIsAlone'
      BY <3>4 DEF FirstIsAlone
    <3>6. ASSUME NEW t \in Turns, ~Started(t)'
          PROVE  run'[t].status = "absent"
      <4>1. t # Turn(q)
        BY <2>5, <3>6 DEF Started, ClientTold
      <4>2. ~Started(t)
        BY <3>2, <3>3, <3>6, <4>1 DEF Started
      <4> QED
        BY <3>2, <4>1, <4>2 DEF NoRunYet
    <3>7. NoRunYet'
      BY <3>6 DEF NoRunYet
    <3> QED
      BY <3>1, <3>5, <3>7
  <2>6. ASSUME Quits(q) \/ CommitsAnswer(q) \/ Aborts(q) \/ \E status \in {"failed", "waiting"} : Stops(q, status)
        PROVE  Control'
    BY <2>5, <2>6 DEF Quits, CommitsAnswer, Aborts, Stops, rows
  <2>7. ASSUME CommitsQuestion(q)
        PROVE  Control'
    BY <2>3, <2>7 DEF CommitsQuestion, Phases
  <2>8. ASSUME NEW from \in Phases, NEW to \in Phases,
               Moves(q, from, to) \/ \E m \in Messages : Flushes(q, m, from, to)
        PROVE  Control'
    BY <2>3, <2>8 DEF Moves, Flushes
  <2> QED
    BY <1>1, <2>1, <2>2, <2>4, <2>6, <2>7, <2>8 DEF SessionStep
<1>2. ASSUME NEW t \in Turns, Rejects(t)
      PROVE  Control'
  BY <1>2 DEF Rejects, RunTo, ghosts, PhasesOfKind, RunsOfAgents, FirstIsAlone, NoRunYet, Started,
              First
<1>3. CASE Deletes
  BY <1>3 DEF Deletes, ghosts, PhasesOfKind, RunsOfAgents, FirstIsAlone, NoRunYet, Started, First
<1> QED
  BY <1>1, <1>2, <1>3 DEF Step

-----------------------------------------------------------------------------
(* What is written *)

LEMMA WrittenTyped ==
    ASSUME Types
    PROVE  \A m \in Written : /\ m.turn \in Turns /\ m.role \in {"user", "assistant"}
                              /\ m.lock \in Requests \cup {Nobody}
<1>1. log \in Seq(Messages)
  BY DEF Types, TypeOK
<1>2. DOMAIN log = 1 .. Len(log) /\ \A i \in 1 .. Len(log) : log[i] \in Messages
  BY <1>1, LenProperties
<1>3. \A m \in Written : m \in Messages
  BY <1>2 DEF Written
<1> QED
  BY <1>3 DEF Messages

LEMMA ReleasedMessage ==
    ASSUME Types, NEW q, NEW m \in Written
    PROVE  /\ Released(m, q).turn = m.turn /\ Released(m, q).role = m.role
           /\ Released(m, q).lock = IF m.lock = q THEN Nobody ELSE m.lock
           /\ m.lock # q => Released(m, q) = m
BY WrittenTyped DEF Released

\* After a commit or a rollback of q the other messages are still there, and none
\* is new, nor locked by q.
Rest(q) ==
    /\ \A m \in Written : m.lock # q => m \in Written'
    /\ \A m \in Written' :
          \E k \in Written : /\ k.turn = m.turn /\ k.role = m.role
                             /\ m.lock # Nobody => m = k /\ k.lock # q

LEMMA CommitRest ==
    ASSUME Types, NEW q \in Requests, Commit(q)
    PROVE  Rest(q) /\ \A m \in Written : m.lock = q => [m EXCEPT !.lock = Nobody] \in Written'
<1>1. Written' = {Released(m, q) : m \in Written}
  BY Committed DEF Types, TypeOK
<1>2. \A m \in Written : m.lock # q => m \in Written'
  BY <1>1 DEF Released
<1>3. ASSUME NEW m \in Written'
      PROVE  \E k \in Written : /\ k.turn = m.turn /\ k.role = m.role
                                /\ m.lock # Nobody => m = k /\ k.lock # q
  <2>1. PICK k \in Written : m = Released(k, q)
    BY <1>1
  <2> QED
    BY <2>1, ReleasedMessage
<1>4. \A m \in Written : m.lock = q => [m EXCEPT !.lock = Nobody] \in Written'
  BY <1>1 DEF Released
<1> QED
  BY <1>2, <1>3, <1>4 DEF Rest

LEMMA RollbackRest ==
    ASSUME Types, NEW q \in Requests, Rollback(q)
    PROVE  Rest(q)
<1>1. Written' = {m \in Written : m.lock # q}
  BY RolledBack DEF Types, TypeOK
<1> QED
  BY <1>1 DEF Rest

LEMMA WrittenSame ==
    ASSUME UNCHANGED log
    PROVE  Written' = Written
BY DEF Written

LEMMA InitWriting == Init => Writing
<1> SUFFICES ASSUME Init PROVE Writing
  OBVIOUS
<1>1. Written = {}
  BY EmptySeq DEF Init, Written
<1> QED
  BY <1>1 DEF Init, Writing, OwnLocks, Flushed, NothingYet, NoAnswerYet, Idle

\* A session that goes on, or ends, with no message left uncommitted.
LEMMA WritingGoesOn ==
    ASSUME Types, Writing, NEW q \in Requests, sess[q].pc # "idle", Rest(q), OthersStay(q),
           sess'[q].pc \notin {"asked", "answered"},
           \A u \in Turns : told[u] # "nothing" => told'[u] # "nothing",
           \/ sess'[q].turn = Nobody /\ told'[Turn(q)] # "nothing"
           \/ /\ sess'[q].turn = Turn(q)
              /\ sess'[q].pc = "asking" => sess[q].pc = "loading" /\ ~IsChat(q)
              /\ sess'[q].pc = "loading" => IsChat(q)
              /\ First(q)' => First(q) /\ sess[q].pc # "answered"
    PROVE  Writing'
<1> USE DEF Turn, IsChat
<1>1. /\ Nobody \notin Turns /\ Turn(q) \in Turns
      /\ \A p \in Requests : p # q => sess'[p] = sess[p]
  BY SessionFacts DEF OthersStay
<1>2. ASSUME NEW m \in Written'
      PROVE  /\ m.turn \in Turns /\ Started(m.turn)'
             /\ m.lock # Nobody => /\ m.turn = sess'[m.lock].turn
                                   /\ sess'[m.lock].pc = IF m.role = "user" THEN "asked" ELSE "answered"
             /\ \A p \in Requests : sess'[p].turn = m.turn =>
                   /\ sess'[p].pc # "asking" /\ (sess'[p].pc = "loading" => m.turn \notin AgentTurns)
                   /\ m.role = "assistant" /\ First(p)' => sess'[p].pc = "answered"
  <2>1. PICK k \in Written : /\ k.turn = m.turn /\ k.role = m.role
                             /\ m.lock # Nobody => m = k /\ k.lock # q
    BY DEF Rest
  <2>2. m.turn \in Turns /\ k.lock \in Requests \cup {Nobody}
    BY <2>1, WrittenTyped
  <2>3. /\ Started(k.turn)
        /\ \A p \in Requests : sess[p].turn = k.turn =>
              /\ sess[p].pc # "asking" /\ (sess[p].pc = "loading" => k.turn \notin AgentTurns)
              /\ k.role = "assistant" /\ First(p) => sess[p].pc = "answered"
    <3>1. Started(k.turn)
      BY DEF Writing, NothingYet
    <3>2. ASSUME NEW p \in Requests, sess[p].turn = k.turn
          PROVE  /\ sess[p].pc # "asking" /\ (sess[p].pc = "loading" => k.turn \notin AgentTurns)
                 /\ k.role = "assistant" /\ First(p) => sess[p].pc = "answered"
      BY <3>2 DEF Writing, NothingYet, NoAnswerYet
    <3> QED
      BY <3>1, <3>2
  <2>4. Started(m.turn)'
    BY <1>1, <2>1, <2>2, <2>3 DEF Started
  <2>5. k.lock # Nobody => /\ k.turn = sess[k.lock].turn
                           /\ sess[k.lock].pc = IF k.role = "user" THEN "asked" ELSE "answered"
    BY DEF Writing, OwnLocks
  <2>6. ASSUME NEW p \in Requests, sess'[p].turn = m.turn
        PROVE  /\ sess'[p].pc # "asking" /\ (sess'[p].pc = "loading" => m.turn \notin AgentTurns)
               /\ m.role = "assistant" /\ First(p)' => sess'[p].pc = "answered"
    <3>1. sess[p].turn = m.turn
      BY <1>1, <2>2, <2>6
    <3>2. sess[p].pc # "asking" /\ (sess[p].pc = "loading" => m.turn \notin AgentTurns)
      BY <2>1, <2>3, <3>1
    <3>3. m.role = "assistant" /\ First(p) => sess[p].pc = "answered"
      BY <2>1, <2>3, <3>1
    <3>4. CASE p = q
      BY <1>1, <2>2, <2>6, <3>1, <3>2, <3>3, <3>4
    <3>5. CASE p # q
      BY <1>1, <3>2, <3>3, <3>5 DEF First
    <3> QED
      BY <3>4, <3>5
  <2> QED
    BY <1>1, <2>1, <2>2, <2>4, <2>5, <2>6
<1>3. OwnLocks'
  BY <1>2 DEF OwnLocks
<1>4. NothingYet'
  BY <1>2 DEF NothingYet
<1>5. NoAnswerYet'
  BY <1>2 DEF NoAnswerYet
<1>6. Flushed'
  <2>1. ASSUME NEW p \in Requests, p # q
        PROVE  /\ sess'[p].pc = "asked" => Question(sess'[p].turn, p) \in Written'
               /\ sess'[p].pc = "answered" => Answer(sess'[p].turn, p) \in Written'
    <3>1. sess'[p] = sess[p]
      BY <1>1, <2>1
    <3>2. Question(sess[p].turn, p).lock # q /\ Answer(sess[p].turn, p).lock # q
      BY <2>1 DEF Question, Answer
    <3> QED
      BY <3>1, <3>2 DEF Writing, Flushed, Rest
  <2> QED
    BY <2>1 DEF Flushed
<1> QED
  BY <1>3, <1>4, <1>5, <1>6 DEF Writing

LEMMA WritingEnds ==
    ASSUME Types, Writing, NEW q \in Requests, sess[q].pc # "idle", Rest(q), SessionEnds(q),
           NEW what \in {"no answer", "answered"}, ClientTold(Turn(q), what)
    PROVE  Writing'
<1>1. told'[Turn(q)] # "nothing" /\ \A u \in Turns : told[u] # "nothing" => told'[u] # "nothing"
  BY DEF ClientTold
<1>2. sess'[q].turn = Nobody /\ sess'[q].pc = "idle" /\ OthersStay(q)
  BY DEF SessionEnds
<1> QED
  BY <1>1, <1>2, WritingGoesOn

LEMMA WritingStep ==
    ASSUME Types, Control, Writing, Step
    PROVE  Writing'
<1> USE SessionFacts, WrittenTyped DEF Writing, Turn, IsChat
<1>1. ASSUME NEW q \in Requests, SessionStep(q)
      PROVE  Writing'
  <2>1. ASSUME NEW t \in Turns, Begins(q, t)
        PROVE  Writing'
    <3>1. Written' = Written
      BY <2>1, WrittenSame DEF Begins, rows
    <3>2. OwnLocks' /\ Flushed'
      BY <2>1, <3>1 DEF Begins, OthersStay, OwnLocks, Flushed, Question, Answer
    <3>3. NothingYet' /\ NoAnswerYet'
      BY <2>1, <3>1 DEF Begins, OthersStay, ghosts, NothingYet, NoAnswerYet, Started, First
    <3> QED
      BY <3>2, <3>3
  <2>2. ASSUME NEW t \in Turns, Resumes(q, t)
        PROVE  Writing'
    <3>1. Written' = Written
      BY <2>2, WrittenSame DEF Resumes, rows
    <3>2. OwnLocks' /\ Flushed'
      BY <2>2, <3>1 DEF Resumes, OthersStay, OwnLocks, Flushed, Question, Answer
    <3>3. t \in AgentTurns
      BY <2>2 DEF Resumes, Control, RunsOfAgents
    <3>4. sess[q].pc = "idle" /\ sess'[q].pc = "resuming" /\ sess'[q].turn = t
          /\ told' = told /\ \A p \in Requests : p # q => sess'[p] = sess[p]
      BY <2>2 DEF Resumes, OthersStay
    <3>5. NothingYet'
      BY <3>1, <3>4 DEF NothingYet, Started
    <3>6. NoAnswerYet'
      BY <3>1, <3>3, <3>4 DEF NoAnswerYet, First
    <3> QED
      BY <3>2, <3>5, <3>6
  <2>3. ASSUME NEW from \in Phases, NEW to \in Phases, Moves(q, from, to)
        PROVE  Writing'
    <3>1. Written' = Written /\ sess[q].pc \notin {"idle", "asked", "answered"}
      BY <2>3, WrittenSame DEF Moves, rows
    <3>2. Rest(q)
      BY <3>1 DEF Rest, OwnLocks
    <3>3. /\ sess'[q].turn = Turn(q) /\ sess'[q].pc \notin {"asked", "answered"} /\ told' = told
          /\ sess'[q].pc = "asking" => sess[q].pc = "loading" /\ ~IsChat(q)
          /\ OthersStay(q)
      BY <2>3 DEF Moves, SessionTo, ghosts
    <3>4. sess'[q].pc = "loading" => IsChat(q)
      BY <2>3 DEF Moves, SessionTo, Control, PhasesOfKind
    <3>5. First(q)' => First(q)
      BY <2>3 DEF Moves, SessionTo, First, Control, PhasesOfKind
    <3> QED
      BY <3>1, <3>2, <3>3, <3>4, <3>5, WritingGoesOn
  <2>4. ASSUME NEW from \in Phases, NEW to \in Phases, NEW status \in {"running", "completed"},
               Runs1(q, from, to, status)
        PROVE  Writing'
    <3>1. Written' = Written /\ sess[q].pc \notin {"idle", "asked", "answered"}
      BY <2>4, WrittenSame DEF Runs1
    <3>2. Rest(q)
      BY <3>1 DEF Rest, OwnLocks
    <3>3. /\ sess'[q].turn = Turn(q) /\ sess'[q].pc \in {"working", "persisted"} /\ told' = told
          /\ OthersStay(q)
      BY <2>4 DEF Runs1, SessionTo, ghosts
    <3>4. ~First(q)'
      BY <2>4, <3>3 DEF Runs1, First, Control, PhasesOfKind
    <3> QED
      BY <3>1, <3>2, <3>3, <3>4, WritingGoesOn
  <2>5. ASSUME NEW from \in Phases, NEW to \in Phases, NEW m \in Messages,
               Flushes(q, m, from, to)
        PROVE  Writing'
    <3>1. Written' = Written \cup {m}
      BY <2>5, Appended DEF Flushes, Types, TypeOK
    <3>2. m.turn = Turn(q) /\ m.lock = q /\ m.role = IF to = "asked" THEN "user" ELSE "assistant"
      BY <2>5 DEF Flushes, Question, Answer
    <3>3. OwnLocks' /\ Flushed'
      BY <2>5, <3>1, <3>2 DEF Flushes, SessionTo, OthersStay, OwnLocks, Flushed, Question, Answer
    <3>4. NothingYet'
      BY <2>5, <3>1, <3>2
         DEF Flushes, SessionTo, OthersStay, ghosts, NothingYet, Started, Control, FirstIsAlone, First
    <3>5. NoAnswerYet'
      BY <2>5, <3>1, <3>2
         DEF Flushes, SessionTo, OthersStay, NoAnswerYet, Control, FirstIsAlone, First
    <3> QED
      BY <3>3, <3>4, <3>5
  <2>6. CASE CommitsQuestion(q)
    <3>1. Rest(q)
      BY <2>6, CommitRest DEF CommitsQuestion
    <3>2. /\ sess[q].pc = "asked" /\ sess'[q].pc = IF IsChat(q) THEN "retrieving" ELSE "creating"
          /\ sess'[q].turn = sess[q].turn /\ told' = told
          /\ \A p \in Requests : p # q => sess'[p] = sess[p]
      BY <2>6 DEF CommitsQuestion, SessionTo, OthersStay, ghosts
    <3>3. First(q)' => First(q)
      BY <3>2 DEF First
    <3> QED
      BY <2>6, <3>1, <3>2, <3>3, WritingGoesOn DEF CommitsQuestion, SessionTo
  <2>7. ASSUME NEW status \in {"failed", "waiting"}, Quits(q) \/ Stops(q, status)
        PROVE  Writing'
    <3>1. /\ sess[q].pc \notin {"idle", "asked", "answered"} /\ UNCHANGED log
          /\ SessionEnds(q) /\ ClientTold(Turn(q), "no answer")
      BY <2>7 DEF Quits, Stops, rows
    <3>2. Rest(q)
      BY <3>1, WrittenSame DEF Rest, OwnLocks
    <3> QED
      BY <3>1, <3>2, WritingEnds
  <2>8. CASE CommitsAnswer(q)
    <3>1. Rest(q)
      BY <2>8, CommitRest DEF CommitsAnswer
    <3>2. sess[q].pc # "idle" /\ SessionEnds(q) /\ ClientTold(Turn(q), "answered")
      BY <2>8 DEF CommitsAnswer
    <3> QED
      BY <3>1, <3>2, WritingEnds
  <2>9. CASE Aborts(q)
    <3>1. Rest(q)
      BY <2>9, RollbackRest DEF Aborts
    <3>2. sess[q].pc # "idle" /\ SessionEnds(q) /\ ClientTold(Turn(q), "no answer")
      BY <2>9 DEF Aborts
    <3> QED
      BY <3>1, <3>2, WritingEnds
  <2> QED
    BY <1>1, <2>1, <2>2, <2>3, <2>4, <2>5, <2>6, <2>7, <2>8, <2>9 DEF SessionStep
<1>2. ASSUME NEW t \in Turns, Rejects(t)
      PROVE  Writing'
  BY <1>2, WrittenSame
     DEF Rejects, ghosts, OwnLocks, Flushed, NothingYet, NoAnswerYet, Started, First
<1>3. CASE Deletes
  BY <1>3 DEF Deletes, ghosts, OwnLocks, Flushed, NothingYet, NoAnswerYet, Question, Answer
<1> QED
  BY <1>1, <1>2, <1>3 DEF Step

-----------------------------------------------------------------------------
(* What is kept *)

\* The conversation exists after a step only if it did before; what was committed
\* is then still there.
LEMMA CommittedStays ==
    ASSUME Types, Step, conv'
    PROVE  conv /\ \A m \in Written : m.lock = Nobody => m \in Written'
<1>1. ASSUME NEW q \in Requests, SessionStep(q)
      PROVE  conv /\ \A m \in Written : m.lock = Nobody => m \in Written'
  <2>1. q # Nobody
    BY SessionFacts
  <2>2. CASE Rest(q) /\ UNCHANGED conv
    BY <2>1, <2>2 DEF Rest
  <2>3. CASE UNCHANGED <<conv, log>>
    BY <2>3, WrittenSame
  <2>4. ASSUME NEW t \in Turns, Begins(q, t) \/ Resumes(q, t)
        PROVE  UNCHANGED <<conv, log>>
    BY <2>4 DEF Begins, Resumes, rows
  <2>5. ASSUME NEW from \in Phases, NEW to \in Phases, NEW status \in {"running", "completed"},
               Moves(q, from, to) \/ Runs1(q, from, to, status)
        PROVE  UNCHANGED <<conv, log>>
    BY <2>5 DEF Moves, Runs1, rows
  <2>6. ASSUME NEW status \in {"failed", "waiting"}, Quits(q) \/ Stops(q, status)
        PROVE  UNCHANGED <<conv, log>>
    BY <2>6 DEF Quits, Stops, rows
  <2>7. ASSUME NEW from \in Phases, NEW to \in Phases, NEW m \in Messages,
               Flushes(q, m, from, to)
        PROVE  conv /\ Written \subseteq Written'
    BY <2>7, Appended DEF Flushes, Types, TypeOK
  <2>8. CASE CommitsQuestion(q) \/ CommitsAnswer(q)
    BY <2>2, <2>8, CommitRest DEF CommitsQuestion, CommitsAnswer
  <2>9. CASE Aborts(q)
    BY <2>2, <2>9, RollbackRest DEF Aborts
  <2> QED
    BY <1>1, <2>3, <2>4, <2>5, <2>6, <2>7, <2>8, <2>9 DEF SessionStep
<1>2. ASSUME NEW t \in Turns, Rejects(t)
      PROVE  conv /\ \A m \in Written : m.lock = Nobody => m \in Written'
  BY <1>2, WrittenSame DEF Rejects
<1>3. ~Deletes
  BY DEF Deletes
<1> QED
  BY <1>1, <1>2, <1>3 DEF Step

LEMMA MessagesStay ==
    ASSUME Types, Step, conv'
    PROVE  conv /\ Asked \subseteq Asked' /\ Replied \subseteq Replied'
<1>1. conv /\ \A m \in Written : m.lock = Nobody => m \in Written'
  BY CommittedStays
<1>2. ASSUME NEW t \in Turns
      PROVE  (t \in Asked => t \in Asked') /\ (t \in Replied => t \in Replied')
  <2>1. /\ t \in Asked => Question(t, Nobody) \in Written
        /\ t \in Replied => Answer(t, Nobody) \in Written
    BY DEF Asked, Replied
  <2>2. /\ Question(t, Nobody) \in Written' => t \in Asked'
        /\ Answer(t, Nobody) \in Written' => t \in Replied'
    BY DEF Asked, Replied, Question, Answer
  <2>3. /\ Question(t, Nobody) \in Written => Question(t, Nobody) \in Written'
        /\ Answer(t, Nobody) \in Written => Answer(t, Nobody) \in Written'
    <3>1. Question(t, Nobody).lock = Nobody /\ Answer(t, Nobody).lock = Nobody
      BY DEF Question, Answer
    <3> QED
      BY <1>1, <3>1
  <2>4. t \in Asked => t \in Asked'
    BY <2>1, <2>2, <2>3, Zenon
  <2>5. t \in Replied => t \in Replied'
    BY <2>1, <2>2, <2>3, Zenon
  <2> QED
    BY <2>4, <2>5
<1>3. Asked \subseteq Turns /\ Replied \subseteq Turns
  BY DEF Asked, Replied
<1> QED
  BY <1>1, <1>2, <1>3

LEMMA InitKeeping == Init => Keeping
BY DEF Init, Keeping, QuestionStays, AnswerStays, AnswerComes, Past, Idle, NoRun

LEMMA KeepingStep ==
    ASSUME Types, Control, Writing, Keeping, Step
    PROVE  Keeping'
<1> USE SessionFacts DEF Turn, IsChat
<1> SUFFICES ASSUME conv'
             PROVE  Keeping'
  BY DEF Keeping, QuestionStays, AnswerStays, AnswerComes
<1>1. conv /\ Asked \subseteq Asked' /\ Replied \subseteq Replied'
  BY MessagesStay
<1>2. /\ \A q \in Requests : Past(q) => Turn(q) \in Asked
      /\ \A t \in Turns : run[t].status # "absent" => t \in Asked
      /\ \A t \in Turns : told[t] = "answered" => t \in Replied
      /\ \A t \in Turns : t \notin aborted /\ run[t].status = "completed" =>
            t \in Replied \/ \E q \in Requests : Turn(q) = t /\ Writes(q)
  BY <1>1 DEF Keeping, QuestionStays, AnswerStays, AnswerComes
<1> DEFINE Questions1 == \A q \in Requests : Past(q)' => sess'[q].turn \in Asked'
           Questions2 == \A t \in Turns : run'[t].status # "absent" => t \in Asked'
           Answers1 == \A t \in Turns : told'[t] = "answered" => t \in Replied'
           Answers2 == \A t \in Turns : t \notin aborted' /\ run'[t].status = "completed" =>
                          t \in Replied' \/ \E q \in Requests : sess'[q].turn = t /\ Writes(q)'
           Goal == Questions1 /\ Questions2 /\ Answers1 /\ Answers2
<1>3. SUFFICES Goal
  BY DEF Keeping, QuestionStays, AnswerStays, AnswerComes
<1>4. ASSUME NEW q \in Requests, SessionStep(q)
      PROVE  Goal
  <2>1. ASSUME NEW t \in Turns, Begins(q, t) \/ Resumes(q, t)
        PROVE  Goal
    <3>1. /\ sess[q].pc = "idle" /\ sess'[q].turn = t /\ run' = run /\ told' = told
          /\ aborted' = aborted
          /\ sess'[q].pc = "resuming" => run[t].status # "absent"
          /\ sess'[q].pc \in {"loading", "asking", "resuming"}
          /\ sess'[q].pc = "loading" => t \in AgentTurns
          /\ \A p \in Requests : p # q => sess'[p] = sess[p]
      BY <2>1 DEF Begins, Resumes, OthersStay, rows, ghosts
    <3>2. Questions1
      BY <1>1, <1>2, <3>1 DEF Past
    <3>3. Questions2 /\ Answers1
      BY <1>1, <1>2, <3>1
    <3>4. Answers2
      BY <1>1, <1>2, <3>1 DEF Writes
    <3> QED
      BY <3>2, <3>3, <3>4
  <2>2. ASSUME sess[q].pc # "idle", OthersStay(q), sess'[q].turn = Turn(q),
               Past(q)' => Turn(q) \in Asked', Writes(q) => Writes(q)', UNCHANGED <<told, aborted>>,
               \/ UNCHANGED run
               \/ \E status \in {"running", "completed"} :
                     /\ RunTo(Turn(q), status) /\ Turn(q) \in Asked
                     /\ status = "completed" => Writes(q)'
        PROVE  Goal
    <3>1. \A p \in Requests : p # q => sess'[p] = sess[p]
      BY <2>2 DEF OthersStay
    <3>2. Questions1
      BY <1>1, <1>2, <2>2, <3>1 DEF Past
    <3>3. Questions2 /\ Answers1
      BY <1>1, <1>2, <2>2 DEF RunTo
    <3>4. \A p \in Requests : Writes(p) => sess'[p].turn = sess[p].turn /\ Writes(p)'
      BY <2>2, <3>1 DEF Writes
    <3>5. Answers2
      BY <1>1, <1>2, <2>2, <3>4 DEF RunTo
    <3> QED
      BY <3>2, <3>3, <3>5
  <2>3. ASSUME NEW from \in Phases, NEW to \in Phases,
               Moves(q, from, to) \/ \E m \in Messages : Flushes(q, m, from, to)
        PROVE  Goal
    <3>1. /\ OthersStay(q) /\ sess'[q].turn = Turn(q) /\ sess[q].pc = from /\ sess'[q].pc = to
          /\ UNCHANGED <<run, told, aborted>>
      BY <2>3 DEF Moves, Flushes, SessionTo, rows, ghosts
    <3>2. sess[q].pc # "idle" /\ (Past(q)' => Past(q)) /\ (Writes(q) => Writes(q)')
      BY <2>3, <3>1 DEF Moves, Flushes, Past, Writes
    <3> QED
      BY <1>1, <1>2, <2>2, <3>1, <3>2
  <2>4. CASE CommitsQuestion(q)
    <3>1. /\ OthersStay(q) /\ sess'[q].turn = Turn(q) /\ sess[q].pc = "asked"
          /\ UNCHANGED <<run, told, aborted>> /\ Commit(q)
      BY <2>4 DEF CommitsQuestion, SessionTo, ghosts
    <3>2. Question(Turn(q), q) \in Written
      BY <3>1 DEF Writing, Flushed
    <3>3. [Question(Turn(q), q) EXCEPT !.lock = Nobody] \in Written'
      BY <3>1, <3>2, CommitRest DEF Question
    <3>4. Turn(q) \in Asked'
      BY <3>1, <3>3 DEF Asked, Question
    <3> QED
      BY <2>2, <3>1, <3>4 DEF Writes
  <2>5. ASSUME NEW from \in Phases, NEW to \in Phases, NEW status \in {"running", "completed"},
               Runs1(q, from, to, status)
        PROVE  Goal
    <3>1. /\ OthersStay(q) /\ sess'[q].turn = Turn(q) /\ UNCHANGED <<told, aborted>>
          /\ sess[q].pc \in {"creating", "resuming", "working"} /\ RunTo(Turn(q), status)
          /\ status = "completed" => Writes(q)'
      BY <2>5 DEF Runs1, SessionTo, ghosts, Writes
    <3>2. Turn(q) \in Asked /\ Turn(q) \in Asked' /\ ~Writes(q)
      BY <1>1, <1>2, <3>1 DEF Past, Writes
    <3> QED
      BY <2>2, <3>1, <3>2
  <2>6. ASSUME NEW what \in {"no answer", "answered"}, sess[q].pc # "idle", SessionEnds(q),
               ClientTold(Turn(q), what), what = "answered" => Turn(q) \in Replied',
               Writes(q) => Turn(q) \in Replied' \/ Turn(q) \in aborted', aborted \subseteq aborted',
               \/ UNCHANGED run
               \/ \E status \in {"failed", "waiting"} :
                     RunTo(Turn(q), status) /\ Turn(q) \in Asked /\ ~Writes(q)
        PROVE  Goal
    <3>1. /\ \A p \in Requests : p # q => sess'[p] = sess[p]
          /\ sess'[q].pc = "idle" /\ Turn(q) \in Turns
      BY <2>6 DEF SessionEnds, OthersStay
    <3>2. Questions1
      BY <1>1, <1>2, <3>1 DEF Past
    <3>3. Questions2
      BY <1>1, <1>2, <2>6, <3>1 DEF RunTo
    <3>4. Answers1
      BY <1>1, <1>2, <2>6, <3>1 DEF ClientTold
    <3>5. ASSUME NEW t \in Turns, t \notin aborted', run'[t].status = "completed"
          PROVE  t \in Replied' \/ \E p \in Requests : sess'[p].turn = t /\ Writes(p)'
      <4>1. run[t].status = "completed" /\ t \notin aborted
        BY <2>6, <3>1, <3>5 DEF RunTo
      <4>2. CASE t \in Replied
        BY <1>1, <4>2
      <4>3. ASSUME NEW p \in Requests, Turn(p) = t, Writes(p)
            PROVE  t \in Replied' \/ \E r \in Requests : sess'[r].turn = t /\ Writes(r)'
        <5>1. CASE p = q
          BY <2>6, <3>5, <4>3, <5>1
        <5>2. CASE p # q
          BY <3>1, <4>3, <5>2 DEF Writes
        <5> QED
          BY <5>1, <5>2
      <4> QED
        BY <1>2, <4>1, <4>2, <4>3
    <3> QED
      BY <3>2, <3>3, <3>4, <3>5
  <2>7. CASE Quits(q)
    <3>1. /\ sess[q].pc # "idle" /\ ~Writes(q) /\ SessionEnds(q)
          /\ ClientTold(Turn(q), "no answer") /\ UNCHANGED <<run, aborted>>
      BY <1>1, <2>7 DEF Quits, rows, Writes
    <3> QED
      BY <2>6, <3>1
  <2>8. ASSUME NEW status \in {"failed", "waiting"}, Stops(q, status)
        PROVE  Goal
    <3>1. /\ sess[q].pc = "working" /\ SessionEnds(q) /\ RunTo(Turn(q), status)
          /\ ClientTold(Turn(q), "no answer") /\ UNCHANGED aborted
      BY <2>8 DEF Stops
    <3>2. Turn(q) \in Asked /\ ~Writes(q) /\ sess[q].pc # "idle"
      BY <1>2, <3>1 DEF Past, Writes
    <3> QED
      BY <2>6, <3>1, <3>2
  <2>9. CASE CommitsAnswer(q)
    <3>1. /\ sess[q].pc = "answered" /\ SessionEnds(q) /\ UNCHANGED <<run, aborted>>
          /\ ClientTold(Turn(q), "answered") /\ Commit(q)
      BY <2>9 DEF CommitsAnswer
    <3>2. Answer(Turn(q), q) \in Written
      BY <3>1 DEF Writing, Flushed
    <3>3. [Answer(Turn(q), q) EXCEPT !.lock = Nobody] \in Written'
      BY <3>1, <3>2, CommitRest DEF Answer
    <3>4. Turn(q) \in Replied'
      BY <3>1, <3>3 DEF Replied, Answer
    <3>5. sess[q].pc # "idle"
      BY <3>1
    <3> QED
      BY <2>6, <3>1, <3>4, <3>5
  <2>10. CASE Aborts(q)
    <3>1. /\ sess[q].pc # "idle" /\ SessionEnds(q) /\ UNCHANGED run
          /\ ClientTold(Turn(q), "no answer") /\ aborted' = aborted \cup {Turn(q)}
      BY <2>10 DEF Aborts
    <3> QED
      BY <2>6, <3>1
  <2> QED
    BY <1>4, <2>1, <2>3, <2>4, <2>5, <2>7, <2>8, <2>9, <2>10 DEF SessionStep
<1>5. ASSUME NEW t \in Turns, Rejects(t)
      PROVE  Goal
  <2>1. /\ UNCHANGED <<sess, told, aborted>> /\ run[t].status = "waiting"
        /\ run'[t].status = "failed" /\ \A u \in Turns : u # t => run'[u] = run[u]
    BY <1>5 DEF Rejects, RunTo, ghosts
  <2>2. \A p \in Requests : (Past(p)' <=> Past(p)) /\ (Writes(p)' <=> Writes(p))
    BY <2>1 DEF Past, Writes
  <2> QED
    BY <1>1, <1>2, <2>1, <2>2
<1>6. ~Deletes
  BY DEF Deletes
<1> QED
  BY <1>4, <1>5, <1>6 DEF Step

-----------------------------------------------------------------------------
(* The order of the messages *)

LEMMA LogTyped ==
    ASSUME Types
    PROVE  /\ Len(log) \in Nat /\ DOMAIN log = 1 .. Len(log)
           /\ \A i \in 1 .. Len(log) : log[i] \in Written
BY LenProperties DEF Types, TypeOK, Written

LEMMA InitOrder == Init => Order
BY EmptySeq DEF Init, Order, OneQuestion, Once, QuestionFirst

\* A turn has one message of a role at most, also after one is added that is the
\* first of its kind or of another kind,
LEMMA OnceMore ==
    ASSUME Types, NEW m \in Messages, log' = Append(log, m), NEW t, NEW role,
           \A k \in Written : ~(k.turn = t /\ k.role = role)
    PROVE  Once(t, role)'
<1> DEFINE n == Len(log)
<1>1. /\ n \in Nat /\ DOMAIN log' = 1 .. n + 1
      /\ log'[n + 1] = m /\ \A i \in 1 .. n : log'[i] = log[i] /\ log[i] \in Written
  BY LogTyped, Appended DEF Types, TypeOK
<1> HIDE DEF n
<1>2. \A i \in 1 .. n + 1 : log'[i].turn = t /\ log'[i].role = role => i = n + 1
  BY <1>1
<1> QED
  BY <1>1, <1>2 DEF Once

LEMMA OnceStill ==
    ASSUME Types, NEW m \in Messages, log' = Append(log, m), NEW t, NEW role,
           Once(t, role), ~(m.turn = t /\ m.role = role)
    PROVE  Once(t, role)'
<1> DEFINE n == Len(log)
<1>1. /\ n \in Nat /\ DOMAIN log = 1 .. n /\ DOMAIN log' = 1 .. n + 1
      /\ log'[n + 1] = m /\ \A i \in 1 .. n : log'[i] = log[i]
  BY LogTyped, Appended DEF Types, TypeOK
<1> HIDE DEF n
<1>2. \A i \in 1 .. n + 1 : log'[i].turn = t /\ log'[i].role = role => i \in 1 .. n
  BY <1>1
<1> QED
  BY <1>1, <1>2 DEF Once

\* after a commit
LEMMA OnceAfterCommit ==
    ASSUME Types, NEW q, Commit(q), NEW t, NEW role, Once(t, role)
    PROVE  Once(t, role)'
<1>1. /\ DOMAIN log' = DOMAIN log
      /\ \A i \in DOMAIN log : log'[i] = Released(log[i], q) /\ log[i] \in Written
  BY LogTyped, Committed DEF Types, TypeOK
<1>2. \A i \in DOMAIN log : log'[i].turn = log[i].turn /\ log'[i].role = log[i].role
  BY <1>1, ReleasedMessage
<1> QED
  BY <1>1, <1>2 DEF Once

\* and a rollback.
LEMMA OnceAfterRollback ==
    ASSUME Types, NEW q, Rollback(q), NEW t, NEW role, Once(t, role)
    PROVE  Once(t, role)'
<1>1. PICK at : Places(at, log', log, {m \in Messages : m.lock # q})
  BY RolledBack DEF Types, TypeOK
<1>2. /\ Len(log') \in Nat /\ DOMAIN log' = 1 .. Len(log')
      /\ DOMAIN log = 1 .. Len(log) /\ Len(log) \in Nat
  BY RolledBack, LenProperties DEF Types, TypeOK
<1>3. /\ \A k \in 1 .. Len(log') : at[k] \in 1 .. Len(log) /\ log'[k] = log[at[k]]
      /\ \A k, l \in 1 .. Len(log') : k < l => at[k] < at[l]
  BY <1>1 DEF Places
<1> DEFINE n == Len(log')
<1> HIDE DEF n
<1>4. ASSUME NEW i \in 1 .. n, NEW j \in 1 .. n, log'[i].turn = t, log'[i].role = role,
             log'[j].turn = t, log'[j].role = role
      PROVE  i = j
  <2>1. at[i] = at[j]
    BY <1>2, <1>3, <1>4 DEF Once, n
  <2>2. at[i] \in Nat /\ n \in Nat /\ (i < j => at[i] < at[j]) /\ (j < i => at[j] < at[i])
    BY <1>2, <1>3 DEF n
  <2> QED
    BY <2>1, <2>2
<1> QED
  BY <1>2, <1>4 DEF Once, n

LEMMA OrderOfFlush ==
    ASSUME Types, Control, Writing, Keeping, Order, NEW q \in Requests,
           NEW m \in Messages, NEW from, NEW to, Flushes(q, m, from, to)
    PROVE  Order'
<1> DEFINE n == Len(log)
<1>1. /\ n \in Nat /\ DOMAIN log = 1 .. n /\ DOMAIN log' = 1 .. n + 1
      /\ log'[n + 1] = m /\ \A i \in 1 .. n : log'[i] = log[i] /\ log[i] \in Written
  BY LogTyped, Appended DEF Types, TypeOK, Flushes
<1>2. /\ m.turn = Turn(q)
      /\ m.role = "user" => \A k \in Written : k.turn # Turn(q)
      /\ m.role = "assistant" => Turn(q) \in Asked
  <2>1. CASE sess[q].pc = "asking" /\ m = Question(Turn(q), q)
    BY <2>1 DEF Question, Writing, NothingYet
  <2>2. CASE sess[q].pc = "answering" /\ m = Answer(Turn(q), q) /\ conv
    BY <2>2 DEF Answer, Keeping, QuestionStays, Past
  <2> QED
    BY <2>1, <2>2 DEF Flushes
<1> HIDE DEF n
<1>3. OneQuestion'
  <2>1. ASSUME NEW t \in Turns
        PROVE  Once(t, "user")'
    <3>1. CASE m.role = "user" /\ t = Turn(q)
      <4>1. \A k \in Written : ~(k.turn = t /\ k.role = "user")
        BY <1>2, <3>1
      <4> QED
        BY <4>1, OnceMore DEF Flushes
    <3>2. CASE ~(m.turn = t /\ m.role = "user")
      BY <3>2, OnceStill DEF Order, OneQuestion, Flushes
    <3> QED
      BY <1>2, <3>1, <3>2
  <2> QED
    BY <2>1 DEF OneQuestion
<1>4. ASSUME NEW j \in 1 .. n + 1, log'[j].role = "assistant"
      PROVE  \E i \in 1 .. (j - 1) : Says(log'[i], log'[j].turn, "user")
  <2>1. CASE j \in 1 .. n
    <3>1. log'[j] = log[j] /\ j \in DOMAIN log
      BY <1>1, <2>1
    <3>2. PICK i \in 1 .. (j - 1) : Says(log[i], log[j].turn, "user")
      BY <1>4, <3>1 DEF Order, QuestionFirst
    <3>3. log'[i] = log[i]
      BY <1>1, <2>1
    <3> QED
      BY <3>1, <3>2, <3>3
  <2>2. CASE j = n + 1
    <3>1. Turn(q) \in Asked
      BY <1>1, <1>2, <1>4, <2>2
    <3>2. PICK i \in 1 .. n : log[i] = Question(Turn(q), Nobody)
      BY <1>1, <3>1 DEF Asked, Written
    <3>3. Says(log'[i], log'[j].turn, "user") /\ i \in 1 .. (j - 1)
      BY <1>1, <1>2, <2>2, <3>2 DEF Question, Says
    <3> QED
      BY <3>3
  <2> QED
    BY <1>1, <2>1, <2>2
<1> QED
  BY <1>1, <1>3, <1>4 DEF Order, QuestionFirst

LEMMA OrderOfCommit ==
    ASSUME Types, Order, NEW q \in Requests, Commit(q)
    PROVE  Order'
<1>1. /\ Len(log) \in Nat /\ DOMAIN log = 1 .. Len(log) /\ DOMAIN log' = DOMAIN log
      /\ \A i \in DOMAIN log : log'[i] = Released(log[i], q) /\ log[i] \in Written
  BY LogTyped, Committed DEF Types, TypeOK
<1>2. \A i \in DOMAIN log : /\ log'[i].turn = log[i].turn /\ log'[i].role = log[i].role
                            /\ log[i].lock = Nobody => log'[i].lock = Nobody
  BY <1>1, ReleasedMessage
<1>3. OneQuestion'
  BY OnceAfterCommit DEF Order, OneQuestion
<1>4. ASSUME NEW j \in DOMAIN log', log'[j].role = "assistant"
      PROVE  \E i \in 1 .. (j - 1) : Says(log'[i], log'[j].turn, "user")
  <2>1. PICK i \in 1 .. (j - 1) : Says(log[i], log[j].turn, "user")
    BY <1>1, <1>2, <1>4 DEF Order, QuestionFirst
  <2>2. i \in DOMAIN log /\ j \in DOMAIN log
    BY <1>1
  <2> QED
    BY <1>2, <2>1, <2>2 DEF Says
<1>5. QuestionFirst'
  BY <1>4 DEF QuestionFirst
<1> QED
  BY <1>3, <1>5 DEF Order

LEMMA OrderOfRollback ==
    ASSUME Types, Order, NEW q \in Requests, Rollback(q)
    PROVE  Order'
<1> DEFINE S == {m \in Messages : m.lock # q}
<1>1. PICK at : Places(at, log', log, S)
  BY RolledBack DEF Types, TypeOK
<1>2. /\ log' \in Seq(Messages) /\ Len(log') \in Nat /\ DOMAIN log' = 1 .. Len(log')
      /\ DOMAIN log = 1 .. Len(log) /\ Len(log) \in Nat
      /\ \A i \in 1 .. Len(log) : log[i] \in Messages
  BY RolledBack, LenProperties DEF Types, TypeOK
<1>3. q # Nobody
  BY SessionFacts
<1>4. /\ \A k \in 1 .. Len(log') : at[k] \in 1 .. Len(log) /\ log'[k] = log[at[k]]
      /\ \A k, l \in 1 .. Len(log') : k < l => at[k] < at[l]
      /\ \A i \in 1 .. Len(log) : log[i] \in S => \E k \in 1 .. Len(log') : at[k] = i
  BY <1>1 DEF Places
<1> DEFINE l == Len(log)
           n == Len(log')
<1> HIDE DEF l, n
<1>5. ASSUME NEW j \in 1 .. n, log'[j].role = "assistant"
      PROVE  \E i \in 1 .. (j - 1) : Says(log'[i], log'[j].turn, "user")
  <2>1. at[j] \in 1 .. l /\ log'[j] = log[at[j]] /\ l \in Nat /\ n \in Nat
    BY <1>2, <1>4 DEF l, n
  <2>2. PICK i \in 1 .. (at[j] - 1) : Says(log[i], log[at[j]].turn, "user")
    BY <1>2, <1>5, <2>1 DEF Order, QuestionFirst, l
  <2>3. i \in 1 .. l
    BY <2>1
  <2>4. log[i] \in S
    BY <1>2, <1>3, <2>2, <2>3 DEF Says, l
  <2>5. PICK k \in 1 .. n : at[k] = i
    BY <1>4, <2>3, <2>4 DEF l, n
  <2>6. log'[k] = log[i] /\ (j < k => at[j] < at[k])
    BY <1>4, <2>5 DEF n
  <2>7. k # j /\ ~(at[j] < at[k])
    BY <2>1, <2>5
  <2>8. k \in 1 .. (j - 1)
    BY <2>1, <2>6, <2>7
  <2> QED
    BY <2>1, <2>2, <2>6, <2>8
<1>6. OneQuestion'
  BY OnceAfterRollback DEF Order, OneQuestion
<1>7. QuestionFirst'
  BY <1>2, <1>5 DEF QuestionFirst, n
<1> QED
  BY <1>6, <1>7 DEF Order

\* A step leaves the log alone, or it is one of these.
LEMMA LogSteps ==
    ASSUME Step
    PROVE  \/ log' = log
           \/ \E q \in Requests : Commit(q) \/ Rollback(q)
           \/ \E q \in Requests, m \in Messages, from, to \in Phases : Flushes(q, m, from, to)
           \/ Deletes
<1>1. ASSUME NEW q \in Requests, SessionStep(q)
      PROVE  \/ log' = log \/ Commit(q) \/ Rollback(q)
             \/ \E m \in Messages, from, to \in Phases : Flushes(q, m, from, to)
  BY <1>1
     DEF SessionStep, Begins, Resumes, Moves, Quits, CommitsQuestion, CommitsAnswer, Runs1, Stops,
         Aborts, rows
<1> QED
  BY <1>1 DEF Step, Rejects

LEMMA OrderStep ==
    ASSUME Types, Control, Writing, Keeping, Order, Step
    PROVE  Order'
<1>1. CASE log' = log
  BY <1>1 DEF Order, OneQuestion, Once, QuestionFirst
<1>2. CASE Deletes
  BY <1>2, EmptySeq DEF Deletes, Order, OneQuestion, Once, QuestionFirst
<1> QED
  BY <1>1, <1>2, LogSteps, OrderOfFlush, OrderOfCommit, OrderOfRollback

-----------------------------------------------------------------------------
(* Requests that keep apart *)

LEMMA InitApart == Init => Apart /\ OneAnswer
<1> SUFFICES ASSUME Init PROVE Apart /\ OneAnswer
  OBVIOUS
<1>1. log = <<>> /\ Written = {}
  BY EmptySeq DEF Init, Written
<1>2. Nobody \notin Turns
  BY ConversationAssumption DEF ConversationAssumption
<1>3. OneAnswer
  BY <1>1, EmptySeq DEF OneAnswer
<1> QED
  BY <1>1, <1>2, <1>3 DEF Init, Apart, OneAtATime, WaitingRests, NoSecondAnswer, Turn, Idle, NoRun

\* A session goes on
LEMMA ApartGoesOn ==
    ASSUME Types, Apart, NEW q \in Requests, sess[q].pc \notin {"idle", "answered"},
           OthersStay(q), sess'[q].turn = Turn(q), contended' = contended,
           \/ UNCHANGED run /\ sess[q].pc # "resuming"
           \/ \E status \in {"running", "completed"} : RunTo(Turn(q), status),
           \A m \in Written' : m.role = "assistant" =>
               \/ \E k \in Written : k.turn = m.turn /\ k.role = m.role
               \/ m.turn = Turn(q) /\ sess'[q].pc = "answered"
    PROVE  Apart'
<1> USE SessionFacts, WrittenTyped DEF Apart, Turn
<1>1. \A p \in Requests : p # q => sess'[p] = sess[p]
  BY DEF OthersStay
<1>2. OneAtATime'
  BY <1>1 DEF OneAtATime
<1>3. /\ Turn(q) \notin contended => run'[Turn(q)].status # "waiting"
      /\ \A u \in Turns : u # Turn(q) => run'[u] = run[u]
  BY DEF WaitingRests, RunTo
<1>4. ASSUME NEW p \in Requests, p # q, Turn(p) \in Turns \ contended
      PROVE  Turn(p) # Turn(q)
  BY <1>4 DEF OneAtATime
<1>5. WaitingRests'
  BY <1>1, <1>3, <1>4 DEF WaitingRests
<1>6. ASSUME NEW m \in Written', m.role = "assistant", m.turn \notin contended
      PROVE  /\ run'[m.turn].status # "waiting"
             /\ \A p \in Requests : sess'[p].turn = m.turn => sess'[p].pc = "answered"
  <2>1. ASSUME NEW k \in Written, k.turn = m.turn, k.role = m.role
        PROVE  /\ run'[m.turn].status # "waiting"
               /\ \A p \in Requests : sess'[p].turn = m.turn => sess'[p].pc = "answered"
    <3>1. /\ run[k.turn].status # "waiting" /\ k.turn \in Turns
          /\ \A p \in Requests : Turn(p) = k.turn => sess[p].pc = "answered"
      BY <1>6, <2>1 DEF NoSecondAnswer
    <3>2. k.turn # Turn(q)
      BY <3>1
    <3> QED
      BY <1>1, <1>3, <2>1, <3>1, <3>2
  <2>2. CASE m.turn = Turn(q) /\ sess'[q].pc = "answered"
    BY <1>1, <1>3, <1>4, <1>6, <2>2
  <2> QED
    BY <1>6, <2>1, <2>2
<1>7. NoSecondAnswer'
  BY <1>6 DEF NoSecondAnswer
<1> QED
  BY <1>2, <1>5, <1>7

\* or ends.
LEMMA ApartEnds ==
    ASSUME Types, Apart, NEW q \in Requests, sess[q].pc # "idle",
           SessionEnds(q), contended' = contended,
           \/ UNCHANGED run
           \/ sess[q].pc = "working" /\ \E status : RunTo(Turn(q), status),
           \A m \in Written' : \E k \in Written : k.turn = m.turn /\ k.role = m.role
    PROVE  Apart'
<1> USE SessionFacts, WrittenTyped DEF Apart, Turn
<1>1. sess'[q].turn = Nobody /\ \A p \in Requests : p # q => sess'[p] = sess[p]
  BY DEF SessionEnds, OthersStay
<1>2. OneAtATime'
  BY <1>1 DEF OneAtATime
<1>3. \A u \in Turns : u # Turn(q) => run'[u] = run[u]
  BY DEF RunTo
<1>4. ASSUME NEW p \in Requests, p # q, Turn(p) \in Turns \ contended
      PROVE  Turn(p) # Turn(q)
  BY <1>4 DEF OneAtATime
<1>5. WaitingRests'
  BY <1>1, <1>3, <1>4 DEF WaitingRests
<1>6. ASSUME NEW m \in Written', m.role = "assistant", m.turn \notin contended
      PROVE  /\ run'[m.turn].status # "waiting"
             /\ \A p \in Requests : sess'[p].turn = m.turn => sess'[p].pc = "answered"
  <2>1. PICK k \in Written : k.turn = m.turn /\ k.role = m.role
    OBVIOUS
  <2>2. /\ run[k.turn].status # "waiting" /\ k.turn \in Turns
        /\ \A p \in Requests : Turn(p) = k.turn => sess[p].pc = "answered"
    BY <1>6, <2>1 DEF NoSecondAnswer
  <2>3. run'[k.turn].status # "waiting"
    BY <1>3, <2>2
  <2> QED
    BY <1>1, <2>1, <2>2, <2>3
<1>7. NoSecondAnswer'
  BY <1>6 DEF NoSecondAnswer
<1> QED
  BY <1>2, <1>5, <1>7

LEMMA ApartStep ==
    ASSUME Types, Control, Writing, Apart, Step
    PROVE  Apart'
<1> USE SessionFacts, WrittenTyped DEF Turn
<1>1. ASSUME NEW q \in Requests, SessionStep(q)
      PROVE  Apart'
  <2>1. ASSUME NEW t \in Turns, Begins(q, t)
        PROVE  Apart'
    <3>1. /\ sess'[q].turn = t /\ \A p \in Requests : p # q => sess'[p] = sess[p] /\ Turn(p) # t
          /\ UNCHANGED <<run, contended>> /\ run[t].status = "absent" /\ sess[q].pc = "idle"
      BY <2>1 DEF Begins, OthersStay, Started, Control, NoRunYet, rows, ghosts
    <3>2. Written' = Written /\ \A m \in Written : m.turn # t
      BY <2>1, WrittenSame DEF Begins, Writing, NothingYet, rows
    <3>3. OneAtATime' /\ WaitingRests'
      BY <3>1 DEF Apart, OneAtATime, WaitingRests
    <3>4. NoSecondAnswer'
      BY <3>1, <3>2 DEF Apart, NoSecondAnswer
    <3> QED
      BY <3>3, <3>4 DEF Apart
  <2>2. ASSUME NEW t \in Turns, Resumes(q, t)
        PROVE  Apart'
    <3>1. /\ sess'[q].turn = t /\ sess'[q].pc = "resuming"
          /\ \A p \in Requests : p # q => sess'[p] = sess[p]
          /\ contended \subseteq contended' /\ sess[q].pc = "idle"
          /\ \A p \in Requests : Turn(p) = t => t \in contended'
          /\ run' = run /\ run[t].status = "waiting"
      BY <2>2 DEF Resumes, OthersStay, rows
    <3>2. Written' = Written
      BY <2>2, WrittenSame DEF Resumes, rows
    <3>3. OneAtATime' /\ WaitingRests'
      BY <3>1 DEF Apart, OneAtATime, WaitingRests
    <3>4. NoSecondAnswer'
      BY <3>1, <3>2 DEF Apart, NoSecondAnswer
    <3> QED
      BY <3>3, <3>4 DEF Apart
  <2>3. ASSUME NEW from \in Phases, NEW to \in Phases, NEW status \in {"running", "completed"},
               Moves(q, from, to) \/ Runs1(q, from, to, status)
        PROVE  Apart'
    <3>1. /\ sess[q].pc \notin {"idle", "answered"} /\ OthersStay(q) /\ sess'[q].turn = Turn(q)
          /\ contended' = contended /\ UNCHANGED log
          /\ \/ UNCHANGED run /\ sess[q].pc # "resuming"
             \/ RunTo(Turn(q), status)
      BY <2>3 DEF Moves, Runs1, SessionTo, rows, ghosts
    <3> QED
      BY <3>1, WrittenSame, ApartGoesOn
  <2>4. ASSUME NEW from \in Phases, NEW to \in Phases, NEW m \in Messages,
               Flushes(q, m, from, to)
        PROVE  Apart'
    <3>1. /\ sess[q].pc \notin {"idle", "answered", "resuming"} /\ OthersStay(q)
          /\ sess'[q].turn = Turn(q)
          /\ contended' = contended /\ UNCHANGED run
          /\ m.role = "assistant" => m.turn = Turn(q) /\ sess'[q].pc = "answered"
      BY <2>4 DEF Flushes, SessionTo, ghosts, Question, Answer
    <3>2. Written' = Written \cup {m}
      BY <2>4, Appended DEF Flushes, Types, TypeOK
    <3> QED
      BY <3>1, <3>2, ApartGoesOn
  <2>5. CASE CommitsQuestion(q)
    <3>1. /\ sess[q].pc = "asked" /\ OthersStay(q) /\ sess'[q].turn = Turn(q)
          /\ contended' = contended /\ UNCHANGED run /\ Rest(q)
      BY <2>5, CommitRest DEF CommitsQuestion, SessionTo, ghosts
    <3>2. \A m \in Written' : \E k \in Written : k.turn = m.turn /\ k.role = m.role
      BY <3>1 DEF Rest
    <3> QED
      BY <3>1, <3>2, ApartGoesOn
  <2>6. ASSUME NEW status \in {"failed", "waiting"}, Quits(q) \/ Stops(q, status)
        PROVE  Apart'
    <3>1. /\ sess[q].pc # "idle" /\ SessionEnds(q) /\ contended' = contended /\ UNCHANGED log
          /\ \/ UNCHANGED run
             \/ sess[q].pc = "working" /\ RunTo(Turn(q), status)
      BY <2>6 DEF Quits, Stops, rows
    <3> QED
      BY <3>1, WrittenSame, ApartEnds
  <2>7. CASE CommitsAnswer(q) \/ Aborts(q)
    <3>1. /\ sess[q].pc # "idle" /\ SessionEnds(q) /\ contended' = contended /\ UNCHANGED run
          /\ Rest(q)
      BY <2>7, CommitRest, RollbackRest DEF CommitsAnswer, Aborts
    <3>2. \A m \in Written' : \E k \in Written : k.turn = m.turn /\ k.role = m.role
      BY <3>1 DEF Rest
    <3> QED
      BY <3>1, <3>2, ApartEnds
  <2> QED
    BY <1>1, <2>1, <2>2, <2>3, <2>4, <2>5, <2>6, <2>7 DEF SessionStep
<1>2. ASSUME NEW t \in Turns, Rejects(t)
      PROVE  Apart'
  <2>1. /\ UNCHANGED <<sess, contended>> /\ Written' = Written
        /\ run'[t].status = "failed" /\ \A u \in Turns : u # t => run'[u] = run[u]
    BY <1>2, WrittenSame DEF Rejects, RunTo, ghosts
  <2>2. OneAtATime' /\ WaitingRests'
    BY <2>1 DEF Apart, OneAtATime, WaitingRests
  <2>3. NoSecondAnswer'
    BY <2>1 DEF Apart, NoSecondAnswer
  <2> QED
    BY <2>2, <2>3 DEF Apart
<1>3. CASE Deletes
  BY <1>3 DEF Deletes, ghosts, Apart, OneAtATime, WaitingRests, NoSecondAnswer
<1> QED
  BY <1>1, <1>2, <1>3 DEF Step

LEMMA OnceIsOneAnswer == OneAnswer <=> \A t \in Turns \ contended : Once(t, "assistant")
BY DEF OneAnswer, Once

LEMMA OneAnswerStep ==
    ASSUME Types, Apart, OneAnswer, Step
    PROVE  OneAnswer'
<1>1. contended \subseteq contended'
  BY ZenonT(40) DEF Step, SessionStep, Begins, Resumes, Moves, Quits, Flushes, CommitsQuestion,
         CommitsAnswer, Runs1, Stops, Aborts, Rejects, Deletes, ghosts
<1>2. ASSUME NEW t \in Turns, t \notin contended'
      PROVE  Once(t, "assistant")'
  <2>1. Once(t, "assistant") /\ t \notin contended
    BY <1>1, <1>2, OnceIsOneAnswer
  <2>2. CASE log' = log
    BY <2>1, <2>2 DEF Once
  <2>3. CASE Deletes
    BY <2>3, EmptySeq DEF Deletes, Once
  <2>4. ASSUME NEW q \in Requests, NEW m \in Messages, NEW from \in Phases, NEW to \in Phases,
               Flushes(q, m, from, to)
        PROVE  Once(t, "assistant")'
    <3>1. log' = Append(log, m)
      BY <2>4 DEF Flushes
    <3>2. CASE m.turn = t /\ m.role = "assistant"
      <4>1. sess[q].pc = "answering" /\ Turn(q) = t
        BY <2>4, <3>2 DEF Flushes, Question, Answer
      <4>2. \A k \in Written : ~(k.turn = t /\ k.role = "assistant")
        BY <2>1, <4>1 DEF Apart, NoSecondAnswer
      <4> QED
        BY <3>1, <4>2, OnceMore
    <3>3. CASE ~(m.turn = t /\ m.role = "assistant")
      BY <2>1, <3>1, <3>3, OnceStill
    <3> QED
      BY <3>2, <3>3
  <2> QED
    BY <2>1, <2>2, <2>3, <2>4, LogSteps, OnceAfterCommit, OnceAfterRollback
<1> QED
  BY <1>2 DEF OneAnswer, Once

-----------------------------------------------------------------------------
(* What histories show *)

LEMMA KeptElements ==
    ASSUME NEW T, NEW s \in Seq(T), NEW S
    PROVE  \A k \in 1 .. Len(Kept(s, S)) :
              Kept(s, S)[k] \in S /\ \E i \in 1 .. Len(s) : Kept(s, S)[k] = s[i]
<1>1. PICK at : Places(at, Kept(s, S), s, S)
  BY KeptPlaces
<1> QED
  BY <1>1 DEF Places

LEMMA HistoryLoaded ==
    ASSUME Types, Control, Writing, NEW q \in Requests, LoadHistory(q)
    PROVE  \A i \in DOMAIN sess'[q].window : sess'[q].window[i].turn # Turn(q)
<1>1. History \in Nat /\ History + 1 \in Nat /\ log \in Seq(Messages)
  <2>1. History \in Nat
    BY EmptyTyped
  <2>2. History + 1 \in Nat
    BY <2>1
  <2>3. log \in Seq(Messages)
    BY DEF Types, TypeOK
  <2> QED
    BY <2>1, <2>2, <2>3
<1>2. sess[q].pc = "loading"
      /\ sess'[q].window = IF IsChat(q) THEN ChatWindow(q) ELSE RunWindow(q)
  BY DEF LoadHistory, Types, TypeOK, Sessions
<1>3. CASE IsChat(q)
  <2> DEFINE s == Kept(ListMessages(q, History + 1), OfOthers(Turn(q)))
  <2>1. s \in Seq(Messages) /\ \A i \in 1 .. Len(s) : s[i] \in OfOthers(Turn(q))
    <3>1. ListMessages(q, History + 1) \in Seq(Messages)
      BY <1>1, ListTyped
    <3>2. s \in Seq(Messages)
      BY <3>1, KeptTyped
    <3>3. \A k \in 1 .. Len(s) : s[k] \in OfOthers(Turn(q))
      BY <3>1, KeptElements
    <3> QED
      BY <3>2, <3>3
  <2>2. ChatWindow(q) = Windowed(s)
    BY DEF ChatWindow
  <2> HIDE DEF s
  <2>3. \A i \in 1 .. Len(s) : s[i].turn # Turn(q)
    BY <2>1 DEF OfOthers
  <2>4. \A i \in DOMAIN Windowed(s) : Windowed(s)[i].turn # Turn(q)
    BY <1>1, <2>1, <2>3, WindowOf
  <2> QED
    BY <1>2, <1>3, <2>2, <2>4
<1>4. CASE ~IsChat(q)
  <2> DEFINE S == {m \in Messages : m.lock \in {q, Nobody}}
             r == Kept(log, S)
             s == Newest(r, History)
  <2>1. r \in Seq(Messages) /\ \A k \in 1 .. Len(r) : \E i \in 1 .. Len(log) : r[k] = log[i]
    <3> HIDE DEF S
    <3>1. r \in Seq(Messages)
      BY <1>1, KeptTyped
    <3>2. \A k \in 1 .. Len(r) : \E i \in 1 .. Len(log) : r[k] = log[i]
      BY <1>1, KeptElements
    <3> QED
      BY <3>1, <3>2
  <2>2. s \in Seq(Messages) /\ \A i \in 1 .. Len(s) : \E j \in 1 .. Len(r) : s[i] = r[j]
    <3> HIDE DEF r
    <3>1. r \in Seq(Messages) /\ History \in Nat
      BY <1>1, <2>1
    <3>2. s \in Seq(Messages)
      BY <3>1, NewestTyped
    <3>3. \A i \in 1 .. Len(Newest(r, History)) :
             \E j \in 1 .. Len(r) : Newest(r, History)[i] = r[j]
      BY <3>1, NewestElements
    <3> QED
      BY <3>2, <3>3
  <2>3. RunWindow(q) = Windowed(s)
    BY DEF RunWindow, ListMessages
  <2> HIDE DEF r, s
  <2>4. \A i \in 1 .. Len(log) : log[i].turn # Turn(q)
    BY <1>2, <1>4, LogTyped DEF Writing, NothingYet
  <2>5. \A i \in 1 .. Len(s) : s[i].turn # Turn(q)
    BY <2>1, <2>2, <2>4
  <2>6. \A i \in DOMAIN Windowed(s) : Windowed(s)[i].turn # Turn(q)
    BY <1>1, <2>2, <2>5, WindowOf
  <2> QED
    BY <1>2, <1>4, <2>3, <2>6
<1> QED
  BY <1>3, <1>4

\* A session whose history is not loaded keeps what it has, takes that of its run or
\* starts with none.
KeepsWindow(q) ==
    \/ sess'[q].window = sess[q].window /\ sess'[q].turn = Turn(q)
    \/ sess'[q].window = <<>>
    \/ sess[q].pc = "resuming" /\ sess'[q].window = run[Turn(q)].history /\ sess'[q].turn = Turn(q)

\* A run keeps its history or takes that of its session, and it has its answer when
\* it is completed.
KeepsRuns ==
    \A t \in Turns :
        /\ \/ run'[t].history = run[t].history
           \/ \E q \in Requests : Turn(q) = t /\ run'[t].history = sess[q].window
        /\ \/ /\ run'[t].answered = run[t].answered
              /\ run'[t].status = "completed" => run[t].status = "completed"
           \/ run'[t].status = "completed" => run'[t].answered

LEMMA Keeps ==
    ASSUME Types, Next
    PROVE  /\ \A q \in Requests : LoadHistory(q) \/ KeepsWindow(q)
           /\ KeepsRuns
<1> DEFINE Goal == (\A p \in Requests : LoadHistory(p) \/ KeepsWindow(p)) /\ KeepsRuns
<1>1. ASSUME UNCHANGED run
      PROVE  KeepsRuns
  BY <1>1 DEF KeepsRuns
<1>2. ASSUME UNCHANGED sess
      PROVE  \A p \in Requests : KeepsWindow(p)
  BY <1>2 DEF KeepsWindow, Turn
<1>3. ASSUME NEW q \in Requests, NEW pc, Goto(q, pc)
      PROVE  \A p \in Requests : KeepsWindow(p)
  BY <1>3 DEF KeepsWindow, Goto, Turn, Types, TypeOK, Sessions
<1>4. ASSUME NEW q \in Requests, NEW what, Reply(q, what)
      PROVE  \A p \in Requests : KeepsWindow(p)
  BY <1>4 DEF KeepsWindow, Reply, Idle, Turn, Types, TypeOK, Sessions
<1>5. ASSUME NEW q \in Requests, sess[q].pc # "idle",
             NEW status \in {"completed", "failed", "waiting"}, NEW n, SaveRun(q, status, n)
      PROVE  KeepsRuns
  <2>1. Turn(q) \in Turns /\ run \in [Turns -> Runs]
    BY <1>5, Worker DEF Types, TypeOK
  <2>2. /\ run'[Turn(q)].history = sess[q].window
        /\ run'[Turn(q)].status = "completed" => run'[Turn(q)].answered
        /\ \A t \in Turns : t # Turn(q) => run'[t] = run[t]
    BY <1>5, <2>1 DEF SaveRun
  <2> QED
    BY <2>1, <2>2 DEF KeepsRuns
<1>6. ASSUME NEW q \in Requests, Serve(q)
      PROVE  Goal
  <2>1. CASE LoadHistory(q)
    <3>1. UNCHANGED run /\ \A p \in Requests : p # q => sess'[p] = sess[p]
      BY <2>1 DEF LoadHistory, rows, Types, TypeOK
    <3> QED
      BY <1>1, <2>1, <3>1 DEF KeepsWindow, Turn
  <2>2. CASE Ask(q) \/ FlushAnswer(q)
    BY <1>1, <1>3, <1>4, <2>2 DEF Ask, FlushAnswer, Flush, ForeignKeyFails
  <2>3. CASE CommitQuestion(q)
    BY <1>1, <1>3, <2>3 DEF CommitQuestion
  <2>4. CASE CommitAnswer(q)
    BY <1>1, <1>4, <2>4 DEF CommitAnswer
  <2>5. CASE Retrieve(q) \/ Generate(q) \/ Refresh(q)
    BY <1>1, <1>3, <1>4, <2>5 DEF Retrieve, Generate, Refresh, rows
  <2>6. CASE CreateRun(q)
    <3>1. CASE ForeignKeyFails(q) /\ UNCHANGED run
      BY <1>1, <1>4, <3>1 DEF ForeignKeyFails
    <3>2. CASE /\ Goto(q, "working")
               /\ run' = [run EXCEPT ![Turn(q)].status = "running",
                                     ![Turn(q)].history = sess[q].window]
      <4>1. Turn(q) \in Turns /\ run \in [Turns -> Runs]
        BY <2>6, Worker DEF CreateRun, Types, TypeOK
      <4>2. /\ run'[Turn(q)].history = sess[q].window
            /\ run'[Turn(q)].answered = run[Turn(q)].answered /\ run'[Turn(q)].status = "running"
            /\ \A t \in Turns : t # Turn(q) => run'[t] = run[t]
        BY <3>2, <4>1 DEF Runs
      <4>3. KeepsRuns
        BY <4>1, <4>2 DEF KeepsRuns
      <4> QED
        BY <1>3, <3>2, <4>3
    <3> QED
      BY <2>6, <3>1, <3>2, Zenon DEF CreateRun
  <2>7. CASE Resume(q)
    <3>1. Turn(q) \in Turns /\ run \in [Turns -> Runs]
      BY <2>7, Worker DEF Resume, Types, TypeOK
    <3>2. /\ run'[Turn(q)].history = run[Turn(q)].history
          /\ run'[Turn(q)].answered = run[Turn(q)].answered /\ run'[Turn(q)].status = "running"
          /\ \A t \in Turns : t # Turn(q) => run'[t] = run[t]
      BY <2>7, <3>1 DEF Resume, Runs
    <3>3. KeepsRuns
      BY <3>1, <3>2 DEF KeepsRuns
    <3>4. \A p \in Requests : KeepsWindow(p)
      BY <2>7 DEF Resume, KeepsWindow, Turn, Types, TypeOK, Sessions
    <3> QED
      BY <3>3, <3>4
  <2>8. CASE FinishRun(q)
    BY <1>3, <1>5, <2>8 DEF FinishRun
  <2>9. CASE FailRun(q) \/ PauseRun(q)
    BY <1>4, <1>5, <2>9 DEF FailRun, PauseRun
  <2> QED
    BY <1>6, <2>1, <2>2, <2>3, <2>4, <2>5, <2>6, <2>7, <2>8, <2>9 DEF Serve
<1>7. ASSUME NEW q \in Requests, Arrive(q)
      PROVE  Goal
  <2>1. UNCHANGED run
    BY <1>7 DEF Arrive, Begin, BeginResume, rows
  <2>2. \A p \in Requests : KeepsWindow(p)
    BY <1>7, ZenonT(40) DEF Arrive, Begin, BeginResume, KeepsWindow, Idle, Turn, Types, TypeOK
  <2> QED
    BY <1>1, <2>1, <2>2
<1>8. ASSUME NEW q \in Requests, Abort(q)
      PROVE  Goal
  BY <1>1, <1>4, <1>8 DEF Abort
<1>9. ASSUME NEW t \in Turns, Reject(t)
      PROVE  Goal
  <2>1. UNCHANGED sess /\ run \in [Turns -> Runs]
    BY <1>9 DEF Reject, Types, TypeOK
  <2>2. /\ run'[t].history = run[t].history /\ run'[t].answered = run[t].answered
        /\ run'[t].status = "failed" /\ \A u \in Turns : u # t => run'[u] = run[u]
    BY <1>9, <2>1 DEF Reject, Runs
  <2> QED
    BY <1>2, <2>1, <2>2 DEF KeepsRuns
<1>10. CASE DeleteConversation
  BY <1>1, <1>2, <1>10 DEF DeleteConversation
<1> QED
  BY <1>6, <1>7, <1>8, <1>9, <1>10 DEF Next

LEMMA InitHistories == Init => HistoryOfOthers /\ CompletedHasAnswer
<1> SUFFICES ASSUME Init PROVE HistoryOfOthers /\ CompletedHasAnswer
  OBVIOUS
<1>1. \A q \in Requests : sess[q].window = <<>>
  BY DEF Init, Idle
<1>2. \A t \in Turns : run[t].history = <<>> /\ run[t].status = "absent"
  BY DEF Init, NoRun
<1>3. DOMAIN <<>> = {}
  BY EmptySeq
<1> QED
  BY <1>1, <1>2, <1>3 DEF HistoryOfOthers, CompletedHasAnswer

LEMMA HistoriesStep ==
    ASSUME Types, Control, Writing, HistoryOfOthers, CompletedHasAnswer, Next
    PROVE  HistoryOfOthers' /\ CompletedHasAnswer'
<1>1. KeepsRuns
  BY Keeps
<1>2. ASSUME NEW q \in Requests, NEW i \in DOMAIN sess'[q].window
      PROVE  sess'[q].window[i].turn # sess'[q].turn
  <2>1. CASE LoadHistory(q)
    <3>1. sess'[q].turn = Turn(q)
      BY <2>1, ZenonT(40) DEF LoadHistory, Turn, Types, TypeOK, Sessions
    <3> QED
      BY <1>2, <2>1, <3>1, HistoryLoaded
  <2>2. CASE KeepsWindow(q)
    <3>1. CASE sess'[q].window = sess[q].window /\ sess'[q].turn = Turn(q)
      BY <1>2, <3>1 DEF HistoryOfOthers
    <3>2. CASE sess'[q].window = <<>>
      BY <1>2, <3>2, EmptySeq
    <3>3. CASE /\ sess[q].pc = "resuming" /\ sess'[q].window = run[Turn(q)].history
               /\ sess'[q].turn = Turn(q)
      <4>1. Turn(q) \in Turns
        BY <3>3, Worker
      <4> QED
        BY <1>2, <3>3, <4>1 DEF HistoryOfOthers
    <3> QED
      BY <2>2, <3>1, <3>2, <3>3 DEF KeepsWindow
  <2> QED
    BY <1>2, <2>1, <2>2, Keeps
<1>3. ASSUME NEW t \in Turns, NEW i \in DOMAIN run'[t].history
      PROVE  run'[t].history[i].turn # t
  BY <1>1, <1>3 DEF KeepsRuns, HistoryOfOthers
<1>4. HistoryOfOthers'
  BY <1>2, <1>3 DEF HistoryOfOthers, Turn
<1>5. ASSUME NEW t \in Turns, run'[t].status = "completed"
      PROVE  run'[t].answered
  <2>1. \/ /\ run'[t].answered = run[t].answered
           /\ run'[t].status = "completed" => run[t].status = "completed"
        \/ run'[t].status = "completed" => run'[t].answered
    BY <1>1, Zenon DEF KeepsRuns
  <2>2. CASE run'[t].answered = run[t].answered /\ run[t].status = "completed"
    <3>1. run[t].answered
      BY <2>2 DEF CompletedHasAnswer
    <3> QED
      BY <2>2, <3>1, Zenon
  <2> QED
    BY <1>5, <2>1, <2>2, Zenon
<1> QED
  BY <1>4, <1>5 DEF CompletedHasAnswer

-----------------------------------------------------------------------------
(* The invariant of the conversation *)

ConversationInv ==
    /\ Types /\ Control /\ Writing /\ Keeping /\ Order /\ Apart
    /\ OneAnswer /\ HistoryOfOthers /\ CompletedHasAnswer

LEMMA InvInit == Init => ConversationInv
BY InitTyped, InitControl, InitWriting, InitKeeping, InitOrder, InitApart, InitHistories
   DEF ConversationInv

LEMMA InvStutters ==
    ASSUME ConversationInv, UNCHANGED vars
    PROVE  ConversationInv'
<1>1. /\ conv' = conv /\ log' = log /\ run' = run /\ sess' = sess /\ told' = told
      /\ aborted' = aborted /\ contended' = contended
  BY DEF vars, rows, ghosts
<1>2. Types'
  BY <1>1 DEF ConversationInv, Types, TypeOK, SessionHasTurn, Turn
<1>3. Control'
  BY <1>1 DEF ConversationInv, Control, PhasesOfKind, RunsOfAgents, FirstIsAlone, NoRunYet,
              First, Started, IsChat, Turn
<1>4. Writing'
  BY <1>1 DEF ConversationInv, Writing, OwnLocks, Flushed, NothingYet, NoAnswerYet, Written,
              First, Started, IsChat, Turn
<1>5. Keeping'
  BY <1>1 DEF ConversationInv, Keeping, QuestionStays, AnswerStays, AnswerComes, Written,
              Asked, Replied, Past, Writes, IsChat, Turn
<1>6. Order' /\ OneAnswer'
  BY <1>1 DEF ConversationInv, Order, OneQuestion, QuestionFirst, Once, Says, OneAnswer
<1>7. Apart'
  BY <1>1 DEF ConversationInv, Apart, OneAtATime, WaitingRests, NoSecondAnswer, Written, Turn
<1>8. HistoryOfOthers' /\ CompletedHasAnswer'
  BY <1>1 DEF ConversationInv, HistoryOfOthers, CompletedHasAnswer, Turn
<1> QED
  BY <1>2, <1>3, <1>4, <1>5, <1>6, <1>7, <1>8 DEF ConversationInv

LEMMA InvStep == ConversationInv /\ [Next]_vars => ConversationInv'
<1> SUFFICES ASSUME ConversationInv, [Next]_vars
             PROVE  ConversationInv'
  OBVIOUS
<1>1. CASE Next
  <2>1. /\ Types /\ Control /\ Writing /\ Keeping /\ Order /\ Apart
        /\ OneAnswer /\ HistoryOfOthers /\ CompletedHasAnswer
    BY DEF ConversationInv
  <2>2. Step
    BY <1>1, <2>1, NextDone DEF Done
  <2>3. Types'
    BY <1>1, <2>1, TypesStep
  <2>4. Control'
    BY <2>1, <2>2, <2>3, ControlStep
  <2>5. Writing'
    BY <2>1, <2>2, <2>3, <2>4, WritingStep
  <2>6. Keeping'
    BY <2>1, <2>2, <2>3, <2>4, <2>5, KeepingStep
  <2>7. Order'
    BY <2>1, <2>2, <2>3, <2>4, <2>5, <2>6, OrderStep
  <2>8. Apart'
    BY <2>1, <2>2, <2>3, <2>4, <2>5, ApartStep
  <2>9. OneAnswer'
    BY <2>1, <2>2, OneAnswerStep
  <2>10. HistoryOfOthers' /\ CompletedHasAnswer'
    BY <1>1, <2>1, HistoriesStep
  <2> QED
    BY <2>3, <2>4, <2>5, <2>6, <2>7, <2>8, <2>9, <2>10 DEF ConversationInv
<1>2. CASE UNCHANGED vars
  BY <1>2, InvStutters
<1> QED
  BY <1>1, <1>2

\* The invariant holds in every reachable state.
THEOREM Invariant == Spec => []ConversationInv
<1>1. Init => ConversationInv
  BY InvInit
<1>2. ConversationInv /\ [Next]_vars => ConversationInv'
  BY InvStep
<1> QED
  BY <1>1, <1>2, PTL DEF Spec

\* No model that answers a question finds a message of the same turn in the history
\* it is shown.
THEOREM QuestionGivenOnce == Spec => []OwnTurnUnseen
<1>1. ConversationInv => OwnTurnUnseen
  BY DEF ConversationInv, HistoryOfOthers, OwnTurnUnseen
<1> QED
  BY <1>1, Invariant, PTL

\* Of a turn whose client was told of an answer both messages are there, committed
\* and in their order.
THEOREM TurnsAreWhole == Spec => []TurnIsWhole
<1>1. ConversationInv => TurnIsWhole
  <2> SUFFICES ASSUME ConversationInv, conv, NEW t \in Turns, told[t] = "answered"
               PROVE  \E j \in DOMAIN log : /\ Says(log[j], t, "assistant")
                                            /\ \E i \in 1 .. (j - 1) : Says(log[i], t, "user")
    BY DEF TurnIsWhole
  <2>1. Answer(t, Nobody) \in Written
    BY DEF ConversationInv, Keeping, AnswerStays, Replied
  <2>2. PICK j \in DOMAIN log : log[j] = Answer(t, Nobody)
    BY <2>1 DEF Written
  <2>3. Says(log[j], t, "assistant") /\ log[j].turn = t /\ log[j].role = "assistant"
    BY <2>2 DEF Answer, Says
  <2>4. \E i \in 1 .. (j - 1) : Says(log[i], t, "user")
    BY <2>3 DEF ConversationInv, Order, QuestionFirst
  <2> QED
    BY <2>3, <2>4
<1> QED
  BY <1>1, Invariant, PTL

\* Of a run that is completed and left alone the answer is there, whatever failed
\* between its two commits other than the process.
THEOREM CompletedRunsAreAnswered == Spec => []CompletedRunIsAnswered
<1>1. ConversationInv => CompletedRunIsAnswered
  <2> SUFFICES ASSUME ConversationInv, conv, NEW t \in Turns \ aborted,
                      run[t].status = "completed", \A q \in Requests : Turn(q) # t
               PROVE  \E i \in DOMAIN log : Says(log[i], t, "assistant")
    BY DEF CompletedRunIsAnswered
  <2>1. Answer(t, Nobody) \in Written
    BY DEF ConversationInv, Keeping, AnswerComes, Replied
  <2> QED
    BY <2>1 DEF Written, Answer, Says
<1> QED
  BY <1>1, Invariant, PTL

\* A turn on which no two requests have worked at the same time has one answer at
\* most, however often its run was resumed.
THEOREM AnsweredOnce == Spec => []OneAnswer
<1>1. ConversationInv => OneAnswer
  BY DEF ConversationInv
<1> QED
  BY <1>1, Invariant, PTL


LEMMA LastOfAppend ==
    ASSUME NEW T, NEW s \in Seq(T), NEW m \in T
    PROVE  /\ s \o <<m>> = Append(s, m)
           /\ Append(s, m) # <<>>
           /\ Append(s, m)[Len(Append(s, m))] = m
<1>1. s \o <<m>> = Append(s, m)
  OBVIOUS
<1>2. Len(Append(s, m)) = Len(s) + 1 /\ Len(s) \in Nat /\ Append(s, m)[Len(s) + 1] = m
  OBVIOUS
<1>3. Append(s, m) # <<>>
  BY <1>2, EmptySeq
<1> QED
  BY <1>1, <1>2, <1>3

\* The answer shown for a completed run is its own, whatever answers the history
\* it began with holds: the last assistant message is the one the run added.
THEOREM ResponsesAreOwn == Spec => []ResponseIsOwn
<1>1. ConversationInv => ResponseIsOwn
  <2> SUFFICES ASSUME ConversationInv, NEW t \in Turns, run[t].status = "completed"
               PROVE  ResponseTurn(t) = t
    BY DEF ResponseIsOwn
  <2> DEFINE S == {m \in SeenMessages : m.role = "assistant"}
             a == OwnAnswer(t)
             h == run[t].history
             k == Kept(h, S)
  <2>1. run[t].answered
    BY DEF ConversationInv, CompletedHasAnswer
  <2>2. a \in SeenMessages /\ a.role = "assistant" /\ a.turn = t
    BY DEF OwnAnswer, SeenMessages
  <2>3. a \in S
    BY <2>2
  <2>4. h \in Seq(SeenMessages)
    BY DEF ConversationInv, Types, TypeOK, Runs, Windows
  <2>5. ResponseTurn(t) = IF Kept(h \o <<a>>, S) = <<>> THEN Nobody
                          ELSE Kept(h \o <<a>>, S)[Len(Kept(h \o <<a>>, S))].turn
    BY <2>1, Zenon DEF ResponseTurn
  <2> HIDE DEF S, a, h
  <2>6. h \o <<a>> = Append(h, a)
    BY <2>2, <2>4, LastOfAppend
  <2>7. Kept(h \o <<a>>, S) = Append(k, a)
    BY <2>2, <2>3, <2>4, <2>6, KeptAppend
  <2>8. k \in Seq(SeenMessages)
    BY <2>4, KeptTyped
  <2> HIDE DEF k
  <2>9. Append(k, a) # <<>> /\ Append(k, a)[Len(Append(k, a))] = a
    BY <2>2, <2>8, LastOfAppend
  <2> QED
    BY <2>2, <2>5, <2>7, <2>9
<1> QED
  BY <1>1, Invariant, PTL

-----------------------------------------------------------------------------
(* The history that is read *)

LEMMA LogOfWritten ==
    ASSUME Types
    PROVE  log \in Seq(Written) /\ Written \subseteq Messages
<1>1. log \in Seq(Messages)
  BY DEF Types, TypeOK
<1>2. Len(log) \in Nat /\ log = [i \in 1 .. Len(log) |-> log[i]]
  BY <1>1
<1>3. \A i \in 1 .. Len(log) : log[i] \in Written
  BY LogTyped
<1>4. Written \subseteq Messages
  BY <1>1 DEF Written
<1> HIDE DEF Written
<1>5. [i \in 1 .. Len(log) |-> log[i]] \in Seq(Written)
  BY <1>2, <1>3
<1> QED
  BY <1>2, <1>4, <1>5

\* The messages that the history of q may show.
Showable(q) == {m \in OfOthers(Turn(q)) : m.lock = Nobody}

\* A session that loads has nothing of its own to see; a chat sees its question,
\* once, and a run sees nothing of its turn.
LEMMA SeenWhileLoading ==
    ASSUME ConversationInv, NEW q \in Requests, sess[q].pc = "loading",
           NEW m \in Written, m.lock \in {q, Nobody}
    PROVE  /\ m.lock = Nobody
           /\ m.turn = Turn(q) => IsChat(q) /\ m.role = "user"
<1>1. m \in Messages /\ q # Nobody
  BY LogOfWritten, SessionFacts DEF ConversationInv
<1>2. m.lock = Nobody
  BY <1>1 DEF ConversationInv, Writing, OwnLocks
<1>3. ASSUME m.turn = Turn(q)
      PROVE  IsChat(q) /\ m.role = "user"
  <2>1. IsChat(q)
    BY <1>3 DEF ConversationInv, Writing, NothingYet
  <2>2. First(q)
    BY <2>1 DEF First
  <2>3. m.role # "assistant"
    BY <1>3, <2>2 DEF ConversationInv, Writing, NoAnswerYet
  <2> QED
    BY <1>1, <2>1, <2>3 DEF Messages
<1> QED
  BY <1>2, <1>3

LEMMA HistoryIsFull ==
    ASSUME ConversationInv, NEW q \in Requests, LoadHistory(q)
    PROVE  ShowsNewest(sess'[q].window, Kept(log, Showable(q)))
<1> DEFINE V == {m \in Messages : m.lock \in {q, Nobody}}
           O == OfOthers(Turn(q))
           C == Showable(q)
           s == Kept(log, V)
<1>1. History \in Nat
  BY EmptyTyped
<1>2. History + 1 \in Nat
  BY <1>1
<1>3. Types /\ log \in Seq(Written) /\ log \in Seq(Messages) /\ Written \subseteq Messages
  BY LogOfWritten DEF ConversationInv, Types, TypeOK
<1>4. sess[q].pc = "loading"
      /\ sess'[q].window = IF IsChat(q) THEN ChatWindow(q) ELSE RunWindow(q)
  BY <1>3 DEF LoadHistory, Types, TypeOK, Sessions
<1>5. \A m \in Written : m \in V \cap O <=> m \in C
  BY <1>3, <1>4, SeenWhileLoading DEF OfOthers, Showable
<1>6. s \in Seq(Messages)
  BY <1>3, KeptTyped
<1>7. Kept(log, C) \in Seq(Messages)
  BY <1>3, KeptTyped
<1>8. ShowsNewest(Windowed(Kept(log, C)), Kept(log, C))
  BY <1>1, <1>7, WindowedShows
<1>9. CASE IsChat(q)
  <2>1. \A i, j \in 1 .. Len(s) : s[i] \notin O /\ s[j] \notin O => i = j
    <3>1. PICK at : Places(at, s, log, V)
      BY <1>3, KeptPlaces
    <3>2. \A i \in 1 .. Len(s) : at[i] \in DOMAIN log /\ s[i] = log[at[i]] /\ s[i] \in V
      BY <1>3, <3>1, LogTyped DEF Places
    <3>3. \A i \in 1 .. Len(s) : s[i] \notin O =>
             log[at[i]].turn = Turn(q) /\ log[at[i]].role = "user"
      BY <1>4, <3>2, SeenWhileLoading DEF Written, OfOthers
    <3>4. Turn(q) \in Turns
      BY <1>3, <1>4, Worker
    <3>5. Once(Turn(q), "user")
      BY <3>4 DEF ConversationInv, Order, OneQuestion
    <3>6. \A i, j \in 1 .. Len(s) : s[i] \notin O /\ s[j] \notin O => at[i] = at[j]
      BY <3>2, <3>3, <3>5 DEF Once
    <3>7. \A k, l \in 1 .. Len(s) : k < l => at[k] < at[l]
      BY <3>1 DEF Places
    <3>8. \A i \in 1 .. Len(s) : at[i] \in Int
      BY <1>3, <3>2, LogTyped
    <3> HIDE DEF s, O, V
    <3>9. \A i, j \in 1 .. Len(s) : i < j \/ j < i \/ i = j
      BY <1>6
    <3> QED
      BY <3>6, <3>7, <3>8, <3>9
  <2>2. Newest(Kept(Newest(s, History + 1), O), History) = Newest(Kept(s, O), History)
    BY <1>1, <1>6, <2>1, NewestOfKept
  <2>3. Kept(s, O) = Kept(log, V \cap O)
    BY <1>3, KeptTwice
  <2>4. Kept(log, V \cap O) = Kept(log, C)
    <3>1. Written \cap (V \cap O) = Written \cap C
      BY <1>5
    <3> QED
      BY <1>3, <3>1, KeptSame
  <2>5. ChatWindow(q) = Windowed(Kept(Newest(s, History + 1), O))
    BY DEF ChatWindow, ListMessages
  <2>6. Windowed(Kept(Newest(s, History + 1), O)) = Windowed(Kept(log, C))
    BY <2>2, <2>3, <2>4 DEF Windowed
  <2> QED
    BY <1>4, <1>8, <1>9, <2>5, <2>6
<1>10. CASE ~IsChat(q)
  <2> DEFINE r == Newest(s, History)
  <2>1. \A m \in Written : m \in V <=> m \in C
    BY <1>3, <1>4, <1>5, <1>10, SeenWhileLoading DEF OfOthers
  <2>2. s = Kept(log, C)
    <3>1. Written \cap V = Written \cap C
      BY <2>1
    <3> QED
      BY <1>3, <3>1, KeptSame
  <2>3. r \in Seq(Messages) /\ Len(r) <= History
    BY <1>1, <1>6, NewestTyped
  <2>4. Newest(r, History) = r
    BY <1>1, <2>3, NewestWhole
  <2>5. RunWindow(q) = Windowed(r)
    BY DEF RunWindow, ListMessages
  <2>6. Windowed(r) = Windowed(s)
    BY <2>4 DEF Windowed
  <2> QED
    BY <1>4, <1>8, <1>10, <2>2, <2>5, <2>6
<1> QED
  BY <1>9, <1>10

LEMMA OnlyLoads ==
    ASSUME Types, Next, NEW q \in Requests,
           sess[q].pc = "loading", sess'[q].pc \in {"thinking", "asking"}
    PROVE  LoadHistory(q)
<1>1. ASSUME NEW p \in Requests, Serve(p)
      PROVE  LoadHistory(p) \/ (sess[p].pc # "loading" /\ OthersStay(p))
  BY <1>1 DEF Serve, Ask, CommitQuestion, Retrieve, Generate, CreateRun, Resume, FinishRun, FailRun,
              PauseRun, Refresh, FlushAnswer, CommitAnswer, Goto, Reply, Flush, ForeignKeyFails,
              OthersStay, Types, TypeOK
<1>2. ASSUME NEW p \in Requests, LoadHistory(p)
      PROVE  OthersStay(p)
  BY <1>2 DEF LoadHistory, OthersStay, Types, TypeOK
<1>3. ASSUME NEW p \in Requests, Arrive(p)
      PROVE  sess[p].pc = "idle" /\ OthersStay(p)
  BY <1>3 DEF Arrive, Begin, BeginResume, OthersStay, Types, TypeOK
<1>4. ASSUME NEW p \in Requests, Abort(p)
      PROVE  sess'[p].pc = "idle" /\ OthersStay(p)
  BY <1>4 DEF Abort, Reply, Idle, OthersStay, Types, TypeOK
<1>5. ASSUME (\E t \in Turns : Reject(t)) \/ DeleteConversation
      PROVE  sess' = sess
  BY <1>5 DEF Reject, DeleteConversation
<1> QED
  BY <1>1, <1>2, <1>3, <1>4, <1>5 DEF Next, OthersStay

\* Whenever a history is read it is the newest committed messages of other turns, as
\* many as the count and the token budget allow, for all limits, sizes of messages and
\* lengths of the log: the longest such window, and the newest message in any case.
THEOREM WindowsAreFull == Spec => WindowIsFull
<1> DEFINE A == \A q \in Requests :
                   sess[q].pc = "loading" /\ sess'[q].pc \in {"thinking", "asking"} =>
                      ShowsNewest(sess'[q].window, Kept(log, Showable(q)))
<1>1. ConversationInv /\ [Next]_vars => [A]_vars
  <2> SUFFICES ASSUME ConversationInv, Next, NEW q \in Requests, sess[q].pc = "loading",
                      sess'[q].pc \in {"thinking", "asking"}
               PROVE  ShowsNewest(sess'[q].window, Kept(log, Showable(q)))
    OBVIOUS
  <2>1. LoadHistory(q)
    BY OnlyLoads DEF ConversationInv
  <2> QED
    BY <2>1, HistoryIsFull
<1> QED
  BY <1>1, Invariant, PTL DEF Spec, WindowIsFull, Showable

=============================================================================
