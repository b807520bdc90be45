-------------------------- MODULE MCConversations --------------------------
(***************************************************************************)
(* Instances of Conversations for TLC.                                     *)
(***************************************************************************)
EXTENDS Conversations, TLC

\* Against a budget of 3: a short question and a short answer fit together, a chat's
\* question and its answer just about, the run's answer not even by itself.
Sizes == [t \in Turns |-> [role \in {"user", "assistant"} |->
             IF role = "user" THEN 1 ELSE IF t \in AgentTurns THEN 4 ELSE 2]]

\* Chats are interchangeable, and so are runs and requests.
Symmetry ==
    Permutations(AgentTurns) \cup Permutations(Turns \ AgentTurns)
        \cup Permutations(Requests)
=============================================================================
