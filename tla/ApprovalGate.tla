---------------------------- MODULE ApprovalGate ----------------------------
(***************************************************************************)
(* What the approval runtime of an agent run promises, stated without      *)
(* requests, sessions or rows: a dangerous tool call is first put to the   *)
(* user, is decided once, and takes effect at most once and only when it   *)
(* was granted.  A call of a tool that needs no approval may run unasked,  *)
(* also at most once.  AgentRuns is shown to implement this module when    *)
(* the server handles the requests about a run one at a time.              *)
(***************************************************************************)
EXTENDS Naturals

CONSTANTS
    Calls,    \* tool calls the model may ask for in one run
    Guarded   \* those whose tool sets requires_approval

VARIABLES
    verdict,  \* verdict[c]: what the user has said about call c
    effects   \* effects[c]: how often the tool of call c took effect

gateVars == <<verdict, effects>>

Verdicts == {"none", "asked", "granted", "denied"}

Init ==
    /\ verdict = [c \in Calls |-> "none"]
    /\ effects = [c \in Calls |-> 0]

Decide(c, from, to) ==
    /\ verdict[c] = from
    /\ verdict' = [verdict EXCEPT ![c] = to]
    /\ UNCHANGED effects

Ask(c) == c \in Guarded /\ Decide(c, "none", "asked")

Grant(c) == Decide(c, "asked", "granted")

Deny(c) == Decide(c, "asked", "denied")

TakeEffect(c) ==
    /\ effects[c] = 0
    /\ c \in Guarded => verdict[c] = "granted"
    /\ effects' = [effects EXCEPT ![c] = 1]
    /\ UNCHANGED verdict

Next == \E c \in Calls : Ask(c) \/ Grant(c) \/ Deny(c) \/ TakeEffect(c)

Spec == Init /\ [][Next]_gateVars
=============================================================================
