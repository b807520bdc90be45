---------------------------- MODULE MCAgentRuns ----------------------------
(***************************************************************************)
(* Instances of AgentRuns for TLC.  The sets of requests, calls and the    *)
(* step budget are given by the .cfg files.                                *)
(***************************************************************************)
EXTENDS AgentRuns, TLC

\* Requests are interchangeable, and so are calls when all of them are guarded.
\* Used for invariants only.
Symmetry == Permutations(Requests) \cup Permutations(Calls)
=============================================================================
