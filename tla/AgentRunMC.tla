----------------------------- MODULE AgentRunMC -----------------------------
(* Instances of AgentRun for TLC. *)
EXTENDS AgentRun, TLC

Symmetric == Permutations(Drives) \cup Permutations(Cancellers) \cup Permutations(Steps)
=============================================================================
