-------------------------- MODULE AgentExecutionMC --------------------------
EXTENDS AgentExecution, TLC

Symmetry == Permutations(Callers) \cup Permutations(Runs) \cup Permutations(Statements)
=============================================================================
