-------------------------- MODULE ProviderCacheMC --------------------------
EXTENDS ProviderCache, TLC

Config(place, password, agent) == [place |-> place, password |-> password, agent |-> agent]

(* Two bastion routes; on the first, a password edit that leaves the       *)
(* forward as it is.                                                       *)
Edited == {Config("f1", "old", "none"), Config("f1", "new", "none"), Config("f2", "old", "none")}

(* A file, with and without a credential of the agent's own. *)
File == {Config("file", "own", agent) : agent \in {"none", "whole", "broken"}}

(* Two operations at once; the last call runs alone and sees what they left. *)
TwoThenOne ==
  Cardinality({c \in Calls : pc[c] \in {"replacing", "opening", "connecting"}}
              \cup {j \in Janitors : jpc[j] \notin {"idle", "done"}})
    <= IF \E c \in Calls : pc[c] = "idle" THEN 2 ELSE 1

Symmetry == Permutations(Calls)
=============================================================================
