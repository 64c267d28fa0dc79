----------------------------- MODULE RunContract -----------------------------
(***************************************************************************)
(* What a run promises whoever opened it, with no ledger, claim, tracker   *)
(* or await in sight: it is opened, started and ended, in that order; from  *)
(* its start to its end its steps reach the database, one at a time and     *)
(* each at most once; and nothing is under way when it ends.  AgentRun      *)
(* implements it for as long as nobody ends the run while a drive carries   *)
(* it; from there on the contract promises nothing.                        *)
(***************************************************************************)
EXTENDS Naturals

CONSTANT Steps

VARIABLES
  phase,       \* "none", then the run's status; every verdict counts as "ended"
  live,        \* the steps that are at the database
  performed,   \* how often each step has reached it
  broken       \* somebody ended the run while a drive was carrying it

vars == <<phase, live, performed, broken>>

Init ==
  /\ phase = "none" /\ live = {}
  /\ performed = [s \in Steps |-> 0]
  /\ broken = FALSE

Open  == phase = "none" /\ phase' = "queued" /\ UNCHANGED <<live, performed>>

Start == phase = "queued" /\ phase' = "running" /\ UNCHANGED <<live, performed>>

Begin(s) ==
  /\ phase = "running" /\ live = {} /\ performed[s] = 0
  /\ live' = {s} /\ performed' = [performed EXCEPT ![s] = 1]
  /\ UNCHANGED phase

(* The statement has settled, or the process that sent it is gone. *)
Return == live' = {} /\ UNCHANGED <<phase, performed>>

(* A run may end before it is started.  A second ending may still be        *)
(* recorded behind the first and change the verdict, but not the phase.     *)
End ==
  /\ phase \in {"queued", "running"} /\ live = {}
  /\ phase' = "ended" /\ UNCHANGED <<live, performed>>

Keep == ~broken' /\ (Open \/ Start \/ (\E s \in Steps : Begin(s)) \/ Return \/ End)

Next == broken' \/ (~broken /\ Keep)

Spec == Init /\ [][Next]_vars
=============================================================================
