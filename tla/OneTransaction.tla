--------------------------- MODULE OneTransaction ---------------------------
(***************************************************************************)
(* What the interactive transaction of a connection promises the users who  *)
(* share it, with no pool, queue, timer handle or await in sight: there is  *)
(* one transaction at a time; while its owner's lease is live nobody else   *)
(* is let in; what was let in before an ending runs inside it, and what was *)
(* let in behind one runs in none; and what a request is told of an ending  *)
(* is what became of the transaction.  TransactionSession implements it for *)
(* as long as no begin overlaps another begin or an ending; from there on   *)
(* the contract promises nothing.                                           *)
(***************************************************************************)
CONSTANTS Sessions, Requests, Users, Timer

VARIABLES
  user,      \* whose request each one is
  open,      \* the transactions the server has open
  lease,     \* the owner's lease of it: "live", "lapsed" or "gone"
  admitted,  \* what was let in and is not answered yet
  late,      \* the requests let in behind an ending
  told,      \* the answer of each request
  fate,      \* what became of the transaction a request was to end
  broken     \* a begin has overlapped

vars == <<user, open, lease, admitted, late, told, fate, broken>>

Endings == {"COMMIT", "ROLLBACK"}
Ending  == \E a \in admitted : a.op \in Endings

Init ==
  /\ user \in [Requests -> Users]
  /\ open = {} /\ lease = "gone" /\ admitted = {} /\ late = {}
  /\ told = [r \in Requests |-> "none"] /\ fate = [r \in Requests |-> "none"]
  /\ broken = FALSE

Fresh(r)    == told[r] = "none" /\ \A a \in admitted : a.by # r
Tell(r, what) == told' = [told EXCEPT ![r] = what]

(* A lease found lapsed by a request is gone for good. *)
Looked == IF lease = "lapsed" THEN "gone" ELSE lease

Open(r) ==
  /\ open = {} /\ ~Ending /\ Fresh(r)
  /\ \E s \in Sessions : open' = {[on |-> s, by |-> user[r], failed |-> FALSE]}
  /\ lease' = "live" /\ Tell(r, "started")
  /\ UNCHANGED <<admitted, late, fate>>

(* Only an owner whose lease is live keeps others out. *)
Refuse(r) ==
  /\ Fresh(r)
  /\ \E what \in {"busy", "status", "error"} :
       /\ Tell(r, what)
       /\ what = "busy" => lease = "live" /\ \E t \in open : t.by # user[r]
  /\ lease' \in {lease, Looked}
  /\ UNCHANGED <<open, admitted, late, fate>>

Admit(r, op) ==
  /\ Fresh(r)
  /\ \E t \in open : lease = "live" => t.by = user[r]
  /\ lease' = Looked
  /\ admitted' = admitted \cup {[op |-> op, by |-> r]}
  /\ late' = IF op = "STATEMENT" /\ Ending THEN late \cup {r} ELSE late
  /\ UNCHANGED <<open, told, fate>>

(* The auto-rollback, once for each transaction, and never behind an ending. *)
TimeOut ==
  /\ open # {} /\ ~Ending
  /\ admitted' = admitted \cup {[op |-> "ROLLBACK", by |-> Timer]}
  /\ UNCHANGED <<open, lease, late, told, fate>>

(* A statement that fails leaves a transaction that takes nothing but its   *)
(* end; one that succeeds renews whatever lease is there.                   *)
Ran(r, ok) ==
  /\ [op |-> "STATEMENT", by |-> r] \in admitted
  /\ IF r \in late
       THEN UNCHANGED open
       ELSE \E t \in open : /\ ok => ~t.failed
                            /\ open' = {[t EXCEPT !.failed = @ \/ ~ok]}
  /\ admitted' = admitted \ {[op |-> "STATEMENT", by |-> r]}
  /\ lease' = IF ok /\ lease = "lapsed" THEN "live" ELSE lease
  /\ Tell(r, IF ok THEN "in transaction" ELSE "error")
  /\ UNCHANGED <<late, fate>>

Became(t, op, ok) ==
  IF op = "ROLLBACK" \/ ~ok THEN "discarded" ELSE IF t.failed THEN "aborted" ELSE "saved"

(* The first ending ends the transaction; the others are told that there   *)
(* was none.                                                                *)
Learns(r, op, ok) ==
  IF open = {}
    THEN Tell(r, "error") /\ fate' = [fate EXCEPT ![r] = "nothing"]
    ELSE /\ Tell(r, IF ~ok THEN "error" ELSE IF op = "COMMIT" THEN "committed" ELSE "rolled back")
         /\ \E t \in open : fate' = [fate EXCEPT ![r] = Became(t, op, ok)]

End(by, op, ok) ==
  /\ [op |-> op, by |-> by] \in admitted
  /\ \A a \in admitted : a.op = "STATEMENT" => a.by \in late
  /\ admitted' = admitted \ {[op |-> op, by |-> by]}
  /\ open' = {} /\ lease' = "gone"
  /\ IF by = Timer THEN UNCHANGED <<told, fate>> ELSE Learns(by, op, ok)
  /\ UNCHANGED late

Lapse == lease = "live" /\ lease' = "lapsed" /\ UNCHANGED <<open, admitted, late, told, fate>>

RequestStep(r) ==
  \/ Open(r) \/ Refuse(r)
  \/ \E op \in Endings \cup {"STATEMENT"} : Admit(r, op)
  \/ \E ok \in BOOLEAN : Ran(r, ok)

Keep ==
  /\ ~broken' /\ UNCHANGED user
  /\ \/ \E r \in Requests : RequestStep(r)
     \/ \E by \in Requests \cup {Timer}, op \in Endings, ok \in BOOLEAN : End(by, op, ok)
     \/ TimeOut \/ Lapse

Next == broken' \/ (~broken /\ Keep)

Spec == Init /\ [][Next]_vars
=============================================================================
