---------------------------- MODULE AgentLedger ----------------------------
(***************************************************************************)
(* The durable record of one agent run and how it is folded into a state   *)
(* (src/src/lib/agent/run-store.ts).  The ledger is an append-only         *)
(* sequence; nothing about a run is stored except its entries, so every    *)
(* operation of the run service starts by reading and folding all of them. *)
(*                                                                         *)
(* Only the entries the fold reacts to are kept.  driver-resolved and the  *)
(* narrative events (statement-drafted, closing-statement, ...) change     *)
(* neither status, nor steps, nor the cancellation, and are left out.      *)
(***************************************************************************)
EXTENDS Naturals, Sequences, FiniteSetsExt

CONSTANT Steps          \* step ids: a step is identified by tool and arguments

Terminals == {"succeeded", "failed", "cancelled"}

(* One ledger line.  "of" is the step of a tool entry, the status of a     *)
(* run-finished entry, and "none" elsewhere.                               *)
LedgerEntry ==
       [kind : {"run-opened", "cancellation-requested", "run-started"}, of : {"none"}]
  \cup [kind : {"run-finished"}, of : Terminals]
  \cup [kind : {"tool-invoked", "tool-completed", "tool-refused"}, of : Steps]

Entry(kind, of) == [kind |-> kind, of |-> of]

Has(l, kind) == \E i \in DOMAIN l : l[i].kind = kind

(* nextStatus: only run-started and run-finished move the status ...       *)
Lifecycle(l) == {i \in DOMAIN l : l[i].kind \in {"run-started", "run-finished"}}

(* ... and the fold applies them in order, so the last one decides.        *)
RunStatus(l) ==
  IF Lifecycle(l) = {} THEN "queued"
  ELSE LET last == l[Max(Lifecycle(l))]
       IN  IF last.kind = "run-started" THEN "running" ELSE last.of

Terminal(l)              == RunStatus(l) \in Terminals
CancellationRequested(l) == Has(l, "cancellation-requested")
Finished(l)              == Has(l, "run-finished")

Invoked(l, s) == \E i \in DOMAIN l : l[i] = Entry("tool-invoked", s)
Settled(l, s) == \E i \in DOMAIN l : l[i].kind \in {"tool-completed", "tool-refused"} /\ l[i].of = s

(* A run-started written behind a run-finished: the fold calls the run     *)
(* running again.                                                          *)
Resurrected(l) ==
  \E i, j \in DOMAIN l : i < j /\ l[i].kind = "run-finished" /\ l[j].kind = "run-started"
=============================================================================
