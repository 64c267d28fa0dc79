------------------------------- MODULE PgPool -------------------------------
(***************************************************************************)
(* The pooled PostgreSQL clients one provider owns, as postgres.ts uses    *)
(* them through `pg`: a client is checked out and released, statements on  *)
(* one client are answered in the order they were sent, and every answer   *)
(* carries the server's transaction status: "I" idle, "T" in a             *)
(* transaction, "E" in a failed one.                                       *)
(***************************************************************************)
EXTENDS Naturals, Sequences, FiniteSets

CONSTANTS
  Clients,     \* the pool's slots
  NoClient,    \* null
  Senders      \* whoever sends statements: requests, the auto-rollback timer

ASSUME NoClientAssumption == NoClient \notin Clients

VARIABLES
  out,         \* checked out of the pool
  status,      \* getTransactionStatus() of each client
  queue        \* statements sent on each client and not yet answered

pool == <<out, status, queue>>

(* "BLOCK" is a text that goes on behind its BEGIN: whoever sends it sees  *)
(* one statement.                                                          *)
Ops == {"BEGIN", "BLOCK", "COMMIT", "ROLLBACK", "STATEMENT"}

PoolInit ==
  /\ out = [c \in Clients |-> FALSE]
  /\ status = [c \in Clients |-> "I"]
  /\ queue = [c \in Clients |-> <<>>]

(* pool.connect() resolves with any idle client and waits when there is    *)
(* none; client.release() puts it back, whatever is still queued on it.    *)
Idle(c)    == ~out[c]
Checkout(c) == out' = [out EXCEPT ![c] = TRUE]
Release(c)  == out' = [out EXCEPT ![c] = FALSE]

Send(c, op, by) == queue' = [queue EXCEPT ![c] = Append(@, [op |-> op, by |-> by])]

(* The server runs the oldest statement of c.  What it does to the status: *)
(* BEGIN inside a transaction only warns; a failed transaction refuses     *)
(* everything but its end; COMMIT ends a failed transaction by rolling it  *)
(* back, and reports no error; a ROLLBACK that fails has lost its          *)
(* connection, whose slot the pool refills.                                *)
Accepts(c, op) == op \in {"COMMIT", "ROLLBACK"} \/ status[c] # "E"

StatusAfter(c, op, ok) ==
  IF op \in {"COMMIT", "ROLLBACK"} THEN "I"
  ELSE IF op = "BEGIN" THEN IF ok THEN "T" ELSE status[c]
  ELSE IF op = "BLOCK" THEN IF ok THEN "T" ELSE "E"
  ELSE IF ok \/ status[c] = "I" THEN status[c] ELSE "E"

Serve(c, ok) ==
  /\ queue[c] # <<>>
  /\ ok => Accepts(c, Head(queue[c]).op)
  /\ status' = [status EXCEPT ![c] = StatusAfter(c, Head(queue[c]).op, ok)]
=============================================================================
