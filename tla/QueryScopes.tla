---------------------------- MODULE QueryScopes ----------------------------
(***************************************************************************)
(* Statements run through POST /api/db/query and /api/db/multi-query on    *)
(* the same pooled clients the interactive session draws from: one client  *)
(* per statement, released with whatever transaction the statement left on *)
(* it, recorded under the request's scope, and ended in the route's        *)
(* finally (postgres.ts: query, recordOpenTransaction,                     *)
(* endOpenQueryTransaction; D71, D87).  Composed with TransactionSession.  *)
(***************************************************************************)
EXTENDS TransactionSession

CONSTANTS
  Scripts,          \* requests to /query (one statement) and /multi-query
  NoScript,
  MaxStatements     \* bound: statements of a script

ASSUME ScriptsAssumption ==
  /\ Scripts \subseteq Senders /\ NoScript \notin Scripts
  /\ Scripts \cap (Requests \cup {Timer}) = {}
  /\ MaxStatements \in Nat \ {0}

VARIABLES
  spc, left,        \* where a script is; statements it has still to run
  openQueryScopes,  \* clients recorded under the script's scope
  todo,             \* those of them the ender has not tried yet
  outcome,          \* what the request is told of its open transaction
  (* history variable *)
  leftBy            \* the script that opened the transaction of a client

scopes    == <<spc, left, openQueryScopes, todo, outcome>>
svars     == <<scopes, leftBy>>
allvars   == <<vars, svars>>

ScopesInit ==
  /\ Init
  /\ spc = [s \in Scripts |-> "running"]
  /\ left \in [Scripts -> 1 .. MaxStatements]
  /\ openQueryScopes = [s \in Scripts |-> {}] /\ todo = [s \in Scripts |-> {}]
  /\ outcome = [s \in Scripts |-> "none"]
  /\ leftBy = [c \in Clients |-> NoScript]

SGoto(s, label) == spc' = [spc EXCEPT ![s] = label]

(* Mutation: a failed statement leaves by the error path unrecorded. *)
RecordOpenTransaction_onSuccess(s, c, ok) ==
  openQueryScopes' = [openQueryScopes EXCEPT ![s] = IF ok /\ status'[c] # "I" THEN @ \cup {c} ELSE @]

(* recordOpenTransaction, in the finally of query() and before the release. *)
RecordOpenTransaction(s, c, ok) ==
  openQueryScopes' = [openQueryScopes EXCEPT ![s] = IF status'[c] # "I" THEN @ \cup {c} ELSE @]

(* The transaction on c as it will be: opened by this script, or still     *)
(* whoever's it was.                                                       *)
Attribute(c, who) ==
  leftBy' = [leftBy EXCEPT ![c] = IF status'[c] = "I" THEN NoScript
                                  ELSE IF status[c] = "I" THEN who ELSE @]

(* query(): the pool hands out a client and the statement goes out, whose  *)
(* text may open or end a transaction; or the pool gives up, an error that *)
(* stops the script.                                                       *)
RunStatement(s) ==
  /\ spc[s] = "running" /\ left[s] > 0
  /\ \/ /\ \E c \in Clients, op \in Ops : Idle(c) /\ Checkout(c) /\ Send(c, op, s)
        /\ SGoto(s, "waiting") /\ UNCHANGED <<status, left>>
     \/ left' = [left EXCEPT ![s] = 0] /\ UNCHANGED <<pool, spc>>
  /\ UNCHANGED <<session, lease, request, ghost, clash, openQueryScopes, todo, outcome, leftBy>>

StatementAnswered(c, ok) ==
  /\ Serve(c, ok) /\ Head(queue[c]).by \in Scripts /\ spc[Head(queue[c]).by] = "waiting"
  /\ Pop(c) /\ Release(c)
  /\ LET s == Head(queue[c]).by
     IN  /\ RecordOpenTransaction(s, c, ok)
         /\ left' = [left EXCEPT ![s] = IF ok THEN @ - 1 ELSE 0]
         /\ SGoto(s, "running")
         /\ Attribute(c, s)
  /\ UNCHANGED <<session, lease, request, ghost, clash, todo, outcome>>

(* The finally of the route: endOpenQueryTransaction(scope). *)
EndOpenQueryTransaction(s) ==
  /\ spc[s] = "running" /\ left[s] = 0
  /\ SGoto(s, "ending") /\ todo' = [todo EXCEPT ![s] = openQueryScopes[s]]
  /\ UNCHANGED <<pool, session, lease, request, ghost, clash, left, openQueryScopes, outcome,
                 leftBy>>

(* Its loop: the status of each recorded client is asked again. *)
EndClient(s) ==
  /\ spc[s] = "ending"
  /\ \E c \in todo[s] :
       /\ todo' = [todo EXCEPT ![s] = @ \ {c}]
       /\ IF status[c] = "I" THEN UNCHANGED <<queue, spc>>
                             ELSE Send(c, "ROLLBACK", s) /\ SGoto(s, "rollingBack")
  /\ UNCHANGED <<out, status, session, lease, request, ghost, clash, left, openQueryScopes,
                 outcome, leftBy>>

(* Mutation: the ender releases the client, which is no longer its own. *)
EndClientAnswered_releases(c, ok) ==
  /\ Serve(c, ok) /\ Head(queue[c]).by \in Scripts /\ spc[Head(queue[c]).by] = "rollingBack"
  /\ Pop(c) /\ Release(c)
  /\ LET s == Head(queue[c]).by
     IN  /\ SGoto(s, "ending")
         /\ outcome' = [outcome EXCEPT ![s] =
                          IF ~ok \/ @ = "error" THEN "error" ELSE "rolled-back"]
         /\ Attribute(c, NoScript)
  /\ UNCHANGED <<session, lease, request, ghost, clash, left, openQueryScopes, todo>>

(* A failure is held until every client has had its attempt. *)
EndClientAnswered(c, ok) ==
  /\ Serve(c, ok) /\ Head(queue[c]).by \in Scripts /\ spc[Head(queue[c]).by] = "rollingBack"
  /\ Pop(c)
  /\ LET s == Head(queue[c]).by
     IN  /\ SGoto(s, "ending")
         /\ outcome' = [outcome EXCEPT ![s] =
                          IF ~ok \/ @ = "error" THEN "error" ELSE "rolled-back"]
         /\ Attribute(c, NoScript)
  /\ UNCHANGED <<out, session, lease, request, ghost, clash, left, openQueryScopes, todo>>

(* The scope is spent. *)
ScopeDone(s) ==
  /\ spc[s] = "ending" /\ todo[s] = {}
  /\ SGoto(s, "answered") /\ openQueryScopes' = [openQueryScopes EXCEPT ![s] = {}]
  /\ UNCHANGED <<vars, left, todo, outcome, leftBy>>

(* A step of the interactive session, as the scripts see it. *)
SessionStep ==
  /\ Next
  /\ leftBy' = [c \in Clients |-> IF status'[c] = "I" THEN NoScript ELSE leftBy[c]]
  /\ UNCHANGED scopes

ScopesNext ==
  \/ SessionStep
  \/ \E s \in Scripts : RunStatement(s) \/ EndOpenQueryTransaction(s) \/ EndClient(s) \/ ScopeDone(s)
  \/ \E c \in Clients, ok \in BOOLEAN : StatementAnswered(c, ok) \/ EndClientAnswered(c, ok)

ScopesSpec == ScopesInit /\ [][ScopesNext]_allvars

-----------------------------------------------------------------------------
(* "MAY A SCRIPT LEAVE A TRANSACTION OPEN? No": once a request has been    *)
(* answered nothing it opened is still open on any pooled client, whether  *)
(* its statements or its rollbacks failed, and whoever drew its clients.   *)
NothingLeftOpen == \A s \in Scripts, c \in Clients : spc[s] = "answered" => leftBy[c] # s

WaitsOn(s, c) == spc[s] = "waiting" /\ \E i \in DOMAIN queue[c] : queue[c][i].by = s

(* One user of a client at a time: the client a script's statement runs on *)
(* stays out of the pool until the answer, is never the session's, and     *)
(* never another script's, though the session, the scripts and the enders  *)
(* all release and roll back clients of one pool, and an ender reaches     *)
(* clients that may be anybody's by then.                                  *)
ClientsApart ==
  /\ txClient # NoClient => out[txClient]
  /\ \A s \in Scripts, c \in Clients : WaitsOn(s, c) =>
       out[c] /\ c # txClient /\ \A t \in Scripts \ {s} : ~WaitsOn(t, c)
=============================================================================
