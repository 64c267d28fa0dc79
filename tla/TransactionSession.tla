------------------------- MODULE TransactionSession -------------------------
(***************************************************************************)
(* The interactive transaction of one stored connection: the one session   *)
(* a PostgresProvider holds (postgres.ts, txClient / txActive /            *)
(* txTimeout), the owner's lease (transaction-ownership.ts) and the route  *)
(* every Studio user drives it through (POST /api/db/transaction).         *)
(*                                                                         *)
(* A request is served in one step up to its first await on the database.  *)
(* Its continuation runs in the step that answers its statement, and reads *)
(* this.txClient again there, as the code does.  Time is only an order:    *)
(* the auto-rollback timer and the lease may run out at any moment.        *)
(***************************************************************************)
EXTENDS PgPool

CONSTANTS
  Requests,    \* requests to the route, one action each
  Users,
  NoUser,      \* no record in `owners`
  Kinds,       \* the actions explored
  Timer        \* the auto-rollback, as the sender of a ROLLBACK

ASSUME SessionAssumption ==
  /\ NoUser \notin Users /\ Timer \notin Requests
  /\ Requests \cup {Timer} \subseteq Senders
  /\ Kinds \subseteq {"begin", "commit", "rollback", "query", "status"}

VARIABLES
  txClient, txActive,
  txTimeout,   \* the timer the provider can still clear is armed
  strays,      \* armed timers the provider has lost track of
  owner,       \* owners.get(connection.id)
  lapsed,      \* OWNERSHIP_IDLE_MS has passed since its lastActiveAt
  pc, user, answer,
  (* history variables, read by the properties only *)
  opener,      \* whose begin opened the transaction of a client
  effect,      \* what the server did for a request
  clash        \* a begin overlapped another begin or an ending

session == <<txClient, txActive, txTimeout, strays>>
lease   == <<owner, lapsed>>
request == <<pc, user, answer>>
ghost   == <<opener, effect>>
vars    == <<pool, session, lease, request, ghost, clash>>

-----------------------------------------------------------------------------
Init ==
  /\ PoolInit
  /\ txClient = NoClient /\ txActive = FALSE /\ txTimeout = FALSE /\ strays = 0
  /\ owner = NoUser /\ lapsed = FALSE
  /\ pc = [r \in Requests |-> "idle"]
  /\ user \in [Requests -> Users]
  /\ answer = [r \in Requests |-> "none"]
  /\ opener = [c \in Clients |-> NoUser]
  /\ effect = [r \in Requests |-> "none"]
  /\ clash = FALSE

(* The overlaps the code does not exclude: a begin in flight together with *)
(* another begin, or with an ending.                                       *)
Ends == {"COMMIT", "ROLLBACK"}

Sent(op, by) == \E c \in Clients : \E i \in DOMAIN queue[c] : queue[c][i] = [op |-> op, by |-> by]

Beginning(r) == pc[r] = "connecting" \/ Sent("BEGIN", r)
Ending(by)   == \E op \in Ends : Sent(op, by)

Overlap ==
  \E r \in Requests : Beginning(r) /\ \/ \E q \in Requests \ {r} : Beginning(q)
                                      \/ \E by \in Requests \cup {Timer} : Ending(by)

Watch == clash' = (clash \/ Overlap')

-----------------------------------------------------------------------------
Goto(r, label) == pc' = [pc EXCEPT ![r] = label]
Answers(r, what) == Goto(r, "answered") /\ answer' = [answer EXCEPT ![r] = what]

(* transactionOwner: reading a lapsed lease deletes it.                    *)
TransactionOwner == IF lapsed THEN NoUser ELSE owner

(* The route's reconcile: a record of a transaction the provider no longer *)
(* has is dropped.                                                         *)
OwnerOnArrival == IF txActive THEN TransactionOwner ELSE NoUser

(* Mutation: every session may act on the transaction. *)
Refused_never(r, kind) == FALSE

(* 409 TRANSACTION_NOT_OWNED. *)
Refused(r, kind) == OwnerOnArrival \notin {NoUser, user[r]} /\ kind # "status"

(* What every request does before its action. *)
Arrive(r, kind) ==
  /\ pc[r] = "idle" /\ kind \in Kinds
  /\ owner' = OwnerOnArrival
  /\ lapsed' = (lapsed /\ OwnerOnArrival # NoUser)

Busy(r) ==
  /\ \E kind \in Kinds : Refused(r, kind) /\ Arrive(r, kind)
  /\ Answers(r, "busy")
  /\ UNCHANGED <<pool, session, user, ghost>> /\ Watch

Status(r) ==
  /\ Arrive(r, "status")
  /\ Answers(r, "status")
  /\ UNCHANGED <<pool, session, user, ghost>> /\ Watch

-----------------------------------------------------------------------------
(* begin *)

(* beginTransaction up to pool.connect(): one already active is refused.   *)
Begin(r) ==
  /\ Arrive(r, "begin") /\ ~Refused(r, "begin")
  /\ IF txActive THEN Answers(r, "error") ELSE Goto(r, "connecting") /\ UNCHANGED answer
  /\ UNCHANGED <<pool, session, user, ghost>> /\ Watch

(* The pool hands out a client, or gives up. *)
Connected(r) ==
  /\ pc[r] = "connecting"
  /\ \/ \E c \in Clients :
          /\ Idle(c) /\ Checkout(c) /\ txClient' = c /\ Send(c, "BEGIN", r)
          /\ Goto(r, "waiting") /\ UNCHANGED <<answer, status>>
     \/ Answers(r, "error") /\ UNCHANGED <<pool, txClient>>
  /\ UNCHANGED <<txActive, txTimeout, strays, lease, user, ghost>> /\ Watch

(* Mutation: the timer is not armed. *)
ArmTimer_never == UNCHANGED <<txTimeout, strays>>

(* this.txTimeout = setTimeout(...): a timer already there is forgotten,   *)
(* not cleared.                                                            *)
ArmTimer == txTimeout' = TRUE /\ strays' = strays + (IF txTimeout THEN 1 ELSE 0)

Pop(c) == queue' = [queue EXCEPT ![c] = Tail(@)]

(* claimTransaction follows the begin that succeeded. *)
ClaimTransaction(r) == owner' = user[r] /\ lapsed' = FALSE

BeginAnswered(c, ok) ==
  /\ Serve(c, ok) /\ Head(queue[c]).op = "BEGIN" /\ Head(queue[c]).by \in Requests
  /\ Pop(c)
  /\ LET r == Head(queue[c]).by
     IN  IF ok
           THEN /\ txActive' = TRUE /\ ArmTimer /\ ClaimTransaction(r)
                /\ Answers(r, "started")
                /\ opener' = [opener EXCEPT ![c] = user[r]]
           ELSE /\ Answers(r, "error")
                /\ UNCHANGED <<txActive, txTimeout, strays, lease, opener>>
  /\ UNCHANGED <<out, txClient, user, effect>> /\ Watch

-----------------------------------------------------------------------------
(* commit, rollback and the auto-rollback *)

(* Mutation: the timer is left to run while the ending is on its way. *)
SendEnd_keepsTimer(r, kind, op) ==
  /\ Arrive(r, kind) /\ ~Refused(r, kind)
  /\ IF txClient = NoClient \/ ~txActive
       THEN Answers(r, "error") /\ UNCHANGED queue
       ELSE Send(txClient, op, r) /\ Goto(r, "waiting") /\ UNCHANGED answer
  /\ UNCHANGED <<out, status, txClient, txActive, txTimeout, strays, user, ghost>> /\ Watch

(* commitTransaction / rollbackTransaction up to the await. *)
SendEnd(r, kind, op) ==
  /\ Arrive(r, kind) /\ ~Refused(r, kind)
  /\ IF txClient = NoClient \/ ~txActive
       THEN Answers(r, "error") /\ UNCHANGED <<queue, txTimeout>>
       ELSE /\ txTimeout' = FALSE          \* clearTxTimeout
            /\ Send(txClient, op, r)
            /\ Goto(r, "waiting") /\ UNCHANGED answer
  /\ UNCHANGED <<out, status, txClient, txActive, strays, user, ghost>> /\ Watch

CommitTransaction(r)   == SendEnd(r, "commit", "COMMIT")
RollbackTransaction(r) == SendEnd(r, "rollback", "ROLLBACK")

(* A timer fires: expireTransaction, whose own ROLLBACK nobody awaits.     *)
ExpireTransaction ==
  /\ \/ txTimeout /\ txTimeout' = FALSE /\ UNCHANGED strays
     \/ strays > 0 /\ strays' = strays - 1 /\ UNCHANGED txTimeout
  /\ IF txActive /\ txClient # NoClient THEN Send(txClient, "ROLLBACK", Timer)
                                        ELSE UNCHANGED queue
  /\ UNCHANGED <<out, status, txClient, txActive, lease, request, ghost>> /\ Watch

(* Mutation: the client is put back and still named. *)
EndSession_keepsClient ==
  IF txClient = NoClient
    THEN UNCHANGED <<out, txClient, txActive>>
    ELSE Release(txClient) /\ txActive' = FALSE /\ UNCHANGED txClient

(* The finally of the three: this.txClient.release() throws when somebody  *)
(* else's finally has already nulled it, and nothing after it runs.        *)
EndSession ==
  IF txClient = NoClient
    THEN UNCHANGED <<out, txClient, txActive>>
    ELSE Release(txClient) /\ txClient' = NoClient /\ txActive' = FALSE

(* What the server did with the transaction the request meant to end. *)
EndEffect(c, op, ok) ==
  IF status[c] = "I" THEN "nothing"
  ELSE IF op = "ROLLBACK" \/ ~ok THEN "discarded"
  ELSE IF status[c] = "E" THEN "aborted" ELSE "saved"

(* Mutation: a client already gone is not an error (txClient?.release()). *)
EndAnswered_forgiving(c, ok) ==
  /\ Serve(c, ok) /\ Head(queue[c]).op \in Ends /\ Head(queue[c]).by \in Requests
  /\ Pop(c) /\ EndSession
  /\ LET r == Head(queue[c]).by
         op == Head(queue[c]).op
     IN  /\ effect' = [effect EXCEPT ![r] = EndEffect(c, op, ok)]
         /\ Answers(r, IF ~ok THEN "error" ELSE IF op = "COMMIT" THEN "committed" ELSE "rolled back")
         /\ owner' = NoUser /\ lapsed' = FALSE
  /\ opener' = [opener EXCEPT ![c] = NoUser]
  /\ UNCHANGED <<txTimeout, strays, user>> /\ Watch

(* The route forgets the owner only when the call did not throw.           *)
EndAnswered(c, ok) ==
  /\ Serve(c, ok) /\ Head(queue[c]).op \in Ends /\ Head(queue[c]).by \in Requests
  /\ Pop(c) /\ EndSession
  /\ LET r == Head(queue[c]).by
         op == Head(queue[c]).op
     IN  /\ effect' = [effect EXCEPT ![r] = EndEffect(c, op, ok)]
         /\ IF ok /\ txClient # NoClient
              THEN /\ Answers(r, IF op = "COMMIT" THEN "committed" ELSE "rolled back")
                   /\ owner' = NoUser /\ lapsed' = FALSE
              ELSE Answers(r, "error") /\ UNCHANGED lease
  /\ opener' = [opener EXCEPT ![c] = NoUser]
  /\ UNCHANGED <<txTimeout, strays, user>> /\ Watch

(* The ROLLBACK of the timer; its error is ignored. *)
Expired(c, ok) ==
  /\ Serve(c, ok) /\ Head(queue[c]).by = Timer
  /\ Pop(c) /\ EndSession
  /\ txTimeout' = (txTimeout /\ txClient = NoClient)    \* clearTxTimeout, unless it threw
  /\ opener' = [opener EXCEPT ![c] = NoUser]
  /\ UNCHANGED <<strays, lease, request, effect>> /\ Watch

-----------------------------------------------------------------------------
(* query, and the passing of time *)

(* An ending is on its way on c, whoever sent it. *)
EndQueued(c) == \E i \in DOMAIN queue[c] : queue[c][i].op \in Ends

QueryInTransaction(r) ==
  /\ Arrive(r, "query") /\ ~Refused(r, "query")
  /\ IF txClient = NoClient \/ ~txActive
       THEN Answers(r, "error") /\ UNCHANGED <<queue, effect>>
       ELSE /\ Send(txClient, "STATEMENT", r) /\ Goto(r, "waiting") /\ UNCHANGED answer
            /\ effect' = [effect EXCEPT ![r] = IF EndQueued(txClient) THEN "behind" ELSE @]
  /\ UNCHANGED <<out, status, session, user, opener>> /\ Watch

(* touchTransaction extends whichever record is there by now. *)
QueryAnswered(c, ok) ==
  /\ Serve(c, ok) /\ Head(queue[c]).op = "STATEMENT" /\ Head(queue[c]).by \in Requests
  /\ Pop(c)
  /\ LET r == Head(queue[c]).by
     IN  /\ Answers(r, IF ok THEN "in transaction" ELSE "error")
         /\ effect' = [effect EXCEPT ![r] =
                          IF status[c] # "I" THEN "inside" ELSE IF @ = "behind" THEN @ ELSE "outside"]
  /\ lapsed' = (lapsed /\ ~ok)
  /\ UNCHANGED <<out, session, owner, user, opener>> /\ Watch

LeaseLapses ==
  /\ owner # NoUser /\ ~lapsed
  /\ lapsed' = TRUE
  /\ UNCHANGED <<pool, session, owner, request, ghost>> /\ Watch

-----------------------------------------------------------------------------
RequestStep(r) ==
  \/ Busy(r) \/ Status(r) \/ Begin(r) \/ Connected(r)
  \/ CommitTransaction(r) \/ RollbackTransaction(r) \/ QueryInTransaction(r)

Respond(c) == \E ok \in BOOLEAN : \/ BeginAnswered(c, ok) \/ EndAnswered(c, ok)
                                  \/ Expired(c, ok) \/ QueryAnswered(c, ok)

Next ==
  \/ \E r \in Requests : RequestStep(r)
  \/ \E c \in Clients : Respond(c)
  \/ ExpireTransaction \/ LeaseLapses

Spec == Init /\ [][Next]_vars

(* The server answers what it is sent and timers fire; no user is obliged  *)
(* to come back.                                                           *)
FairSpec ==
  /\ Spec
  /\ \A c \in Clients : WF_vars(Respond(c))
  /\ WF_vars(ExpireTransaction)

-----------------------------------------------------------------------------
(* Properties *)

(* A double commit, a commit racing the auto-rollback, a query behind      *)
(* either: the client the session names is never one the pool may hand to  *)
(* somebody else; and as long as no begin overlaps them, an active         *)
(* transaction has its client, and every open transaction is the session's *)
(* with its auto-rollback armed, or an ending of it is on its way.         *)
SessionIntact ==
  /\ txClient # NoClient => out[txClient]
  /\ ~clash => /\ txActive => txClient # NoClient
               /\ \A c \in Clients : status[c] # "I" =>
                    EndQueued(c) \/ (c = txClient /\ txActive /\ txTimeout)

(* What a request is told is what happened: "committed" is only said of a  *)
(* transaction the server committed, or one it had already failed; and a   *)
(* query answered inTransaction ran inside one, unless it was sent after   *)
(* an ending, the auto-rollback's included, and before its answer.         *)
AnswersTrue ==
  ~clash => \A r \in Requests :
    /\ answer[r] = "committed" => effect[r] \in {"saved", "aborted"}
    /\ answer[r] = "in transaction" => effect[r] # "outside"

(* No user's statement or ending reaches the transaction of an owner whose *)
(* lease is live.                                                          *)
NoForeignSend ==
  [][\A r \in Requests :
       pc[r] = "idle" /\ pc'[r] = "waiting" /\ ~clash' /\ owner # NoUser /\ ~lapsed
         => opener[txClient] = user[r]]_vars

(* The auto-rollback: a transaction nobody ends is ended, and its locks go. *)
LocksReleased == \A c \in Clients : (status[c] # "I" /\ ~clash) ~> (status[c] = "I" \/ clash)

(* What the users who share the connection see of it. *)
Open == {[on |-> c, by |-> opener[c], failed |-> status[c] = "E"] :
           c \in {d \in Clients : status[d] # "I"}}

Lease == IF Open = {} \/ owner = NoUser THEN "gone" ELSE IF lapsed THEN "lapsed" ELSE "live"

Admitted == {e \in [op : Ends \cup {"STATEMENT"}, by : Requests \cup {Timer}] : Sent(e.op, e.by)}

Late == {r \in Requests : effect[r] = "behind"}

Fate == [r \in Requests |->
           IF effect[r] \in {"nothing", "discarded", "aborted", "saved"} THEN effect[r] ELSE "none"]

Contract == INSTANCE OneTransaction WITH
  Sessions <- Clients, open <- Open, lease <- Lease, admitted <- Admitted, late <- Late,
  told <- answer, fate <- Fate, broken <- clash

(* The provider's one session, the lease, the route and the order of the    *)
(* client's queue together keep one transaction at a time: users, a double  *)
(* commit, a query behind an ending and the auto-rollback share it without  *)
(* a foreign statement in it, a statement outside it that was let in before *)
(* its ending, a second auto-rollback, or an answer that is not true.       *)
OneAtATime == Contract!Spec

(* use-transaction-control.ts says of a commit: "All changes have been     *)
(* saved."                                                                 *)
CommittedMeansSaved == \A r \in Requests : answer[r] = "committed" => effect[r] = "saved"
=============================================================================
