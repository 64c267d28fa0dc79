-------------------------- MODULE QueryScopesProofs --------------------------
(* Safety of TransactionSession, and of QueryScopes on top of it, for every *)
(* pool, every set of requests, users and scripts.                          *)
EXTENDS QueryScopes, SequenceTheorems, TLAPS

(* ---- The pool and its queues ---- *)

Entries == [op : Ops, by : Senders]

Queues == [Clients -> Seq(Entries)]

PoolTyped ==
  /\ out \in [Clients -> BOOLEAN]
  /\ status \in [Clients -> {"I", "T", "E"}]
  /\ queue \in Queues

At(c) == 1 .. Len(queue[c])

(* Of each member of W at most one statement is on its way. *)
Once(W) == \A c, d \in Clients : \A i \in At(c), j \in At(d) :
  queue[c][i].by \in W /\ queue[c][i].by = queue[d][j].by => c = d /\ i = j

(* Nothing of `by` is on its way. *)
Silent(by) == \A c \in Clients : \A i \in At(c) : queue[c][i].by # by

(* A statement goes to the end of its client's queue. *)
LEMMA SendEffect ==
  ASSUME queue \in Queues, NEW c \in Clients, NEW op \in Ops, NEW by \in Senders,
         Send(c, op, by)
  PROVE  /\ queue' \in Queues
         /\ \A d \in Clients : d # c => queue'[d] = queue[d]
         /\ Len(queue'[c]) = Len(queue[c]) + 1
         /\ \A i \in At(c) : queue'[c][i] = queue[c][i]
         /\ queue'[c][Len(queue[c]) + 1] = [op |-> op, by |-> by]
<1> DEFINE e == [op |-> op, by |-> by]
<1>1. e \in Entries
  BY DEF Entries
<1>2. queue[c] \in Seq(Entries)
  BY DEF Queues
<1>3. /\ queue'[c] = Append(queue[c], e)
      /\ \A d \in Clients : d # c => queue'[d] = queue[d]
      /\ queue' = [d \in Clients |-> IF d = c THEN Append(queue[c], e) ELSE queue[d]]
  BY DEF Send, Queues
<1> HIDE DEF e
<1>4. /\ Append(queue[c], e) \in Seq(Entries)
      /\ Len(Append(queue[c], e)) = Len(queue[c]) + 1
      /\ \A i \in At(c) : Append(queue[c], e)[i] = queue[c][i]
      /\ Append(queue[c], e)[Len(queue[c]) + 1] = e
  BY <1>1, <1>2, AppendProperties DEF At
<1>5. queue' \in Queues
  BY <1>3, <1>4 DEF Queues
<1> QED BY <1>3, <1>4, <1>5 DEF e

(* An answered statement leaves the front of its client's queue. *)
LEMMA PopEffect ==
  ASSUME queue \in Queues, NEW c \in Clients, queue[c] # <<>>, Pop(c)
  PROVE  /\ queue' \in Queues
         /\ \A d \in Clients : d # c => queue'[d] = queue[d]
         /\ Len(queue[c]) \in Nat /\ Len(queue'[c]) = Len(queue[c]) - 1
         /\ \A i \in 1 .. Len(queue[c]) - 1 : queue'[c][i] = queue[c][i + 1]
         /\ 1 \in At(c) /\ Head(queue[c]) = queue[c][1] /\ queue[c][1] \in Entries
<1>1. queue[c] \in Seq(Entries)
  BY DEF Queues
<1>2. /\ queue'[c] = Tail(queue[c])
      /\ \A d \in Clients : d # c => queue'[d] = queue[d]
      /\ queue' = [d \in Clients |-> IF d = c THEN Tail(queue[c]) ELSE queue[d]]
  BY DEF Pop, Queues
<1>3. /\ Tail(queue[c]) \in Seq(Entries)
      /\ Len(queue[c]) \in Nat /\ Len(Tail(queue[c])) = Len(queue[c]) - 1
      /\ \A i \in 1 .. Len(queue[c]) - 1 : Tail(queue[c])[i] = queue[c][i + 1]
      /\ 1 \in At(c) /\ Head(queue[c]) = queue[c][1] /\ queue[c][1] \in Entries
  BY <1>1 DEF At
<1>4. queue' \in Queues
  BY <1>2, <1>3 DEF Queues
<1> QED BY <1>2, <1>3, <1>4

(* What is on its way after a sending, and after an answer. *)
LEMMA SendEntries ==
  ASSUME queue \in Queues, NEW c \in Clients, NEW op \in Ops, NEW by \in Senders,
         Send(c, op, by), NEW d \in Clients, NEW k \in At(d)'
  PROVE  \/ k \in At(d) /\ queue'[d][k] = queue[d][k]
         \/ d = c /\ k = Len(queue[c]) + 1 /\ queue'[d][k] = [op |-> op, by |-> by]
<1>1. /\ Len(queue'[c]) = Len(queue[c]) + 1
      /\ \A e \in Clients : e # c => queue'[e] = queue[e]
      /\ \A i \in At(c) : queue'[c][i] = queue[c][i]
      /\ queue'[c][Len(queue[c]) + 1] = [op |-> op, by |-> by]
  BY SendEffect
<1>2. Len(queue[c]) \in Nat
  BY DEF Queues
<1>3. CASE d # c
  BY <1>3, <1>1 DEF At
<1>4. CASE d = c
  BY <1>4, <1>1, <1>2 DEF At
<1> QED BY <1>3, <1>4

LEMMA SendStays ==
  ASSUME queue \in Queues, NEW c \in Clients, NEW op \in Ops, NEW by \in Senders,
         Send(c, op, by), NEW d \in Clients, NEW i \in At(d)
  PROVE  i \in At(d)' /\ queue'[d][i] = queue[d][i]
<1>1. /\ Len(queue'[c]) = Len(queue[c]) + 1
      /\ \A e \in Clients : e # c => queue'[e] = queue[e]
      /\ \A j \in At(c) : queue'[c][j] = queue[c][j]
  BY SendEffect
<1>2. Len(queue[c]) \in Nat
  BY DEF Queues
<1>3. CASE d = c
  BY <1>1, <1>2, <1>3 DEF At
<1>4. CASE d # c
  BY <1>1, <1>4 DEF At
<1> QED BY <1>3, <1>4

Before(c, d, k) == IF d = c THEN k + 1 ELSE k

LEMMA PopEntries ==
  ASSUME queue \in Queues, NEW c \in Clients, queue[c] # <<>>, Pop(c),
         NEW d \in Clients, NEW k \in At(d)'
  PROVE  Before(c, d, k) \in At(d) /\ queue'[d][k] = queue[d][Before(c, d, k)]
<1>1. /\ Len(queue[c]) \in Nat /\ Len(queue'[c]) = Len(queue[c]) - 1
      /\ \A e \in Clients : e # c => queue'[e] = queue[e]
      /\ \A i \in 1 .. Len(queue[c]) - 1 : queue'[c][i] = queue[c][i + 1]
  BY PopEffect
<1>2. CASE d # c
  BY <1>2, <1>1 DEF At, Before
<1>3. CASE d = c
  BY <1>3, <1>1 DEF At, Before
<1> QED BY <1>2, <1>3

LEMMA PopStays ==
  ASSUME queue \in Queues, NEW c \in Clients, queue[c] # <<>>, Pop(c),
         NEW d \in Clients, NEW i \in At(d), queue[d][i].by # Head(queue[c]).by
  PROVE  \E k \in At(d)' : queue'[d][k] = queue[d][i]
<1>1. /\ Len(queue[c]) \in Nat /\ Len(queue'[c]) = Len(queue[c]) - 1
      /\ \A e \in Clients : e # c => queue'[e] = queue[e]
      /\ \A k \in 1 .. Len(queue[c]) - 1 : queue'[c][k] = queue[c][k + 1]
      /\ Head(queue[c]) = queue[c][1]
  BY PopEffect
<1>2. CASE d # c
  BY <1>2, <1>1 DEF At
<1>3. CASE d = c
  <2>1. i # 1
    BY <1>1, <1>3
  <2>2. i - 1 \in At(d)' /\ queue'[d][i - 1] = queue[d][i]
    BY <1>1, <1>3, <2>1 DEF At
  <2> QED BY <2>2
<1> QED BY <1>2, <1>3

(* Sending keeps Once, when the sender had nothing on its way. *)
LEMMA SendOnce ==
  ASSUME queue \in Queues, NEW c \in Clients, NEW op \in Ops, NEW by \in Senders,
         Send(c, op, by), NEW W, Once(W), by \in W => Silent(by)
  PROVE  Once(W)'
<1> SUFFICES ASSUME NEW d1 \in Clients, NEW d2 \in Clients,
                    NEW i \in At(d1)', NEW j \in At(d2)',
                    queue'[d1][i].by \in W, queue'[d1][i].by = queue'[d2][j].by
             PROVE  d1 = d2 /\ i = j
  BY DEF Once
<1>1. ASSUME NEW d \in Clients, NEW k \in At(d)'
      PROVE  \/ k \in At(d) /\ queue'[d][k] = queue[d][k]
             \/ d = c /\ k = Len(queue[c]) + 1 /\ queue'[d][k].by = by
  <2>1. \/ k \in At(d) /\ queue'[d][k] = queue[d][k]
        \/ d = c /\ k = Len(queue[c]) + 1 /\ queue'[d][k] = [op |-> op, by |-> by]
    BY SendEntries
  <2> QED BY <2>1
<1>2. CASE i \in At(d1) /\ queue'[d1][i] = queue[d1][i] /\ j \in At(d2) /\ queue'[d2][j] = queue[d2][j]
  BY <1>2 DEF Once
<1> QED BY <1>1, <1>2 DEF Silent

(* Answering keeps Once, and the one answered has nothing more on its way. *)
LEMMA PopOnce ==
  ASSUME queue \in Queues, NEW c \in Clients, queue[c] # <<>>, Pop(c), NEW W, Once(W)
  PROVE  /\ Once(W)'
         /\ Head(queue[c]).by \in W =>
              \A d \in Clients : \A k \in At(d)' : queue'[d][k].by # Head(queue[c]).by
<1>1. \A d \in Clients : \A k \in At(d)' :
        Before(c, d, k) \in At(d) /\ queue'[d][k] = queue[d][Before(c, d, k)]
  BY PopEntries
<1>2. 1 \in At(c) /\ Head(queue[c]) = queue[c][1]
  BY PopEffect
<1>3. Once(W)'
  <2> SUFFICES ASSUME NEW d1 \in Clients, NEW d2 \in Clients,
                      NEW i \in At(d1)', NEW j \in At(d2)',
                      queue'[d1][i].by \in W, queue'[d1][i].by = queue'[d2][j].by
               PROVE  d1 = d2 /\ i = j
    BY DEF Once
  <2>1. d1 = d2 /\ Before(c, d1, i) = Before(c, d2, j)
    BY <1>1 DEF Once
  <2> QED BY <2>1 DEF At, Before
<1>4. ASSUME Head(queue[c]).by \in W, NEW d \in Clients, NEW k \in At(d)',
             queue'[d][k].by = Head(queue[c]).by
      PROVE  FALSE
  <2>1. d = c /\ Before(c, d, k) = 1
    BY <1>1, <1>2, <1>4 DEF Once
  <2> QED BY <2>1 DEF At, Before
<1> QED BY <1>3, <1>4

-----------------------------------------------------------------------------
(* The interactive session *)

Labels  == {"idle", "connecting", "waiting", "answered"}
Replies == {"none", "busy", "status", "error", "started", "committed", "rolled back",
            "in transaction"}
Effects == {"none", "nothing", "discarded", "aborted", "saved", "behind", "inside", "outside"}

SessionTyped ==
  /\ txClient \in Clients \cup {NoClient} /\ txActive \in BOOLEAN
  /\ owner \in Users \cup {NoUser} /\ clash \in BOOLEAN
  /\ pc \in [Requests -> Labels]
  /\ user \in [Requests -> Users]
  /\ answer \in [Requests -> Replies] /\ effect \in [Requests -> Effects]
  /\ opener \in [Clients -> Users \cup {NoUser}]

(* Who has a statement on its way: requests that wait for it, one each, and *)
(* the auto-rollback, which sends nothing but its ROLLBACK.                 *)
SentInv ==
  /\ \A c \in Clients : \A i \in At(c) :
       \/ queue[c][i].by \in Requests /\ pc[queue[c][i].by] = "waiting"
       \/ queue[c][i] = [op |-> "ROLLBACK", by |-> Timer]
  /\ Once(Requests)
  /\ \A r \in Requests : answer[r] # "none" => pc[r] = "answered"

HeldClient == txClient # NoClient => out[txClient]

(* Until a clash: the one client in a transaction is the session's, ...     *)
Ours ==
  /\ txActive => txClient # NoClient /\ status[txClient] # "I"
  /\ \A c \in Clients : status[c] # "I" => txActive /\ c = txClient

(* ... so is the one a BEGIN is on its way on, and no transaction is active *)
(* meanwhile; what is on its way to end one ends the active one, or finds   *)
(* it ended; ...                                                            *)
OnItsWay ==
  /\ \A r \in Requests : pc[r] = "connecting" => ~txActive
  /\ \A c \in Clients : \A i \in At(c) :
       /\ queue[c][i].op = "BEGIN" => c = txClient /\ ~txActive
       /\ queue[c][i].op \in Ends => txClient = NoClient \/ (c = txClient /\ txActive)

(* ... a query not sent behind an ending will meet an open transaction; ... *)
WillMeet == \A c \in Clients : \A i \in At(c) :
  queue[c][i].op = "STATEMENT" /\ effect[queue[c][i].by] # "behind"
    => status[c] # "I" /\ \A j \in At(c) : j < i => queue[c][j].op \notin Ends

(* ... and whoever is recorded as the owner opened it.                      *)
OwnerOpened == txActive => owner \in {NoUser, opener[txClient]}

Calm == ~Overlap /\ Ours /\ OnItsWay /\ WillMeet /\ OwnerOpened /\ AnswersTrue

SessionInv ==
  PoolTyped /\ SessionTyped /\ SentInv /\ HeldClient /\ (~clash => Calm)

-----------------------------------------------------------------------------
(* What the session's steps have in common *)

(* Until a clash, a begin under way is the only one, and nothing that ends  *)
(* a transaction is on its way meanwhile.                                   *)
LEMMA BeginsAlone ==
  ASSUME PoolTyped, SessionTyped, SentInv, ~Overlap
  PROVE  /\ \A q, r \in Requests : pc[q] = "connecting" /\ pc[r] = "connecting" => q = r
         /\ \A c \in Clients : \A i \in At(c) : queue[c][i].op \in {"BEGIN"} \cup Ends =>
              \A r \in Requests : pc[r] # "connecting"
         /\ \A c, d \in Clients : \A i \in At(c), j \in At(d) :
              queue[c][i].op = "BEGIN" =>
                /\ queue[d][j].op \notin Ends
                /\ queue[d][j].op = "BEGIN" => queue[d][j].by = queue[c][i].by
<1>1. \A c \in Clients : \A i \in At(c) :
        /\ queue[c][i] \in Entries
        /\ queue[c][i] = [op |-> queue[c][i].op, by |-> queue[c][i].by]
        /\ i \in DOMAIN queue[c]
  <2> TAKE c \in Clients
  <2> TAKE i \in At(c)
  <2>1. queue[c] \in Seq(Entries)
    BY DEF PoolTyped, Queues
  <2>2. i \in DOMAIN queue[c] /\ queue[c][i] \in Entries
    BY <2>1 DEF At
  <2>3. queue[c][i] = [op |-> queue[c][i].op, by |-> queue[c][i].by]
    BY <2>2 DEF Entries
  <2> QED BY <2>2, <2>3
<1>2. \A c \in Clients : \A i \in At(c) : Sent(queue[c][i].op, queue[c][i].by)
  BY <1>1 DEF Sent
<1>3. \A c \in Clients : \A i \in At(c) : queue[c][i].op = "BEGIN" =>
        /\ queue[c][i].by \in Requests /\ pc[queue[c][i].by] = "waiting"
        /\ Beginning(queue[c][i].by)
  BY <1>2 DEF SentInv, Beginning
<1>4. \A c \in Clients : \A i \in At(c) : queue[c][i].op \in Ends =>
        queue[c][i].by \in Requests \cup {Timer} /\ Ending(queue[c][i].by)
  BY <1>2 DEF SentInv, Ending
<1>5. \A r \in Requests : pc[r] = "connecting" => Beginning(r)
  BY DEF Beginning
<1>6. \A r \in Requests : Beginning(r) =>
        /\ \A q \in Requests : Beginning(q) => q = r
        /\ \A by \in Requests \cup {Timer} : ~ Ending(by)
  BY DEF Overlap
<1> HIDE DEF Beginning, Ending
<1>7. \A q, r \in Requests : pc[q] = "connecting" /\ pc[r] = "connecting" => q = r
  BY <1>5, <1>6
<1>8. \A c \in Clients : \A i \in At(c) : queue[c][i].op \in {"BEGIN"} \cup Ends =>
        \A r \in Requests : pc[r] # "connecting"
  BY <1>3, <1>4, <1>5, <1>6
<1>9. \A c, d \in Clients : \A i \in At(c), j \in At(d) :
        queue[c][i].op = "BEGIN" =>
          /\ queue[d][j].op \notin Ends
          /\ queue[d][j].op = "BEGIN" => queue[d][j].by = queue[c][i].by
  BY <1>3, <1>4, <1>6
<1> QED BY <1>7, <1>8, <1>9

(* A request that is not waiting has nothing on its way. *)
LEMMA NotWaiting ==
  ASSUME SentInv, SessionAssumption, NEW r \in Requests, pc[r] # "waiting"
  PROVE  Silent(r)
BY DEF SentInv, Silent, SessionAssumption

(* A request is answered, or goes to wait. *)
LEMMA Answering ==
  ASSUME SessionTyped, NEW r \in Requests, NEW a \in Replies, Answers(r, a)
  PROVE  /\ pc' \in [Requests -> Labels] /\ answer' \in [Requests -> Replies]
         /\ pc'[r] = "answered" /\ answer'[r] = a
         /\ \A q \in Requests : q # r => pc'[q] = pc[q] /\ answer'[q] = answer[q]
BY DEF SessionTyped, Answers, Goto, Labels

LEMMA Going ==
  ASSUME SessionTyped, NEW r \in Requests, NEW l \in Labels, Goto(r, l)
  PROVE  /\ pc' \in [Requests -> Labels] /\ pc'[r] = l
         /\ \A q \in Requests : q # r => pc'[q] = pc[q]
BY DEF SessionTyped, Goto

LEMMA SentAfterSend ==
  ASSUME PoolTyped, SessionTyped, SentInv,
         NEW c \in Clients, NEW op \in Ops, NEW by \in Requests \cup {Timer},
         Send(c, op, by), UNCHANGED answer,
         \/ by \in Requests /\ pc[by] \in {"idle", "connecting"} /\ Goto(by, "waiting")
         \/ by = Timer /\ op = "ROLLBACK" /\ UNCHANGED pc
  PROVE  SentInv'
<1>1. queue \in Queues /\ by \in Senders
  BY SessionAssumption DEF PoolTyped
<1>2. by \in Requests => Silent(by)
  <2>1. by \in Requests => pc[by] # "waiting"
    BY SessionAssumption
  <2> QED BY <2>1, NotWaiting, SessionAssumption
<1>3. Once(Requests)'
  BY <1>1, <1>2, SendOnce DEF SentInv
<1>4. \A r \in Requests : pc[r] = "waiting" => pc'[r] = "waiting"
  BY DEF SessionTyped, Goto
<1>5. by \in Requests => pc'[by] = "waiting"
  BY SessionAssumption DEF SessionTyped, Goto
<1>6. ASSUME NEW d \in Clients, NEW k \in At(d)'
      PROVE  \/ queue'[d][k].by \in Requests /\ pc'[queue'[d][k].by] = "waiting"
             \/ queue'[d][k] = [op |-> "ROLLBACK", by |-> Timer]
  <2>1. CASE k \in At(d) /\ queue'[d][k] = queue[d][k]
    BY <2>1, <1>4 DEF SentInv
  <2>2. CASE queue'[d][k] = [op |-> op, by |-> by]
    BY <2>2, <1>5
  <2> QED BY <1>1, <2>1, <2>2, SendEntries
<1>7. \A r \in Requests : answer'[r] # "none" => pc'[r] = "answered"
  BY SessionAssumption DEF SessionTyped, Goto, SentInv
<1> QED BY <1>3, <1>6, <1>7 DEF SentInv

LEMMA SentAfterPop ==
  ASSUME PoolTyped, SessionTyped, SentInv,
         NEW c \in Clients, queue[c] # <<>>, Pop(c),
         \/ /\ Head(queue[c]).by \in Requests
            /\ \E a \in Replies : Answers(Head(queue[c]).by, a)
         \/ Head(queue[c]).by = Timer /\ UNCHANGED <<pc, answer>>
  PROVE  SentInv'
<1> DEFINE by == Head(queue[c]).by
<1>1. queue \in Queues
  BY DEF PoolTyped
<1>2. Once(Requests)' /\ (by \in Requests =>
        \A d \in Clients : \A k \in At(d)' : queue'[d][k].by # by)
  BY <1>1, PopOnce DEF SentInv
<1> HIDE DEF by
<1>3. \A r \in Requests : pc'[r] = pc[r] \/ (r = by /\ by \in Requests)
  BY DEF SessionTyped, Answers, Goto, by
<1>4. ASSUME NEW d \in Clients, NEW k \in At(d)'
      PROVE  \/ queue'[d][k].by \in Requests /\ pc'[queue'[d][k].by] = "waiting"
             \/ queue'[d][k] = [op |-> "ROLLBACK", by |-> Timer]
  <2>1. Before(c, d, k) \in At(d) /\ queue'[d][k] = queue[d][Before(c, d, k)]
    BY <1>1, PopEntries
  <2> QED BY <2>1, <1>2, <1>3 DEF SentInv
<1>5. \A r \in Requests : answer'[r] # "none" => pc'[r] = "answered"
  BY DEF SessionTyped, Answers, Goto, SentInv
<1> QED BY <1>2, <1>4, <1>5 DEF SentInv

-----------------------------------------------------------------------------
(* The steps of the session *)

(* A request moves without touching the pool or the session: it is refused, *)
(* told of the status or of an error, or goes to wait for a client.         *)
LEMMA QuietStep ==
  ASSUME SessionInv, Watch, UNCHANGED <<pool, txClient, txActive, opener, effect, user>>,
         owner' \in {owner, NoUser},
         NEW r \in Requests, pc[r] \in {"idle", "connecting"},
         \/ Goto(r, "connecting") /\ ~txActive /\ UNCHANGED answer
         \/ \E a \in {"busy", "status", "error"} : Answers(r, a)
  PROVE  SessionInv'
<1>1. UNCHANGED <<out, status, queue, txClient, txActive, opener, effect, user>>
  BY DEF pool
<1>2. /\ PoolTyped /\ SessionTyped /\ SentInv /\ HeldClient
      /\ clash \in BOOLEAN /\ (~clash => Calm)
  BY DEF SessionInv, SessionTyped
<1>3. PoolTyped' /\ HeldClient'
  BY <1>1, <1>2 DEF PoolTyped, HeldClient
<1>4. /\ pc' \in [Requests -> Labels]
      /\ answer' \in [Requests -> Replies]
  <2>1. CASE Goto(r, "connecting") /\ UNCHANGED answer
    BY <1>2, <2>1, Going DEF SessionTyped, Labels
  <2>2. ASSUME NEW a \in {"busy", "status", "error"}, Answers(r, a)
        PROVE  pc' \in [Requests -> Labels] /\ answer' \in [Requests -> Replies]
    BY <1>2, <2>2, Answering DEF Replies
  <2> QED BY <2>1, <2>2
<1>5. SessionTyped'
  BY <1>1, <1>2, <1>4 DEF SessionTyped, Watch
<1>6. SentInv'
  <2>1. Once(Requests)'
    BY <1>1, <1>2 DEF SentInv, Once, At
  <2>2. \A q \in Requests : q # r => pc'[q] = pc[q] /\ answer'[q] = answer[q]
    BY <1>2 DEF SessionTyped, Goto, Answers
  <2>3. answer'[r] # "none" => pc'[r] = "answered"
    BY <1>2 DEF SessionTyped, SentInv, Goto, Answers
  <2>4. \A q \in Requests : pc[q] = "waiting" => pc'[q] = "waiting"
    BY <2>2
  <2>5. \A q \in Requests : answer'[q] # "none" => pc'[q] = "answered"
    BY <1>2, <2>2, <2>3 DEF SentInv
  <2>6. ASSUME NEW c \in Clients, NEW i \in At(c)'
        PROVE  \/ queue'[c][i].by \in Requests /\ pc'[queue'[c][i].by] = "waiting"
               \/ queue'[c][i] = [op |-> "ROLLBACK", by |-> Timer]
    BY <1>1, <1>2, <2>4 DEF SentInv, At
  <2> QED BY <2>1, <2>5, <2>6 DEF SentInv
<1>7. ASSUME ~clash' PROVE Calm'
  <2>1. ~clash /\ ~Overlap'
    BY <1>2, <1>7 DEF Watch
  <2>2. Ours /\ OnItsWay /\ WillMeet /\ OwnerOpened /\ AnswersTrue
    BY <1>2, <2>1 DEF Calm
  <2>3. Ours' /\ WillMeet' /\ OwnerOpened'
    BY <1>1, <2>2 DEF Ours, WillMeet, OwnerOpened, At
  <2>4. \A q \in Requests : pc'[q] = "connecting" => ~txActive
    BY <1>2, <2>2 DEF SessionTyped, Goto, Answers, OnItsWay
  <2>5. OnItsWay'
    BY <1>1, <2>2, <2>4 DEF OnItsWay, At
  <2>6. AnswersTrue'
    BY <1>1, <1>2, <2>1, <2>2 DEF AnswersTrue, Answers, SessionTyped
  <2> QED BY <2>1, <2>3, <2>5, <2>6 DEF Calm
<1> QED BY <1>3, <1>5, <1>6, <1>7, <1>2 DEF SessionInv

(* pool.connect() has a client for a begin, and BEGIN is sent on it. *)
LEMMA ConnectedStep ==
  ASSUME SessionInv, SessionAssumption, NoClientAssumption, Watch,
         NEW r \in Requests, pc[r] = "connecting", NEW c \in Clients,
         Checkout(c), txClient' = c, Send(c, "BEGIN", r), Goto(r, "waiting"),
         UNCHANGED <<answer, status, txActive, owner, user, opener, effect>>
  PROVE  SessionInv'
<1>1. /\ PoolTyped /\ SessionTyped /\ SentInv /\ HeldClient
      /\ clash \in BOOLEAN /\ (~clash => Calm) /\ queue \in Queues /\ r \in Senders
  BY SessionAssumption DEF SessionInv, SessionTyped, PoolTyped
<1>2. "BEGIN" \in Ops
  BY DEF Ops
<1>3. PoolTyped'
  <2>1. queue' \in Queues
    BY <1>1, <1>2, SendEffect
  <2> QED BY <1>1, <2>1 DEF PoolTyped, Checkout
<1>4. SessionTyped'
  <2>1. pc' \in [Requests -> Labels]
    BY <1>1, Going DEF Labels
  <2> QED BY <1>1, <2>1 DEF SessionTyped, Watch
<1>5. SentInv'
  BY <1>1, <1>2, SentAfterSend
<1>6. HeldClient'
  BY <1>1 DEF HeldClient, Checkout, PoolTyped
<1>7. ASSUME ~clash' PROVE Calm'
  <2>1. ~clash /\ ~Overlap'
    BY <1>1, <1>7 DEF Watch
  <2>2. Ours /\ OnItsWay /\ WillMeet /\ OwnerOpened /\ AnswersTrue /\ ~Overlap
    BY <1>1, <2>1 DEF Calm
  <2>3. ~txActive /\ \A d \in Clients : status[d] = "I"
    BY <2>2 DEF OnItsWay, Ours
  <2>4. /\ \A d \in Clients : \A i \in At(d) : queue[d][i].op \notin {"BEGIN"} \cup Ends
        /\ \A q \in Requests : pc[q] = "connecting" => q = r
    BY <1>1, <2>2, BeginsAlone
  <2>5. ASSUME NEW d \in Clients, NEW i \in At(d)'
        PROVE  \/ i \in At(d) /\ queue'[d][i] = queue[d][i]
               \/ d = c /\ queue'[d][i].op = "BEGIN"
    <3>1. \/ i \in At(d) /\ queue'[d][i] = queue[d][i]
          \/ d = c /\ i = Len(queue[c]) + 1 /\ queue'[d][i] = [op |-> "BEGIN", by |-> r]
      BY <1>1, <1>2, SendEntries
    <3> QED BY <3>1
  <2>6. Ours'
    BY <2>3 DEF Ours
  <2>7. OnItsWay'
    BY <2>3, <2>4, <2>5 DEF OnItsWay, Ends
  <2>8. WillMeet'
    <3> SUFFICES ASSUME NEW d \in Clients, NEW i \in At(d)', queue'[d][i].op = "STATEMENT",
                        effect[queue'[d][i].by] # "behind"
                 PROVE  FALSE
      BY DEF WillMeet
    <3> QED BY <2>2, <2>3, <2>5 DEF WillMeet
  <2>9. OwnerOpened' /\ AnswersTrue'
    BY <2>1, <2>2, <2>3 DEF OwnerOpened, AnswersTrue
  <2> QED BY <2>1, <2>6, <2>7, <2>8, <2>9 DEF Calm
<1> QED BY <1>3, <1>4, <1>5, <1>6, <1>7 DEF SessionInv

(* BEGIN is answered. *)
LEMMA BeginAnsweredStep ==
  ASSUME SessionInv, SessionAssumption, NoClientAssumption,
         NEW c \in Clients, NEW ok \in BOOLEAN, BeginAnswered(c, ok)
  PROVE  SessionInv'
<1> DEFINE r == Head(queue[c]).by
<1>1. /\ PoolTyped /\ SessionTyped /\ SentInv /\ HeldClient
      /\ clash \in BOOLEAN /\ (~clash => Calm) /\ queue \in Queues
  BY DEF SessionInv, SessionTyped, PoolTyped
<1>2. /\ r \in Requests /\ Head(queue[c]).op = "BEGIN" /\ queue[c] # <<>> /\ Pop(c) /\ Watch
      /\ status' = [status EXCEPT ![c] = IF ok THEN "T" ELSE @]
      /\ UNCHANGED <<out, txClient, user, effect>>
      /\ ok => /\ txActive' = TRUE /\ owner' = user[r] /\ Answers(r, "started")
               /\ opener' = [opener EXCEPT ![c] = user[r]]
      /\ ~ok => Answers(r, "error") /\ UNCHANGED <<txActive, owner, opener>>
  BY <1>1 DEF BeginAnswered, Serve, StatusAfter, ClaimTransaction, lease, PoolTyped
<1>3. /\ queue' \in Queues /\ 1 \in At(c) /\ Head(queue[c]) = queue[c][1]
  BY <1>1, <1>2, PopEffect
<1> HIDE DEF r
<1>4. PoolTyped' /\ HeldClient'
  BY <1>1, <1>2, <1>3 DEF PoolTyped, HeldClient
<1>5. SessionTyped'
  <2>1. /\ pc' \in [Requests -> Labels]
        /\ answer' \in [Requests -> Replies]
    <3>1. PICK a \in Replies : Answers(r, a)
      BY <1>2 DEF Replies
    <3> QED BY <1>1, <1>2, <3>1, Answering
  <2>2. /\ txActive' \in BOOLEAN /\ owner' \in Users \cup {NoUser}
        /\ opener' \in [Clients -> Users \cup {NoUser}]
    <3>1. user[r] \in Users
      BY <1>1, <1>2 DEF SessionTyped
    <3>2. CASE ok
      BY <1>1, <1>2, <3>1, <3>2 DEF SessionTyped
    <3>3. CASE ~ok
      BY <1>1, <1>2, <3>3 DEF SessionTyped
    <3> QED BY <3>2, <3>3
  <2>3. clash' \in BOOLEAN
    BY <1>1, <1>2 DEF Watch
  <2> QED BY <1>1, <1>2, <2>1, <2>2, <2>3 DEF SessionTyped
<1>6. SentInv'
  <2>1. \E a \in Replies : Answers(r, a)
    BY <1>2 DEF Replies
  <2> QED BY <1>1, <1>2, <2>1, SentAfterPop DEF r
<1>7. ASSUME ~clash' PROVE Calm'
  <2>1. ~clash /\ ~Overlap'
    BY <1>1, <1>2, <1>7 DEF Watch
  <2>2. Ours /\ OnItsWay /\ WillMeet /\ OwnerOpened /\ AnswersTrue /\ ~Overlap
    BY <1>1, <2>1 DEF Calm
  <2>3. queue[c][1].op = "BEGIN" /\ queue[c][1].by = r
    BY <1>2, <1>3 DEF r
  <2>4. c = txClient /\ ~txActive /\ \A d \in Clients : status[d] = "I"
    BY <1>3, <2>2, <2>3 DEF OnItsWay, Ours
  <2>5. /\ \A q \in Requests : pc[q] # "connecting"
        /\ \A d \in Clients : \A j \in At(d) :
             queue[d][j].op \notin Ends /\ (queue[d][j].op = "BEGIN" => queue[d][j].by = r)
    BY <1>1, <1>3, <2>2, <2>3, BeginsAlone
  <2>6. \A d \in Clients : \A i \in At(d)' :
          Before(c, d, i) \in At(d) /\ queue'[d][i] = queue[d][Before(c, d, i)]
    BY <1>1, <1>2, PopEntries
  <2>7. \A d \in Clients : \A i \in At(d)' : queue'[d][i].by # r
    BY <1>1, <1>2, PopOnce DEF SentInv, r
  <2>8. \A d \in Clients : \A i \in At(d)' : queue'[d][i].op \notin {"BEGIN"} \cup Ends
    BY <2>5, <2>6, <2>7
  <2>9. Ours'
    BY <1>1, <1>2, <2>4 DEF Ours, PoolTyped, NoClientAssumption
  <2>10. OnItsWay'
    <3>1. \A q \in Requests : pc'[q] # "connecting"
      BY <1>1, <1>2, <2>5 DEF Answers, Goto, SessionTyped
    <3> QED BY <2>8, <3>1 DEF OnItsWay
  <2>11. WillMeet'
    <3> SUFFICES ASSUME NEW d \in Clients, NEW i \in At(d)', queue'[d][i].op = "STATEMENT",
                        effect[queue'[d][i].by] # "behind"
                 PROVE  FALSE
      BY <1>2 DEF WillMeet
    <3> QED BY <2>2, <2>4, <2>6 DEF WillMeet
  <2>12. OwnerOpened'
    BY <1>1, <1>2, <2>4 DEF OwnerOpened, SessionTyped
  <2>13. AnswersTrue'
    <3>1. \E a \in {"started", "error"} : answer' = [answer EXCEPT ![r] = a]
      BY <1>2 DEF Answers
    <3> QED BY <1>1, <1>2, <2>1, <2>2, <3>1 DEF AnswersTrue, SessionTyped
  <2> QED BY <2>1, <2>9, <2>10, <2>11, <2>12, <2>13 DEF Calm
<1> QED BY <1>4, <1>5, <1>6, <1>7 DEF SessionInv

(* A query, an ending or the auto-rollback is sent on the active client. *)
LEMMA SendStep ==
  ASSUME SessionInv, SessionAssumption, Watch, txActive, txClient # NoClient,
         NEW op \in Ends \cup {"STATEMENT"}, NEW by \in Requests \cup {Timer},
         Send(txClient, op, by),
         UNCHANGED <<out, status, txClient, txActive, user, opener, answer>>,
         owner' \in {owner, NoUser},
         \/ by \in Requests /\ pc[by] = "idle" /\ Goto(by, "waiting")
         \/ by = Timer /\ op = "ROLLBACK" /\ UNCHANGED pc,
         IF op = "STATEMENT"
         THEN effect' = [effect EXCEPT ![by] = IF EndQueued(txClient) THEN "behind" ELSE @]
         ELSE UNCHANGED effect
  PROVE  SessionInv'
<1>1. /\ PoolTyped /\ SessionTyped /\ SentInv /\ HeldClient
      /\ clash \in BOOLEAN /\ (~clash => Calm) /\ queue \in Queues /\ by \in Senders
      /\ txClient \in Clients /\ op \in Ops
  BY SessionAssumption DEF SessionInv, SessionTyped, PoolTyped, Ends, Ops
<1>2. PoolTyped' /\ HeldClient'
  <2>1. queue' \in Queues
    BY <1>1, SendEffect
  <2> QED BY <1>1, <2>1 DEF PoolTyped, HeldClient
<1>3. /\ pc' \in [Requests -> Labels]
      /\ \A q \in Requests : q # by => pc'[q] = pc[q]
      /\ by \in Requests => pc[by] = "idle" /\ pc'[by] = "waiting"
  <2>1. CASE by \in Requests /\ pc[by] = "idle" /\ Goto(by, "waiting")
    BY <1>1, <2>1, Going DEF Labels
  <2>2. CASE by = Timer /\ UNCHANGED pc
    BY <1>1, <2>2, SessionAssumption DEF SessionTyped
  <2> QED BY <2>1, <2>2
<1>4. /\ effect' \in [Requests -> Effects]
      /\ \A q \in Requests : q # by => effect'[q] = effect[q]
  BY <1>1 DEF SessionTyped, Effects
<1>5. SessionTyped'
  BY <1>1, <1>3, <1>4 DEF SessionTyped, Watch
<1>6. SentInv'
  BY <1>1, SentAfterSend
<1>7. ASSUME ~clash' PROVE Calm'
  <2>1. ~clash /\ ~Overlap'
    BY <1>1, <1>7 DEF Watch
  <2>2. Ours /\ OnItsWay /\ WillMeet /\ OwnerOpened /\ AnswersTrue
    BY <1>1, <2>1 DEF Calm
  <2>3. ASSUME NEW d \in Clients, NEW i \in At(d)'
        PROVE  \/ i \in At(d) /\ queue'[d][i] = queue[d][i]
               \/ /\ d = txClient /\ i = Len(queue[txClient]) + 1
                  /\ queue'[d][i] = [op |-> op, by |-> by]
    BY <1>1, SendEntries
  <2>4. Ours' /\ OwnerOpened'
    BY <2>2 DEF Ours, OwnerOpened
  <2>5. OnItsWay'
    <3>1. \A q \in Requests : pc'[q] # "connecting"
      BY <1>3, <2>2 DEF OnItsWay
    <3>2. ASSUME NEW d \in Clients, NEW i \in At(d)'
          PROVE  /\ queue'[d][i].op = "BEGIN" => d = txClient /\ ~txActive
                 /\ queue'[d][i].op \in Ends => d = txClient /\ txActive
      <4>1. CASE i \in At(d) /\ queue'[d][i] = queue[d][i]
        BY <2>2, <4>1 DEF OnItsWay
      <4>2. CASE d = txClient /\ queue'[d][i] = [op |-> op, by |-> by]
        BY <4>2 DEF Ends
      <4> QED BY <2>3, <4>1, <4>2
    <3> QED BY <3>1, <3>2 DEF OnItsWay
  <2>6. WillMeet'
    <3> SUFFICES ASSUME NEW d \in Clients, NEW i \in At(d)', queue'[d][i].op = "STATEMENT",
                        effect'[queue'[d][i].by] # "behind"
                 PROVE  /\ status[d] # "I"
                        /\ \A j \in At(d)' : j < i => queue'[d][j].op \notin Ends
      BY DEF WillMeet
    <3>1. CASE i \in At(d) /\ queue'[d][i] = queue[d][i]
      <4>1. queue[d][i].by \in Requests /\ queue[d][i].by # by
        <5>1. queue[d][i].by \in Requests /\ pc[queue[d][i].by] = "waiting"
          BY <1>1, <3>1 DEF SentInv
        <5> QED BY <1>3, <5>1
      <4>2. effect[queue[d][i].by] # "behind"
        BY <1>4, <3>1, <4>1
      <4>3. /\ status[d] # "I"
            /\ \A j \in At(d) : j < i => queue[d][j].op \notin Ends
        BY <2>2, <3>1, <4>2 DEF WillMeet
      <4>4. Len(queue[d]) \in Nat
        BY <1>1 DEF Queues
      <4>5. \A j \in At(d)' : j < i => j \in At(d) /\ queue'[d][j] = queue[d][j]
        BY <2>3, <3>1, <4>4 DEF At
      <4> QED BY <4>3, <4>5
    <3>2. CASE d = txClient /\ i = Len(queue[txClient]) + 1
               /\ queue'[d][i] = [op |-> op, by |-> by]
      <4>1. op = "STATEMENT" /\ by \in Requests
        BY <3>2 DEF Ends
      <4>2. ~EndQueued(txClient)
        BY <1>1, <3>2, <4>1 DEF SessionTyped
      <4>3. Len(queue[d]) \in Nat /\ DOMAIN queue[d] = At(d)
        BY <1>1 DEF Queues, At
      <4>4. \A j \in At(d) : queue[d][j].op \notin Ends
        BY <3>2, <4>2, <4>3 DEF EndQueued
      <4>5. \A j \in At(d)' : j < i => j \in At(d) /\ queue'[d][j] = queue[d][j]
        BY <2>3, <3>2, <4>3 DEF At
      <4> QED BY <2>2, <3>2, <4>4, <4>5 DEF Ours
    <3> QED BY <2>3, <3>1, <3>2
  <2>7. AnswersTrue'
    <3>1. \A q \in Requests : answer[q] # "none" => q # by
      BY <1>1, <1>3 DEF SentInv
    <3> QED BY <1>4, <2>1, <2>2, <3>1 DEF AnswersTrue
  <2> QED BY <2>1, <2>4, <2>5, <2>6, <2>7 DEF Calm
<1> QED BY <1>2, <1>5, <1>6, <1>7 DEF SessionInv

(* Nobody but the one answered had its effect changed, and nobody begins.   *)
OthersKeep(by) ==
  /\ \A q \in Requests : pc'[q] = "connecting" => pc[q] = "connecting"
  /\ \A q \in Requests : q # by => effect'[q] = effect[q]

(* An ending, whoever sent it, is answered: until a clash it was on the     *)
(* active client, or found the session over.                                *)
LEMMA EndingServed ==
  ASSUME PoolTyped, SessionTyped, SentInv, Calm, NoClientAssumption, SessionAssumption,
         NEW c \in Clients, NEW ok \in BOOLEAN,
         Serve(c, ok), Head(queue[c]).op \in Ends, Pop(c), EndSession,
         opener' = [opener EXCEPT ![c] = NoUser], OthersKeep(Head(queue[c]).by)
  PROVE  /\ txActive' = FALSE
         /\ Ours' /\ OnItsWay' /\ WillMeet' /\ OwnerOpened'
         /\ txClient # NoClient => c = txClient /\ status[c] # "I"
<1> DEFINE by == Head(queue[c]).by
<1>1. queue \in Queues /\ queue[c] # <<>>
  BY DEF PoolTyped, Serve
<1>2. 1 \in At(c) /\ Head(queue[c]) = queue[c][1]
  BY <1>1, PopEffect
<1>3. \A d \in Clients : \A i \in At(d)' :
        Before(c, d, i) \in At(d) /\ queue'[d][i] = queue[d][Before(c, d, i)]
  BY <1>1, PopEntries
<1>4. Ours /\ OnItsWay /\ WillMeet /\ ~Overlap
  BY DEF Calm
<1>5. txClient = NoClient \/ (c = txClient /\ txActive)
  BY <1>2, <1>4 DEF OnItsWay
<1>6. status' = [status EXCEPT ![c] = "I"]
  BY DEF Serve, StatusAfter, Ends
<1>7. txClient' = NoClient /\ txActive' = FALSE
  BY <1>4, <1>5 DEF EndSession, Ours, SessionTyped
<1>8. \A d \in Clients : status'[d] = "I"
  BY <1>4, <1>5, <1>6 DEF Ours, PoolTyped, NoClientAssumption
<1>9. Ours' /\ OwnerOpened'
  BY <1>7, <1>8 DEF Ours, OwnerOpened
<1>10. OnItsWay'
  <2>1. \A d \in Clients : \A i \in At(d) : queue[d][i].op # "BEGIN"
    BY <1>2, <1>4, BeginsAlone
  <2> QED BY <1>3, <1>7, <2>1 DEF OnItsWay
<1>11. WillMeet'
  <2> SUFFICES ASSUME NEW d \in Clients, NEW i \in At(d)', queue'[d][i].op = "STATEMENT",
                      effect'[queue'[d][i].by] # "behind"
               PROVE  FALSE
    BY DEF WillMeet
  <2> DEFINE b == Before(c, d, i)
  <2>1. b \in At(d) /\ queue'[d][i] = queue[d][b]
    BY <1>3
  <2>2. queue[d][b].by \in Requests
    BY <2>1 DEF SentInv
  <2>3. queue[d][b].by # by
    <3>1. by \in Requests => \A e \in Clients : \A k \in At(e)' : queue'[e][k].by # by
      BY <1>1, PopOnce DEF SentInv
    <3> QED BY <2>1, <2>2, <3>1
  <2>4. effect[queue[d][b].by] # "behind"
    BY <2>1, <2>2, <2>3 DEF OthersKeep
  <2>5. status[d] # "I" /\ \A j \in At(d) : j < b => queue[d][j].op \notin Ends
    BY <1>4, <2>1, <2>4 DEF WillMeet
  <2>6. d = c
    BY <1>4, <1>5, <2>5 DEF Ours, NoClientAssumption
  <2>7. 1 < b
    BY <2>6 DEF Before, At
  <2> QED BY <1>2, <2>5, <2>6, <2>7
<1>12. txClient # NoClient => c = txClient /\ status[c] # "I"
  BY <1>4, <1>5 DEF Ours
<1> QED BY <1>7, <1>9, <1>10, <1>11, <1>12

(* The end of a session keeps types, and never names a client put back.     *)
LEMMA EndSessionTyped ==
  ASSUME PoolTyped, SessionTyped, HeldClient, NEW c \in Clients, NEW ok \in BOOLEAN,
         Serve(c, ok), Pop(c), EndSession
  PROVE  /\ PoolTyped' /\ HeldClient'
         /\ txClient' \in Clients \cup {NoClient} /\ txActive' \in BOOLEAN
<1>1. queue' \in Queues
  BY PopEffect DEF PoolTyped, Serve
<1>2. status' \in [Clients -> {"I", "T", "E"}]
  BY DEF PoolTyped, Serve, StatusAfter
<1>3. out' \in [Clients -> BOOLEAN]
  BY DEF PoolTyped, EndSession, Release
<1>4. HeldClient' /\ txClient' \in Clients \cup {NoClient} /\ txActive' \in BOOLEAN
  BY DEF SessionTyped, HeldClient, EndSession
<1> QED BY <1>1, <1>2, <1>3, <1>4 DEF PoolTyped

LEMMA EndAnsweredStep ==
  ASSUME SessionInv, SessionAssumption, NoClientAssumption,
         NEW c \in Clients, NEW ok \in BOOLEAN, EndAnswered(c, ok)
  PROVE  SessionInv'
<1> DEFINE r  == Head(queue[c]).by
           op == Head(queue[c]).op
<1>1. /\ PoolTyped /\ SessionTyped /\ SentInv /\ HeldClient
      /\ clash \in BOOLEAN /\ (~clash => Calm)
  BY DEF SessionInv, SessionTyped
<1>2. /\ Serve(c, ok) /\ queue[c] # <<>> /\ op \in Ends /\ r \in Requests
      /\ Pop(c) /\ EndSession /\ Watch /\ UNCHANGED user
      /\ effect' = [effect EXCEPT ![r] = EndEffect(c, op, ok)]
      /\ opener' = [opener EXCEPT ![c] = NoUser]
  BY DEF EndAnswered, Serve
<1>3. PICK a \in Replies :
        /\ Answers(r, a) /\ owner' \in {owner, NoUser}
        /\ a # "in transaction"
        /\ a = "committed" => ok /\ txClient # NoClient /\ op = "COMMIT"
  <2>1. CASE ok /\ txClient # NoClient
    BY <2>1 DEF EndAnswered, Replies
  <2>2. CASE ~(ok /\ txClient # NoClient)
    BY <2>2 DEF EndAnswered, Replies, lease
  <2> QED BY <2>1, <2>2
<1>4. /\ pc' \in [Requests -> Labels] /\ answer' \in [Requests -> Replies]
      /\ pc'[r] = "answered" /\ answer'[r] = a
      /\ \A q \in Requests : q # r => pc'[q] = pc[q] /\ answer'[q] = answer[q]
  BY <1>1, <1>2, <1>3, Answering
<1> HIDE DEF r, op
<1>5. /\ effect' \in [Requests -> Effects]
      /\ effect'[r] = EndEffect(c, op, ok)
      /\ \A q \in Requests : q # r => effect'[q] = effect[q]
  <2>1. EndEffect(c, op, ok) \in Effects
    BY DEF EndEffect, Effects
  <2> QED BY <1>1, <1>2, <2>1 DEF SessionTyped
<1>6. /\ PoolTyped' /\ HeldClient'
      /\ txClient' \in Clients \cup {NoClient} /\ txActive' \in BOOLEAN
  BY <1>1, <1>2, EndSessionTyped
<1>7. SessionTyped'
  BY <1>1, <1>2, <1>3, <1>4, <1>5, <1>6 DEF SessionTyped, Watch
<1>8. SentInv'
  BY <1>1, <1>2, <1>3, SentAfterPop DEF r
<1>9. ASSUME ~clash' PROVE Calm'
  <2>1. ~clash /\ ~Overlap' /\ Calm
    BY <1>1, <1>2, <1>9 DEF Watch
  <2>2. OthersKeep(r)
    BY <1>4, <1>5 DEF OthersKeep
  <2>3. /\ Ours' /\ OnItsWay' /\ WillMeet' /\ OwnerOpened'
        /\ txClient # NoClient => c = txClient /\ status[c] # "I"
    BY <1>1, <1>2, <2>1, <2>2, EndingServed DEF r, op
  <2>4. a = "committed" => EndEffect(c, op, ok) \in {"saved", "aborted"}
    BY <1>3, <2>3 DEF EndEffect
  <2>5. AnswersTrue'
    BY <1>3, <1>4, <1>5, <2>1, <2>4 DEF AnswersTrue, Calm
  <2> QED BY <2>1, <2>3, <2>5 DEF Calm
<1> QED BY <1>6, <1>7, <1>8, <1>9 DEF SessionInv

LEMMA ExpiredStep ==
  ASSUME SessionInv, SessionAssumption, NoClientAssumption,
         NEW c \in Clients, NEW ok \in BOOLEAN, Expired(c, ok)
  PROVE  SessionInv'
<1>1. /\ PoolTyped /\ SessionTyped /\ SentInv /\ HeldClient
      /\ clash \in BOOLEAN /\ (~clash => Calm)
  BY DEF SessionInv, SessionTyped
<1>2. /\ Serve(c, ok) /\ queue[c] # <<>> /\ Head(queue[c]).by = Timer
      /\ Pop(c) /\ EndSession /\ Watch
      /\ UNCHANGED <<pc, user, answer, effect, owner>>
      /\ opener' = [opener EXCEPT ![c] = NoUser]
  BY DEF Expired, Serve, request, lease
<1>3. Head(queue[c]).op \in Ends
  <2>1. queue \in Queues
    BY <1>1 DEF PoolTyped
  <2>2. 1 \in At(c) /\ Head(queue[c]) = queue[c][1]
    BY <1>2, <2>1, PopEffect
  <2>3. queue[c][1] = [op |-> "ROLLBACK", by |-> Timer]
    BY <1>1, <1>2, <2>2, SessionAssumption DEF SentInv
  <2> QED BY <2>2, <2>3 DEF Ends
<1>4. /\ PoolTyped' /\ HeldClient'
      /\ txClient' \in Clients \cup {NoClient} /\ txActive' \in BOOLEAN
  BY <1>1, <1>2, EndSessionTyped
<1>5. SessionTyped'
  BY <1>1, <1>2, <1>4 DEF SessionTyped, Watch
<1>6. SentInv'
  BY <1>1, <1>2, SentAfterPop
<1>7. ASSUME ~clash' PROVE Calm'
  <2>1. ~clash /\ ~Overlap' /\ Calm
    BY <1>1, <1>2, <1>7 DEF Watch
  <2>2. OthersKeep(Timer)
    BY <1>2 DEF OthersKeep
  <2>3. Ours' /\ OnItsWay' /\ WillMeet' /\ OwnerOpened'
    BY <1>1, <1>2, <1>3, <2>1, <2>2, EndingServed
  <2>4. AnswersTrue'
    BY <1>2, <2>1 DEF AnswersTrue, Calm
  <2> QED BY <2>1, <2>3, <2>4 DEF Calm
<1> QED BY <1>4, <1>5, <1>6, <1>7 DEF SessionInv

LEMMA QueryAnsweredStep ==
  ASSUME SessionInv, SessionAssumption, NoClientAssumption,
         NEW c \in Clients, NEW ok \in BOOLEAN, QueryAnswered(c, ok)
  PROVE  SessionInv'
<1> DEFINE r == Head(queue[c]).by
           e == IF status[c] # "I" THEN "inside"
                ELSE IF effect[r] = "behind" THEN effect[r] ELSE "outside"
<1>1. /\ PoolTyped /\ SessionTyped /\ SentInv /\ HeldClient
      /\ clash \in BOOLEAN /\ (~clash => Calm) /\ queue \in Queues
  BY DEF SessionInv, SessionTyped, PoolTyped
<1>2. /\ Serve(c, ok) /\ queue[c] # <<>> /\ Head(queue[c]).op = "STATEMENT"
      /\ r \in Requests /\ Pop(c) /\ Watch
      /\ UNCHANGED <<out, txClient, txActive, owner, user, opener>>
      /\ effect' = [effect EXCEPT ![r] = e]
  BY <1>1 DEF QueryAnswered, Serve, session, SessionTyped
<1>3. PICK a \in Replies :
        /\ Answers(r, a) /\ a # "committed"
        /\ a = "in transaction" => ok
  BY DEF QueryAnswered, Replies
<1> HIDE DEF r, e
<1>4. /\ pc' \in [Requests -> Labels] /\ answer' \in [Requests -> Replies]
      /\ pc'[r] = "answered" /\ answer'[r] = a
      /\ \A q \in Requests : q # r => pc'[q] = pc[q] /\ answer'[q] = answer[q]
  BY <1>1, <1>2, <1>3, Answering
<1>5. /\ queue' \in Queues /\ 1 \in At(c) /\ Head(queue[c]) = queue[c][1]
  BY <1>1, <1>2, PopEffect
<1>6. /\ effect' \in [Requests -> Effects] /\ effect'[r] = e
      /\ \A q \in Requests : q # r => effect'[q] = effect[q]
  <2>1. e \in Effects
    BY <1>1, <1>2 DEF SessionTyped, Effects, e
  <2> QED BY <1>1, <1>2, <2>1 DEF SessionTyped
<1>7. /\ status' \in [Clients -> {"I", "T", "E"}]
      /\ \A d \in Clients : status'[d] = "I" <=> status[d] = "I"
  BY <1>1, <1>2 DEF Serve, StatusAfter, PoolTyped
<1>8. PoolTyped' /\ HeldClient'
  BY <1>1, <1>2, <1>5, <1>7 DEF PoolTyped, HeldClient
<1>9. SessionTyped'
  BY <1>1, <1>2, <1>4, <1>6 DEF SessionTyped, Watch
<1>10. SentInv'
  BY <1>1, <1>2, <1>3, SentAfterPop DEF r
<1>11. ASSUME ~clash' PROVE Calm'
  <2>1. ~clash /\ ~Overlap'
    BY <1>1, <1>2, <1>11 DEF Watch
  <2>2. Ours /\ OnItsWay /\ WillMeet /\ OwnerOpened /\ AnswersTrue
    BY <1>1, <2>1 DEF Calm
  <2>3. \A d \in Clients : \A i \in At(d)' :
          Before(c, d, i) \in At(d) /\ queue'[d][i] = queue[d][Before(c, d, i)]
    BY <1>1, <1>2, PopEntries
  <2>4. Ours' /\ OwnerOpened'
    BY <1>1, <1>2, <1>7, <2>2 DEF Ours, OwnerOpened, SessionTyped
  <2>5. OnItsWay'
    <3>1. \A q \in Requests : pc'[q] = "connecting" => ~txActive
      BY <1>4, <2>2 DEF OnItsWay
    <3> QED BY <1>2, <2>2, <2>3, <3>1 DEF OnItsWay
  <2>6. WillMeet'
    <3> SUFFICES ASSUME NEW d \in Clients, NEW i \in At(d)', queue'[d][i].op = "STATEMENT",
                        effect'[queue'[d][i].by] # "behind"
                 PROVE  /\ status'[d] # "I"
                        /\ \A j \in At(d)' : j < i => queue'[d][j].op \notin Ends
      BY DEF WillMeet
    <3> DEFINE b == Before(c, d, i)
    <3>1. b \in At(d) /\ queue'[d][i] = queue[d][b]
      BY <2>3
    <3>2. queue[d][b].by \in Requests
      BY <1>1, <3>1 DEF SentInv
    <3>3. queue[d][b].by # r
      BY <1>1, <1>2, <3>1, PopOnce DEF SentInv, r
    <3>4. effect[queue[d][b].by] # "behind"
      BY <1>6, <3>1, <3>2, <3>3
    <3>5. status[d] # "I" /\ \A j \in At(d) : j < b => queue[d][j].op \notin Ends
      BY <2>2, <3>1, <3>4 DEF WillMeet
    <3>6. \A j \in At(d)' : j < i => Before(c, d, j) < b
      BY DEF Before, At
    <3> QED BY <1>7, <2>3, <3>5, <3>6
  <2>7. AnswersTrue'
    <3>1. a = "in transaction" => e # "outside"
      BY <1>2, <1>3, <1>5, <2>2 DEF WillMeet, e, r
    <3> QED BY <1>3, <1>4, <1>6, <2>1, <2>2, <3>1 DEF AnswersTrue
  <2> QED BY <2>1, <2>4, <2>5, <2>6, <2>7 DEF Calm
<1> QED BY <1>8, <1>9, <1>10, <1>11 DEF SessionInv

-----------------------------------------------------------------------------
LEMMA SessionInit ==
  ASSUME Init, SessionAssumption, NoClientAssumption PROVE SessionInv
<1>1. PoolTyped
  BY DEF Init, PoolInit, PoolTyped, Queues
<1>2. SessionTyped
  BY DEF Init, SessionTyped, Labels, Replies, Effects
<1>3. \A c \in Clients : At(c) = {} /\ status[c] = "I"
  BY DEF Init, PoolInit, At
<1>4. SentInv /\ HeldClient
  BY <1>3 DEF Init, SentInv, Once, HeldClient
<1>5. ~Overlap
  BY DEF Init, PoolInit, Overlap, Beginning, Sent
<1>6. Ours /\ OnItsWay /\ WillMeet /\ OwnerOpened /\ AnswersTrue
  BY <1>3 DEF Init, Ours, OnItsWay, WillMeet, OwnerOpened, AnswersTrue
<1> QED BY <1>1, <1>2, <1>4, <1>5, <1>6 DEF SessionInv, Calm

LEMMA ArriveOwner ==
  ASSUME NEW r, NEW kind, Arrive(r, kind)
  PROVE  pc[r] = "idle" /\ owner' \in {owner, NoUser}
BY DEF Arrive, OwnerOnArrival, TransactionOwner

LEMMA SendEndStep ==
  ASSUME SessionInv, SessionAssumption, NEW r \in Requests, NEW kind,
         NEW op \in Ends, SendEnd(r, kind, op)
  PROVE  SessionInv'
<1>1. pc[r] = "idle" /\ owner' \in {owner, NoUser} /\ Watch
  BY ArriveOwner DEF SendEnd
<1>2. UNCHANGED <<out, status, txClient, txActive, user, opener, effect>>
  BY DEF SendEnd, ghost
<1>3. CASE txClient = NoClient \/ ~txActive
  <2>1. Answers(r, "error") /\ UNCHANGED pool
    BY <1>2, <1>3 DEF SendEnd, pool
  <2> QED BY <1>1, <1>2, <2>1, QuietStep
<1>4. CASE txClient # NoClient /\ txActive
  <2>1. Send(txClient, op, r) /\ Goto(r, "waiting") /\ UNCHANGED answer
    BY <1>4 DEF SendEnd
  <2>2. op # "STATEMENT"
    BY DEF Ends
  <2> QED BY <1>1, <1>2, <1>4, <2>1, <2>2, SendStep
<1> QED BY <1>3, <1>4 DEF SessionInv, SessionTyped

LEMMA QuerySendStep ==
  ASSUME SessionInv, SessionAssumption, NEW r \in Requests, QueryInTransaction(r)
  PROVE  SessionInv'
<1>1. pc[r] = "idle" /\ owner' \in {owner, NoUser} /\ Watch
  BY ArriveOwner DEF QueryInTransaction
<1>2. UNCHANGED <<out, status, txClient, txActive, user, opener>>
  BY DEF QueryInTransaction, session
<1>3. CASE txClient = NoClient \/ ~txActive
  <2>1. Answers(r, "error") /\ UNCHANGED <<pool, effect>>
    BY <1>2, <1>3 DEF QueryInTransaction, pool
  <2> QED BY <1>1, <1>2, <2>1, QuietStep
<1>4. CASE txClient # NoClient /\ txActive
  <2>1. /\ Send(txClient, "STATEMENT", r) /\ Goto(r, "waiting") /\ UNCHANGED answer
        /\ effect' = [effect EXCEPT ![r] = IF EndQueued(txClient) THEN "behind" ELSE @]
    BY <1>4 DEF QueryInTransaction
  <2> QED BY <1>1, <1>2, <1>4, <2>1, SendStep
<1> QED BY <1>3, <1>4 DEF SessionInv, SessionTyped

(* Nothing but timers and clocks moves. *)
LEMMA IdleStep ==
  ASSUME SessionInv, UNCHANGED <<pool, txClient, txActive, owner, request, ghost>>,
         Watch \/ UNCHANGED clash
  PROVE  SessionInv'
<1>1. UNCHANGED <<out, status, queue, txClient, txActive, owner, pc, user, answer, opener, effect>>
  BY DEF pool, request, ghost
<1>2. clash \in BOOLEAN /\ clash' \in BOOLEAN /\ (~clash' => ~clash)
  BY DEF SessionInv, SessionTyped, Watch
<1>3. PoolTyped' /\ SessionTyped' /\ HeldClient'
  BY <1>1, <1>2 DEF SessionInv, PoolTyped, SessionTyped, HeldClient
<1>4. SentInv'
  BY <1>1 DEF SessionInv, SentInv, Once, At
<1>5. Overlap' = Overlap
  BY <1>1 DEF Overlap, Beginning, Ending, Sent
<1>6. ASSUME ~clash' PROVE Calm'
  <2>1. ~clash /\ ~Overlap /\ Ours /\ OnItsWay /\ WillMeet /\ OwnerOpened /\ AnswersTrue
    BY <1>2, <1>6 DEF SessionInv, Calm
  <2>2. Ours' /\ WillMeet' /\ OwnerOpened'
    BY <1>1, <2>1 DEF Ours, WillMeet, OwnerOpened, At
  <2>4. AnswersTrue'
    BY <1>1, <2>1 DEF AnswersTrue
  <2>3. OnItsWay'
    BY <1>1, <2>1 DEF OnItsWay, At
  <2> QED BY <1>5, <2>1, <2>2, <2>3, <2>4 DEF Calm
<1> QED BY <1>3, <1>4, <1>6 DEF SessionInv

LEMMA ExpireStep ==
  ASSUME SessionInv, SessionAssumption, ExpireTransaction PROVE SessionInv'
<1>1. /\ UNCHANGED <<out, status, txClient, txActive, owner, pc, user, answer, opener, effect>>
      /\ Watch
  BY DEF ExpireTransaction, lease, request, ghost
<1>2. CASE txActive /\ txClient # NoClient
  <2>1. Send(txClient, "ROLLBACK", Timer)
    BY <1>2 DEF ExpireTransaction
  <2> QED BY <1>1, <1>2, <2>1, SendStep DEF Ends
<1>3. CASE ~(txActive /\ txClient # NoClient)
  <2>1. UNCHANGED <<pool, request, ghost>>
    BY <1>1, <1>3 DEF ExpireTransaction, pool, request, ghost
  <2> QED BY <1>1, <2>1, IdleStep
<1> QED BY <1>2, <1>3

LEMMA RequestStepKeeps ==
  ASSUME SessionInv, SessionAssumption, NoClientAssumption, NEW r \in Requests, RequestStep(r)
  PROVE  SessionInv'
<1>1. CASE Busy(r)
  <2>1. UNCHANGED <<pool, txClient, txActive, opener, effect, user>> /\ Answers(r, "busy") /\ Watch
    BY <1>1 DEF Busy, session, ghost
  <2>2. pc[r] = "idle" /\ owner' \in {owner, NoUser}
    BY <1>1, ArriveOwner DEF Busy
  <2> QED BY <2>1, <2>2, QuietStep
<1>2. CASE Status(r)
  <2>1. UNCHANGED <<pool, txClient, txActive, opener, effect, user>> /\ Answers(r, "status") /\ Watch
    BY <1>2 DEF Status, session, ghost
  <2>2. pc[r] = "idle" /\ owner' \in {owner, NoUser}
    BY <1>2, ArriveOwner DEF Status
  <2> QED BY <2>1, <2>2, QuietStep
<1>3. CASE Begin(r)
  <2>1. UNCHANGED <<pool, txClient, txActive, opener, effect, user>> /\ Watch
    BY <1>3 DEF Begin, session, ghost
  <2>2. pc[r] = "idle" /\ owner' \in {owner, NoUser}
    BY <1>3, ArriveOwner DEF Begin
  <2>3. \/ Goto(r, "connecting") /\ ~txActive /\ UNCHANGED answer
        \/ Answers(r, "error")
    BY <1>3 DEF Begin
  <2> QED BY <2>1, <2>2, <2>3, QuietStep
<1>4. CASE Connected(r)
  <2>1. /\ pc[r] = "connecting" /\ Watch
        /\ UNCHANGED <<txActive, owner, user, opener, effect>>
    BY <1>4 DEF Connected, lease, ghost
  <2>2. CASE \E c \in Clients :
               /\ Idle(c) /\ Checkout(c) /\ txClient' = c /\ Send(c, "BEGIN", r)
               /\ Goto(r, "waiting") /\ UNCHANGED <<answer, status>>
    BY <2>1, <2>2, ConnectedStep
  <2>3. CASE Answers(r, "error") /\ UNCHANGED <<pool, txClient>>
    BY <2>1, <2>3, QuietStep
  <2> QED BY <1>4, <2>2, <2>3 DEF Connected
<1>5. CASE CommitTransaction(r)
  BY <1>5, SendEndStep DEF CommitTransaction, Ends
<1>6. CASE RollbackTransaction(r)
  BY <1>6, SendEndStep DEF RollbackTransaction, Ends
<1>7. CASE QueryInTransaction(r)
  BY <1>7, QuerySendStep
<1> QED BY <1>1, <1>2, <1>3, <1>4, <1>5, <1>6, <1>7 DEF RequestStep

LEMMA SessionNext ==
  ASSUME SessionInv, SessionAssumption, NoClientAssumption, [Next]_vars
  PROVE  SessionInv'
<1>1. CASE \E r \in Requests : RequestStep(r)
  BY <1>1, RequestStepKeeps
<1>2. CASE \E c \in Clients : Respond(c)
  <2>1. PICK c \in Clients, ok \in BOOLEAN :
          \/ BeginAnswered(c, ok) \/ EndAnswered(c, ok)
          \/ Expired(c, ok) \/ QueryAnswered(c, ok)
    BY <1>2 DEF Respond
  <2> QED BY <2>1, BeginAnsweredStep, EndAnsweredStep, ExpiredStep, QueryAnsweredStep
<1>3. CASE ExpireTransaction
  BY <1>3, ExpireStep
<1>4. CASE LeaseLapses
  <2>1. UNCHANGED <<pool, txClient, txActive, owner, request, ghost>> /\ Watch
    BY <1>4 DEF LeaseLapses, session
  <2> QED BY <2>1, IdleStep
<1>5. CASE UNCHANGED vars
  <2>1. UNCHANGED <<pool, txClient, txActive, owner, request, ghost, clash>>
    BY <1>5 DEF vars, session, lease
  <2> QED BY <2>1, IdleStep
<1> QED BY <1>1, <1>2, <1>3, <1>4, <1>5 DEF Next

LEMMA SessionAlways == Spec => []SessionInv
<1>1. Init => SessionInv
  BY SessionInit, SessionAssumption, NoClientAssumption
<1>2. SessionInv /\ [Next]_vars => SessionInv'
  BY SessionNext, SessionAssumption, NoClientAssumption
<1> QED BY <1>1, <1>2, PTL DEF Spec

-----------------------------------------------------------------------------
(* The auto-rollback is armed *)

(* Until a clash, the active transaction has its timer, or an ending of it  *)
(* is on its way.                                                           *)
Timed == ~clash /\ txActive => txTimeout \/ EndQueued(txClient)

LEMMA EndQueuedSends ==
  ASSUME PoolTyped, NEW c \in Clients, NEW op \in Ops, NEW by \in Senders, Send(c, op, by),
         EndQueued(c) \/ op \in Ends
  PROVE  EndQueued(c)'
<1>1. /\ queue \in Queues /\ queue' \in Queues /\ Len(queue[c]) \in Nat
      /\ Len(queue'[c]) = Len(queue[c]) + 1
      /\ queue'[c][Len(queue[c]) + 1] = [op |-> op, by |-> by]
  BY SendEffect DEF PoolTyped, Queues
<1>2. DOMAIN queue[c] = At(c) /\ DOMAIN queue'[c] = At(c)'
  BY <1>1 DEF Queues, At
<1>3. CASE EndQueued(c)
  <2>1. PICK i \in At(c) : queue[c][i].op \in Ends
    BY <1>2, <1>3 DEF EndQueued
  <2>2. i \in At(c)' /\ queue'[c][i] = queue[c][i]
    BY <1>1, SendStays
  <2> QED BY <1>2, <2>1, <2>2 DEF EndQueued
<1>4. CASE op \in Ends
  <2>1. Len(queue[c]) + 1 \in At(c)'
    BY <1>1 DEF At
  <2>2. queue'[c][Len(queue[c]) + 1].op \in Ends
    BY <1>1, <1>4
  <2> QED BY <1>2, <2>1, <2>2 DEF EndQueued
<1> QED BY <1>3, <1>4

LEMMA EndQueuedWaits ==
  ASSUME PoolTyped, SentInv, NEW c \in Clients, EndQueued(c),
         NEW d \in Clients, queue[d] # <<>>, Head(queue[d]).op \notin Ends,
         Head(queue[d]).by \in Requests, Pop(d)
  PROVE  EndQueued(c)'
<1>1. queue \in Queues /\ queue' \in Queues /\ 1 \in At(d) /\ Head(queue[d]) = queue[d][1]
  BY PopEffect DEF PoolTyped
<1>2. DOMAIN queue[c] = At(c) /\ DOMAIN queue'[c] = At(c)'
  BY <1>1 DEF Queues, At
<1>3. PICK i \in At(c) : queue[c][i].op \in Ends
  BY <1>2 DEF EndQueued
<1>4. queue[c][i].by # Head(queue[d]).by
  BY <1>1, <1>3 DEF SentInv, Once
<1>5. PICK k \in At(c)' : queue'[c][k] = queue[c][i]
  BY <1>1, <1>4, PopStays
<1> QED BY <1>2, <1>3, <1>5 DEF EndQueued

LEMMA TimedStep ==
  ASSUME SessionInv, Timed, SessionAssumption, NoClientAssumption, [Next]_vars
  PROVE  Timed'
<1> SUFFICES ASSUME ~clash', txActive' PROVE txTimeout' \/ EndQueued(txClient)'
  BY DEF Timed
<1>1. ~clash
  BY DEF Next, RequestStep, Respond, Busy, Status, Begin, Connected, CommitTransaction,
         RollbackTransaction, SendEnd, QueryInTransaction, BeginAnswered, EndAnswered, Expired,
         QueryAnswered, ExpireTransaction, LeaseLapses, Watch, vars
<1>2. /\ PoolTyped /\ queue \in Queues /\ SentInv /\ Ours /\ OnItsWay
      /\ txClient \in Clients \cup {NoClient} /\ pc \in [Requests -> Labels]
  BY <1>1 DEF SessionInv, SessionTyped, PoolTyped, Calm
<1>3. txActive => txClient \in Clients /\ (txTimeout \/ EndQueued(txClient))
  BY <1>1, <1>2 DEF Timed, Ours
<1>4. Ops \cap Ends = Ends /\ Requests \cup {Timer} \subseteq Senders
  BY SessionAssumption DEF Ops, Ends
<1>5. ASSUME UNCHANGED <<queue, txClient, txActive, txTimeout>>
      PROVE  txTimeout' \/ EndQueued(txClient)'
  BY <1>3, <1>5 DEF EndQueued
<1>6. ASSUME NEW r \in Requests, NEW kind, NEW op \in Ends, SendEnd(r, kind, op)
      PROVE  txTimeout' \/ EndQueued(txClient)'
  <2>1. txActive /\ UNCHANGED txClient
    BY <1>6 DEF SendEnd
  <2>2. txClient \in Clients /\ txClient # NoClient
    BY <1>3, <2>1, NoClientAssumption
  <2>3. Send(txClient, op, r)
    BY <1>6, <2>1, <2>2 DEF SendEnd
  <2>4. EndQueued(txClient)'
    <3>1. PICK c \in Clients : c = txClient
      BY <2>2
    <3>2. EndQueued(c)'
      BY <1>2, <1>4, <1>6, <2>3, <3>1, EndQueuedSends
    <3> QED BY <2>1, <3>1, <3>2
  <2> QED BY <2>4
<1>7. CASE \E r \in Requests : RequestStep(r)
  <2>1. PICK r \in Requests : RequestStep(r)
    BY <1>7
  <2>2. CASE Busy(r) \/ Status(r) \/ Begin(r)
    BY <1>5, <2>2 DEF Busy, Status, Begin, pool, session
  <2>3. CASE Connected(r)
    <3>1. pc[r] = "connecting" /\ txActive
      BY <2>3 DEF Connected
    <3> QED BY <1>2, <3>1 DEF OnItsWay
  <2>4. CASE CommitTransaction(r) \/ RollbackTransaction(r)
    BY <1>6, <2>4 DEF CommitTransaction, RollbackTransaction, Ends
  <2>5. CASE QueryInTransaction(r)
    <3>1. UNCHANGED <<txClient, txActive, txTimeout>>
      BY <2>5 DEF QueryInTransaction, session
    <3>2. txClient \in Clients /\ txClient # NoClient
      BY <1>3, <3>1, NoClientAssumption
    <3>3. Send(txClient, "STATEMENT", r)
      BY <2>5, <3>1, <3>2 DEF QueryInTransaction
    <3>4. EndQueued(txClient) => EndQueued(txClient)'
      <4>1. PICK c \in Clients : c = txClient
        BY <3>2
      <4>2. EndQueued(c) => EndQueued(c)'
        BY <1>2, <1>4, <3>3, <4>1, EndQueuedSends DEF Ops
      <4> QED BY <3>1, <4>1, <4>2
    <3> QED BY <1>3, <3>1, <3>4
  <2> QED BY <2>1, <2>2, <2>3, <2>4, <2>5 DEF RequestStep
<1>8. ASSUME NEW c \in Clients, NEW ok \in BOOLEAN,
             BeginAnswered(c, ok) \/ EndAnswered(c, ok) \/ Expired(c, ok) \/ QueryAnswered(c, ok)
      PROVE  txTimeout' \/ EndQueued(txClient)'
  <2>1. queue[c] # <<>> /\ Pop(c)
    BY <1>8 DEF BeginAnswered, EndAnswered, Expired, QueryAnswered, Serve
  <2>2. CASE BeginAnswered(c, ok)
    <3>1. 1 \in At(c) /\ queue[c][1].op = "BEGIN"
      BY <1>2, <2>1, <2>2, PopEffect DEF BeginAnswered
    <3>2. ~txActive
      BY <1>2, <3>1 DEF OnItsWay
    <3> QED BY <2>2, <3>2 DEF BeginAnswered, ArmTimer
  <2>3. CASE EndAnswered(c, ok) \/ Expired(c, ok)
    <3>1. EndSession
      BY <2>3 DEF EndAnswered, Expired
    <3> QED BY <1>3, <3>1, NoClientAssumption DEF EndSession
  <2>4. CASE QueryAnswered(c, ok)
    <3>1. /\ UNCHANGED <<txClient, txActive, txTimeout>>
          /\ Head(queue[c]).op \notin Ends /\ Head(queue[c]).by \in Requests
      BY <2>4 DEF QueryAnswered, session, Ends
    <3>2. EndQueued(txClient) => EndQueued(txClient)'
      <4>1. PICK d \in Clients : d = txClient
        BY <1>3, <3>1
      <4>2. EndQueued(d) => EndQueued(d)'
        BY <1>2, <2>1, <3>1, EndQueuedWaits
      <4> QED BY <3>1, <4>1, <4>2
    <3> QED BY <1>3, <3>1, <3>2
  <2> QED BY <1>8, <2>2, <2>3, <2>4
<1>9. CASE ExpireTransaction
  <2>1. txActive /\ UNCHANGED txClient
    BY <1>9 DEF ExpireTransaction
  <2>2. txClient \in Clients /\ txClient # NoClient
    BY <1>3, <2>1, NoClientAssumption
  <2>3. Send(txClient, "ROLLBACK", Timer)
    BY <1>9, <2>1, <2>2 DEF ExpireTransaction
  <2>4. PICK c \in Clients : c = txClient
    BY <2>2
  <2>5. EndQueued(c)'
    BY <1>2, <1>4, <2>3, <2>4, EndQueuedSends DEF Ends, Ops
  <2> QED BY <2>1, <2>4, <2>5
<1>10. CASE LeaseLapses \/ UNCHANGED vars
  BY <1>5, <1>10 DEF LeaseLapses, vars, pool, session
<1> QED BY <1>7, <1>8, <1>9, <1>10 DEF Next, Respond

(* The client the session names is its own, and until a clash every open    *)
(* transaction is the session's with its auto-rollback armed, or an ending  *)
(* of it is on its way (beginTransaction, endings, expireTransaction).      *)
THEOREM SessionStaysIntact == Spec => []SessionIntact
<1>1. Init => SessionInv /\ Timed
  BY SessionInit, SessionAssumption, NoClientAssumption DEF Init, Timed
<1>2. SessionInv /\ Timed /\ [Next]_vars => SessionInv' /\ Timed'
  BY SessionNext, TimedStep, SessionAssumption, NoClientAssumption
<1>3. SessionInv /\ Timed => SessionIntact
  BY DEF SessionInv, SessionIntact, HeldClient, Calm, Ours, Timed
<1> QED BY <1>1, <1>2, <1>3, PTL DEF Spec

(* "committed" and "in transaction" are said of what happened (the answers  *)
(* of POST /api/db/transaction).                                            *)
THEOREM AnswersAreTrue == Spec => []AnswersTrue
<1>1. SessionInv => AnswersTrue
  BY DEF SessionInv, Calm, AnswersTrue
<1> QED BY <1>1, SessionAlways, PTL

(* Nobody reaches the transaction of an owner whose lease is live (the 409  *)
(* of the route).                                                           *)
THEOREM NobodyElseSends == Spec => NoForeignSend
<1> DEFINE Own == \A r \in Requests :
       pc[r] = "idle" /\ pc'[r] = "waiting" /\ ~clash' /\ owner # NoUser /\ ~lapsed
         => opener[txClient] = user[r]
<1>1. ASSUME SessionInv, [Next]_vars PROVE [Own]_vars
  <2> SUFFICES ASSUME Next, NEW r \in Requests, pc[r] = "idle", pc'[r] = "waiting",
                      ~clash', owner # NoUser, ~lapsed
               PROVE  opener[txClient] = user[r]
    BY <1>1
  <2>1. /\ SessionTyped /\ (~clash => OwnerOpened)
        /\ "answered" \in Labels /\ "connecting" \in Labels
    BY <1>1 DEF SessionInv, Calm, Labels
  <2>2. ASSUME NEW q \in Requests, RequestStep(q)
        PROVE  r = q /\ \/ \E kind \in {"commit", "rollback"}, op \in Ends : SendEnd(r, kind, op)
                        \/ QueryInTransaction(r)
    <3>1. ~ \E a \in Replies : Answers(q, a)
      BY <2>1, Answering
    <3>2. ~Busy(q) /\ ~Status(q) /\ ~Begin(q)
      <4>1. ~Goto(q, "connecting")
        BY <2>1, Going
      <4>2. ~Answers(q, "busy") /\ ~Answers(q, "status") /\ ~Answers(q, "error")
        BY <3>1 DEF Replies
      <4> QED BY <4>1, <4>2 DEF Busy, Status, Begin
    <3>3. ~Connected(q)
      <4>1. ~Answers(q, "error")
        BY <3>1 DEF Replies
      <4>2. pc[q] = "connecting" => ~Goto(q, "waiting")
        BY <2>1, Going DEF Labels
      <4> QED BY <4>1, <4>2 DEF Connected
    <3>4. \/ \E kind \in {"commit", "rollback"}, op \in Ends : SendEnd(q, kind, op)
          \/ QueryInTransaction(q)
      BY <2>2, <3>2, <3>3 DEF RequestStep, CommitTransaction, RollbackTransaction, Ends
    <3>5. Goto(q, "waiting")
      <4>1. ~Answers(q, "error")
        BY <3>1 DEF Replies
      <4> QED BY <3>4, <4>1 DEF SendEnd, QueryInTransaction
    <3>6. r = q
      BY <2>1, <3>5, Going DEF Labels
    <3> QED BY <3>4, <3>6
  <2>3. ASSUME NEW c \in Clients, NEW ok \in BOOLEAN,
               \/ BeginAnswered(c, ok) \/ EndAnswered(c, ok)
               \/ Expired(c, ok) \/ QueryAnswered(c, ok)
        PROVE  FALSE
    <3>1. CASE Expired(c, ok)
      BY <3>1 DEF Expired, request
    <3>2. CASE BeginAnswered(c, ok) \/ EndAnswered(c, ok) \/ QueryAnswered(c, ok)
      <4>1. Head(queue[c]).by \in Requests /\ \E a \in Replies : Answers(Head(queue[c]).by, a)
        BY <3>2 DEF BeginAnswered, EndAnswered, QueryAnswered, Replies
      <4> QED BY <2>1, <4>1, Answering
    <3> QED BY <2>3, <3>1, <3>2
  <2>4. ~ExpireTransaction /\ ~LeaseLapses
    BY DEF ExpireTransaction, LeaseLapses, request
  <2>5. \/ \E kind \in {"commit", "rollback"}, op \in Ends : SendEnd(r, kind, op)
        \/ QueryInTransaction(r)
    BY <2>2, <2>3, <2>4 DEF Next, Respond
  <2>6. ~clash
    BY <2>1, <2>5 DEF SendEnd, QueryInTransaction, Watch, SessionTyped
  <2>7. txActive /\ OwnerOnArrival \in {NoUser, user[r]}
    <3>1. ~Answers(r, "error")
      BY <2>1, Answering DEF Replies
    <3> QED BY <2>5, <3>1 DEF SendEnd, QueryInTransaction, Refused
  <2>8. owner = user[r]
    BY <2>7 DEF OwnerOnArrival, TransactionOwner
  <2>9. opener[txClient] = owner
    BY <2>1, <2>6, <2>7 DEF OwnerOpened
  <2> QED BY <2>8, <2>9
<1> QED BY <1>1, SessionAlways, PTL DEF Spec, NoForeignSend

-----------------------------------------------------------------------------
(* One transaction at a time: the session implements OneTransaction *)

(* Until a clash there is at most one auto-rollback: no timer is lost       *)
(* track of, at most one has fired, and one that is armed belongs to an     *)
(* active transaction nobody is ending.                                     *)
OneTimer ==
  ~clash => /\ strays = 0 /\ Once({Timer})
            /\ txTimeout => txActive /\ \A c \in Clients : \A i \in At(c) : queue[c][i].op \notin Ends

(* A query sent behind an ending: one is still before it, or the client is  *)
(* in no transaction and will be in none when the query runs.               *)
RunsOutside ==
  ~clash => \A c \in Clients : \A i \in At(c) :
    queue[c][i].op = "STATEMENT" /\ effect[queue[c][i].by] = "behind" =>
      \/ \E j \in At(c) : j < i /\ queue[c][j].op \in Ends
      \/ status[c] = "I" /\ \A j \in At(c) : j < i => queue[c][j].op # "BEGIN"

Early == {"idle", "connecting"}
Undone(op) == IF op = "STATEMENT" THEN {"none", "behind"} ELSE {"none"}

(* The server has done nothing for a request whose statement is on its way. *)
NotYet ==
  /\ \A r \in Requests : pc[r] \in Early => effect[r] = "none"
  /\ \A c \in Clients : \A i \in At(c) :
       queue[c][i].by \in Requests => effect[queue[c][i].by] \in Undone(queue[c][i].op)

(* There is no way back from a clash. *)
LEMMA StaysCalm == ASSUME [Next]_vars, ~clash' PROVE ~clash
BY DEF Next, RequestStep, Respond, Busy, Status, Begin, Connected, CommitTransaction,
       RollbackTransaction, SendEnd, QueryInTransaction, BeginAnswered, EndAnswered, Expired,
       QueryAnswered, ExpireTransaction, LeaseLapses, Watch, vars

(* Which requests may still be early after a step. *)
OnlyForward == \A q \in Requests : pc'[q] \in Early => pc[q] \in Early

LEMMA NotYetQuiet ==
  ASSUME NotYet, UNCHANGED <<queue, effect>>, OnlyForward PROVE NotYet'
BY DEF NotYet, At, OnlyForward

LEMMA NotYetSend ==
  ASSUME SessionInv, SessionAssumption, NotYet, OnlyForward,
         NEW c \in Clients, NEW op \in Ops, NEW by \in Requests \cup {Timer}, Send(c, op, by),
         \A q \in Requests : q # by => effect'[q] = effect[q],
         by \in Requests => /\ pc[by] \in Early /\ pc'[by] \notin Early
                            /\ effect'[by] \in Undone(op)
  PROVE  NotYet'
<1>1. queue \in Queues /\ by \in Senders /\ SentInv
  BY SessionAssumption DEF SessionInv, PoolTyped
<1>2. by \in Requests => Silent(by)
  BY <1>1, NotWaiting, SessionAssumption DEF Early
<1>3. \A r \in Requests : pc'[r] \in Early => effect'[r] = "none"
  BY DEF NotYet, OnlyForward
<1>4. ASSUME NEW d \in Clients, NEW i \in At(d)', queue'[d][i].by \in Requests
      PROVE  effect'[queue'[d][i].by] \in Undone(queue'[d][i].op)
  <2>1. \/ i \in At(d) /\ queue'[d][i] = queue[d][i]
        \/ queue'[d][i] = [op |-> op, by |-> by]
    BY <1>1, SendEntries
  <2>2. CASE i \in At(d) /\ queue'[d][i] = queue[d][i]
    <3>1. queue[d][i].by # by
      BY <1>2, <1>4, <2>2 DEF Silent
    <3>2. effect[queue[d][i].by] \in Undone(queue[d][i].op)
      BY <1>4, <2>2 DEF NotYet
    <3> QED BY <1>4, <2>2, <3>1, <3>2
  <2>3. CASE queue'[d][i] = [op |-> op, by |-> by]
    BY <1>4, <2>3
  <2> QED BY <2>1, <2>2, <2>3
<1> QED BY <1>3, <1>4 DEF NotYet

LEMMA NotYetPop ==
  ASSUME SessionInv, NotYet, OnlyForward, NEW c \in Clients, queue[c] # <<>>, Pop(c),
         \A q \in Requests : q # Head(queue[c]).by => effect'[q] = effect[q],
         pc'[Head(queue[c]).by] \notin Early \/ Head(queue[c]).by \notin Requests
  PROVE  NotYet'
<1>1. queue \in Queues /\ Once(Requests)
  BY DEF SessionInv, PoolTyped, SentInv
<1>2. \A r \in Requests : pc'[r] \in Early => effect'[r] = "none"
  BY DEF NotYet, OnlyForward
<1>3. ASSUME NEW d \in Clients, NEW k \in At(d)', queue'[d][k].by \in Requests
      PROVE  effect'[queue'[d][k].by] \in Undone(queue'[d][k].op)
  <2>1. Before(c, d, k) \in At(d) /\ queue'[d][k] = queue[d][Before(c, d, k)]
    BY <1>1, PopEntries
  <2>2. queue'[d][k].by # Head(queue[c]).by
    BY <1>1, <1>3, PopOnce
  <2>3. effect[queue'[d][k].by] \in Undone(queue'[d][k].op)
    BY <1>3, <2>1 DEF NotYet
  <2> QED BY <1>3, <2>2, <2>3
<1> QED BY <1>2, <1>3 DEF NotYet

(* A request that goes on to a label that is not early. *)
LEMMA GoesForward ==
  ASSUME SessionTyped, NEW r \in Requests, NEW l \in Labels, Goto(r, l), l \notin Early \/ pc[r] \in Early
  PROVE  OnlyForward
BY Going DEF OnlyForward, Early

(* Nothing is done for a request before it is served. *)
LEMMA NotYetStep ==
  ASSUME SessionInv, SessionAssumption, NotYet, [Next]_vars PROVE NotYet'
<1>1. SessionTyped /\ SentInv /\ Requests \cap {Timer} = {} /\ txClient \in Clients \cup {NoClient}
  BY SessionAssumption DEF SessionInv, SessionTyped
<1>2. "answered" \in Labels \ Early /\ "waiting" \in Labels \ Early /\ "connecting" \in Labels
      /\ "idle" \in Early /\ "connecting" \in Early
      /\ "BEGIN" \in Ops /\ "STATEMENT" \in Ops /\ Ends \subseteq Ops
  BY DEF Labels, Early, Ops, Ends
<1>3. ASSUME NEW r \in Requests, NEW a, Answers(r, a)
      PROVE  OnlyForward /\ pc'[r] \notin Early
  BY <1>1, <1>2, <1>3, GoesForward, Going DEF Answers
<1>4. ASSUME NEW r \in Requests, RequestStep(r) PROVE NotYet'
  <2>1. CASE Busy(r) \/ Status(r)
    BY <1>3, <2>1, NotYetQuiet DEF Busy, Status, pool, ghost
  <2>2. CASE Begin(r)
    <3>1. pc[r] \in Early /\ UNCHANGED <<queue, effect>>
      BY <2>2 DEF Begin, Arrive, pool, ghost, Early
    <3>2. OnlyForward
      BY <1>1, <1>2, <1>3, <2>2, <3>1, GoesForward DEF Begin
    <3> QED BY <3>1, <3>2, NotYetQuiet
  <2>3. CASE Connected(r)
    <3>1. pc[r] \in Early /\ UNCHANGED effect
      BY <2>3 DEF Connected, ghost, Early
    <3>2. CASE Answers(r, "error") /\ UNCHANGED pool
      BY <1>3, <3>1, <3>2, NotYetQuiet DEF pool
    <3>3. ASSUME NEW c \in Clients, Send(c, "BEGIN", r), Goto(r, "waiting") PROVE NotYet'
      <4>1. OnlyForward /\ pc'[r] \notin Early
        BY <1>1, <1>2, <3>3, GoesForward, Going
      <4>2. effect'[r] \in Undone("BEGIN")
        BY <3>1 DEF NotYet, Undone
      <4> QED BY <1>2, <3>1, <3>3, <4>1, <4>2, NotYetSend
    <3> QED BY <2>3, <3>2, <3>3 DEF Connected
  <2>4. ASSUME NEW kind, NEW op \in Ends, SendEnd(r, kind, op) PROVE NotYet'
    <3>1. pc[r] \in Early /\ UNCHANGED effect
      BY <2>4 DEF SendEnd, Arrive, ghost, Early
    <3>2. CASE Answers(r, "error") /\ UNCHANGED queue
      BY <1>3, <3>1, <3>2, NotYetQuiet
    <3>3. CASE txClient # NoClient /\ Send(txClient, op, r) /\ Goto(r, "waiting")
      <4>1. OnlyForward /\ pc'[r] \notin Early
        BY <1>1, <1>2, <3>3, GoesForward, Going
      <4>2. effect'[r] \in Undone(op)
        BY <3>1 DEF NotYet, Undone
      <4> QED BY <1>1, <1>2, <3>1, <3>3, <4>1, <4>2, NotYetSend
    <3> QED BY <2>4, <3>2, <3>3 DEF SendEnd
  <2>5. CASE QueryInTransaction(r)
    <3>1. pc[r] \in Early
      BY <2>5 DEF QueryInTransaction, Arrive, Early
    <3>2. CASE Answers(r, "error") /\ UNCHANGED <<queue, effect>>
      BY <1>3, <3>1, <3>2, NotYetQuiet
    <3>3. CASE /\ txClient # NoClient /\ Send(txClient, "STATEMENT", r) /\ Goto(r, "waiting")
               /\ effect' = [effect EXCEPT ![r] = IF EndQueued(txClient) THEN "behind" ELSE @]
      <4>1. OnlyForward /\ pc'[r] \notin Early
        BY <1>1, <1>2, <3>3, GoesForward, Going
      <4>2. /\ effect'[r] \in Undone("STATEMENT")
            /\ \A q \in Requests : q # r => effect'[q] = effect[q]
        BY <1>1, <3>1, <3>3 DEF NotYet, Undone, SessionTyped
      <4> QED BY <1>1, <1>2, <3>1, <3>3, <4>1, <4>2, NotYetSend
    <3> QED BY <2>5, <3>2, <3>3 DEF QueryInTransaction
  <2> QED BY <1>4, <2>1, <2>2, <2>3, <2>4, <2>5
          DEF RequestStep, CommitTransaction, RollbackTransaction, Ends
<1>5. ASSUME NEW c \in Clients, NEW ok \in BOOLEAN,
             BeginAnswered(c, ok) \/ EndAnswered(c, ok) \/ Expired(c, ok) \/ QueryAnswered(c, ok)
      PROVE  NotYet'
  <2> DEFINE by == Head(queue[c]).by
  <2>1. queue[c] # <<>> /\ Pop(c)
    BY <1>5 DEF BeginAnswered, EndAnswered, Expired, QueryAnswered, Serve
  <2>2. /\ \A q \in Requests : q # by => effect'[q] = effect[q]
        /\ \/ by \in Requests /\ \E a : Answers(by, a)
           \/ by = Timer /\ UNCHANGED pc
    BY <1>1, <1>5 DEF BeginAnswered, EndAnswered, Expired, QueryAnswered, SessionTyped, request
  <2>3. OnlyForward /\ (pc'[by] \notin Early \/ by \notin Requests)
    BY <1>1, <1>3, <2>2 DEF OnlyForward
  <2> QED BY <2>1, <2>2, <2>3, NotYetPop
<1>6. CASE ExpireTransaction
  <2>1. OnlyForward /\ UNCHANGED effect
    BY <1>6 DEF ExpireTransaction, request, ghost, OnlyForward
  <2>2. CASE UNCHANGED queue
    BY <2>1, <2>2, NotYetQuiet
  <2>3. CASE txClient # NoClient /\ Send(txClient, "ROLLBACK", Timer)
    BY <1>1, <1>2, <2>1, <2>3, NotYetSend DEF Ends
  <2> QED BY <1>6, <2>2, <2>3 DEF ExpireTransaction
<1>7. CASE LeaseLapses \/ UNCHANGED vars
  BY <1>7, NotYetQuiet DEF LeaseLapses, vars, pool, request, ghost, OnlyForward
<1> QED BY <1>4, <1>5, <1>6, <1>7 DEF Next, Respond

NoEnds == \A c \in Clients : \A i \in At(c) : queue[c][i].op \notin Ends

LEMMA OneTimerQuiet ==
  ASSUME SessionInv, OneTimer, ~clash, UNCHANGED <<queue, strays, txTimeout, txActive>> PROVE OneTimer'
BY DEF OneTimer, Once, At

LEMMA OneTimerSend ==
  ASSUME SessionInv, SessionAssumption, OneTimer, ~clash, UNCHANGED <<strays, txActive>>,
         NEW c \in Clients, NEW op \in Ops, NEW by \in Requests \cup {Timer}, Send(c, op, by),
         txTimeout' => txTimeout /\ op \notin Ends,
         by = Timer => txTimeout /\ op \in Ends
  PROVE  OneTimer'
<1>1. queue \in Queues /\ by \in Senders /\ SentInv
  BY SessionAssumption DEF SessionInv, PoolTyped
<1>2. strays' = 0
  BY DEF OneTimer
<1>3. Once({Timer})'
  <2>1. by \in {Timer} => Silent(by)
    <3> SUFFICES ASSUME by = Timer, NEW d \in Clients, NEW i \in At(d), queue[d][i].by = Timer
                 PROVE  FALSE
      BY DEF Silent
    <3>1. queue[d][i].op = "ROLLBACK"
      BY <1>1, SessionAssumption DEF SentInv
    <3> QED BY <3>1 DEF OneTimer, Ends
  <2> QED BY <1>1, <2>1, SendOnce DEF OneTimer
<1>4. ASSUME txTimeout', NEW d \in Clients, NEW i \in At(d)' PROVE queue'[d][i].op \notin Ends
  <2>1. \/ i \in At(d) /\ queue'[d][i] = queue[d][i]
        \/ queue'[d][i] = [op |-> op, by |-> by]
    BY <1>1, SendEntries
  <2> QED BY <1>4, <2>1 DEF OneTimer
<1>5. txTimeout' => txActive'
  BY DEF OneTimer
<1> QED BY <1>2, <1>3, <1>4, <1>5 DEF OneTimer

LEMMA OneTimerPop ==
  ASSUME SessionInv, OneTimer, ~clash, strays' = 0, NEW c \in Clients, queue[c] # <<>>, Pop(c),
         txTimeout' => txActive' /\ NoEnds
  PROVE  OneTimer'
<1>1. queue \in Queues /\ Once({Timer})
  BY DEF SessionInv, PoolTyped, OneTimer
<1>2. Once({Timer})'
  BY <1>1, PopOnce
<1>3. ASSUME txTimeout', NEW d \in Clients, NEW k \in At(d)' PROVE queue'[d][k].op \notin Ends
  <2>1. Before(c, d, k) \in At(d) /\ queue'[d][k] = queue[d][Before(c, d, k)]
    BY <1>1, PopEntries
  <2> QED BY <1>3, <2>1 DEF NoEnds
<1> QED BY <1>2, <1>3 DEF OneTimer

(* The statement answered is the first of its client's queue. *)
LEMMA Answered ==
  ASSUME SessionInv, NEW c \in Clients, NEW ok \in BOOLEAN,
         BeginAnswered(c, ok) \/ EndAnswered(c, ok) \/ Expired(c, ok) \/ QueryAnswered(c, ok)
  PROVE  /\ queue[c] # <<>> /\ Pop(c) /\ Serve(c, ok)
         /\ 1 \in At(c) /\ Head(queue[c]) = queue[c][1] /\ Head(queue[c]) \in Entries
<1>1. queue[c] # <<>> /\ Pop(c) /\ Serve(c, ok)
  BY DEF BeginAnswered, EndAnswered, Expired, QueryAnswered, Serve
<1> QED BY <1>1, PopEffect DEF SessionInv, PoolTyped

LEMMA ExpiredEnds ==
  ASSUME SessionInv, SessionAssumption, NEW c \in Clients, NEW ok \in BOOLEAN, Expired(c, ok)
  PROVE  Head(queue[c]).op = "ROLLBACK" /\ Head(queue[c]).by = Timer
<1>1. 1 \in At(c) /\ Head(queue[c]) = queue[c][1] /\ Head(queue[c]).by = Timer
  BY Answered DEF Expired
<1> QED BY <1>1, SessionAssumption DEF SessionInv, SentInv

(* At most one auto-rollback, and never behind an ending. *)
LEMMA OneTimerStep ==
  ASSUME SessionInv, SessionAssumption, NoClientAssumption, OneTimer, [Next]_vars
  PROVE  OneTimer'
<1> SUFFICES ASSUME ~clash' PROVE OneTimer'
  BY DEF OneTimer
<1>1. /\ ~clash /\ SessionTyped /\ PoolTyped /\ SentInv /\ Calm
      /\ Requests \cap {Timer} = {} /\ txClient \in Clients \cup {NoClient}
      /\ strays = 0 /\ (txTimeout => txActive /\ NoEnds)
  BY StaysCalm, SessionAssumption DEF SessionInv, SessionTyped, OneTimer, NoEnds
<1>2. "BEGIN" \in Ops /\ "STATEMENT" \in Ops /\ Ends \subseteq Ops /\ "ROLLBACK" \in Ends
      /\ "BEGIN" \notin Ends /\ "STATEMENT" \notin Ends
  BY DEF Ops, Ends
<1>3. ASSUME NEW r \in Requests, RequestStep(r) PROVE OneTimer'
  <2>1. CASE Busy(r) \/ Status(r) \/ Begin(r)
    BY <1>1, <2>1, OneTimerQuiet DEF Busy, Status, Begin, pool, session
  <2>2. CASE Connected(r)
    <3>1. UNCHANGED <<txActive, txTimeout, strays>>
      BY <2>2 DEF Connected
    <3>2. CASE UNCHANGED queue
      BY <1>1, <3>1, <3>2, OneTimerQuiet
    <3>3. ASSUME NEW c \in Clients, Send(c, "BEGIN", r) PROVE OneTimer'
      BY <1>1, <1>2, <3>1, <3>3, OneTimerSend
    <3> QED BY <2>2, <3>2, <3>3 DEF Connected, pool
  <2>3. ASSUME NEW kind, NEW op \in Ends, SendEnd(r, kind, op) PROVE OneTimer'
    <3>1. UNCHANGED <<txActive, strays>>
      BY <2>3 DEF SendEnd
    <3>2. CASE UNCHANGED <<queue, txTimeout>>
      BY <1>1, <3>1, <3>2, OneTimerQuiet
    <3>3. CASE txClient # NoClient /\ ~txTimeout' /\ Send(txClient, op, r)
      BY <1>1, <1>2, <3>1, <3>3, OneTimerSend
    <3> QED BY <2>3, <3>2, <3>3 DEF SendEnd
  <2>4. CASE QueryInTransaction(r)
    <3>1. UNCHANGED <<txActive, txTimeout, strays>>
      BY <2>4 DEF QueryInTransaction, session
    <3>2. CASE UNCHANGED queue
      BY <1>1, <3>1, <3>2, OneTimerQuiet
    <3>3. CASE txClient # NoClient /\ Send(txClient, "STATEMENT", r)
      BY <1>1, <1>2, <3>1, <3>3, OneTimerSend
    <3> QED BY <2>4, <3>2, <3>3 DEF QueryInTransaction
  <2> QED BY <1>3, <2>1, <2>2, <2>3, <2>4
          DEF RequestStep, CommitTransaction, RollbackTransaction, Ends
<1>4. ASSUME NEW c \in Clients, NEW ok \in BOOLEAN,
             BeginAnswered(c, ok) \/ EndAnswered(c, ok) \/ Expired(c, ok) \/ QueryAnswered(c, ok)
      PROVE  OneTimer'
  <2>1. queue[c] # <<>> /\ Pop(c) /\ 1 \in At(c) /\ Head(queue[c]) = queue[c][1]
    BY <1>4, Answered
  <2>2. CASE BeginAnswered(c, ok)
    <3>1. queue[c][1].op = "BEGIN"
      BY <2>1, <2>2 DEF BeginAnswered
    <3>2. ~txActive /\ NoEnds
      BY <1>1, <2>1, <3>1, BeginsAlone DEF Calm, OnItsWay, NoEnds
    <3>3. strays' = 0 /\ (txTimeout' => txActive')
      BY <1>1, <2>2, <3>2 DEF BeginAnswered, ArmTimer
    <3> QED BY <1>1, <2>1, <3>2, <3>3, OneTimerPop
  <2>3. CASE EndAnswered(c, ok) \/ Expired(c, ok)
    <3>1. queue[c][1].op \in Ends
      BY <1>2, <2>1, <2>3, ExpiredEnds DEF EndAnswered
    <3>2. ~txTimeout
      BY <1>1, <2>1, <3>1 DEF NoEnds
    <3>3. strays' = 0 /\ ~txTimeout'
      <4>1. UNCHANGED strays /\ (txTimeout' => txTimeout)
        <5>1. CASE EndAnswered(c, ok)
          BY <5>1 DEF EndAnswered
        <5>2. CASE Expired(c, ok)
          <6>1. UNCHANGED strays /\ txTimeout' = (txTimeout /\ txClient = NoClient)
            BY <5>2 DEF Expired
          <6> QED BY <6>1
        <5> QED BY <2>3, <5>1, <5>2
      <4> QED BY <1>1, <3>2, <4>1
    <3> QED BY <1>1, <2>1, <3>3, OneTimerPop
  <2>4. CASE QueryAnswered(c, ok)
    <3>1. UNCHANGED <<txActive, txTimeout, strays>>
      BY <2>4 DEF QueryAnswered, session
    <3> QED BY <1>1, <2>1, <3>1, OneTimerPop
  <2> QED BY <1>4, <2>2, <2>3, <2>4
<1>5. CASE ExpireTransaction
  <2>1. txTimeout /\ ~txTimeout' /\ UNCHANGED <<strays, txActive, txClient>>
    BY <1>1, <1>5 DEF ExpireTransaction
  <2>2. txActive /\ txClient # NoClient
    BY <1>1, <2>1 DEF Calm, Ours
  <2>3. Send(txClient, "ROLLBACK", Timer)
    BY <1>5, <2>2 DEF ExpireTransaction
  <2> QED BY <1>1, <1>2, <2>1, <2>2, <2>3, OneTimerSend
<1>6. CASE LeaseLapses \/ UNCHANGED vars
  BY <1>1, <1>6, OneTimerQuiet DEF LeaseLapses, vars, pool, session
<1> QED BY <1>3, <1>4, <1>5, <1>6 DEF Next, Respond

(* The entry i of the queue of d, a query sent behind an ending, will run   *)
(* in no transaction.                                                       *)
Outside(d, i) ==
  \/ \E j \in At(d) : j < i /\ queue[d][j].op \in Ends
  \/ status[d] = "I" /\ \A j \in At(d) : j < i => queue[d][j].op # "BEGIN"

LateEntry(d, i) == queue[d][i].op = "STATEMENT" /\ effect[queue[d][i].by] = "behind"

LEMMA RunsOutsideQuiet ==
  ASSUME RunsOutside, ~clash, UNCHANGED <<queue, status, effect>> PROVE RunsOutside'
BY DEF RunsOutside, At

LEMMA RunsOutsideSend ==
  ASSUME SessionInv, SessionAssumption, RunsOutside, ~clash, UNCHANGED status,
         NEW c \in Clients, NEW op \in Ops, NEW by \in Requests \cup {Timer}, Send(c, op, by),
         by \in Requests => pc[by] \in Early,
         \A q \in Requests : q # by => effect'[q] = effect[q],
         op = "STATEMENT" /\ effect'[by] = "behind" => EndQueued(c)
  PROVE  RunsOutside'
<1>1. queue \in Queues /\ by \in Senders /\ SentInv
  BY SessionAssumption DEF SessionInv, PoolTyped
<1>2. by \in Requests => Silent(by)
  BY <1>1, NotWaiting, SessionAssumption DEF Early
<1>3. ASSUME NEW d \in Clients, NEW i \in At(d)', LateEntry(d, i)' PROVE Outside(d, i)'
  <2>1. Len(queue[d]) \in Nat /\ DOMAIN queue[d] = At(d)
    BY <1>1 DEF Queues, At
  <2>2. \A j \in At(d)' : \/ j \in At(d) /\ queue'[d][j] = queue[d][j]
                          \/ d = c /\ j = Len(queue[c]) + 1 /\ queue'[d][j] = [op |-> op, by |-> by]
    BY <1>1, SendEntries
  <2>3. \A j \in At(d) : j \in At(d)' /\ queue'[d][j] = queue[d][j]
    BY <1>1, SendStays
  <2>4. CASE i \in At(d) /\ queue'[d][i] = queue[d][i]
    <3>1. queue[d][i].by \in Requests /\ queue[d][i].by # by
      <4>1. queue[d][i].by \in Requests
        BY <1>1, <1>3, <2>4 DEF SentInv, LateEntry
      <4> QED BY <1>2, <2>4, <4>1 DEF Silent
    <3>2. LateEntry(d, i)
      BY <1>3, <2>4, <3>1 DEF LateEntry
    <3>3. Outside(d, i)
      BY <2>4, <3>2 DEF RunsOutside, LateEntry, Outside
    <3>4. \A j \in At(d)' : j < i => j \in At(d) /\ queue'[d][j] = queue[d][j]
      BY <2>1, <2>2, <2>4 DEF At
    <3> QED BY <2>3, <3>3, <3>4 DEF Outside
  <2>5. CASE d = c /\ i = Len(queue[c]) + 1 /\ queue'[d][i] = [op |-> op, by |-> by]
    <3>1. EndQueued(c)
      BY <1>3, <2>5 DEF LateEntry
    <3>2. PICK j \in At(d) : queue[d][j].op \in Ends
      BY <2>1, <2>5, <3>1 DEF EndQueued
    <3>3. j < i
      BY <2>1, <2>5 DEF At
    <3> QED BY <2>3, <3>2, <3>3 DEF Outside
  <2> QED BY <2>2, <2>4, <2>5
<1> QED BY <1>3 DEF RunsOutside, Outside, LateEntry

LEMMA RunsOutsidePop ==
  ASSUME SessionInv, RunsOutside, ~clash, NEW c \in Clients, NEW ok \in BOOLEAN,
         queue[c] # <<>>, Serve(c, ok), Pop(c),
         Head(queue[c]).op \in {"BEGIN", "STATEMENT"} \cup Ends,
         \A q \in Requests : q # Head(queue[c]).by => effect'[q] = effect[q]
  PROVE  RunsOutside'
<1> DEFINE h == Head(queue[c])
<1>1. queue \in Queues /\ Once(Requests) /\ PoolTyped /\ SessionTyped /\ SentInv /\ ~Overlap
  BY DEF SessionInv, PoolTyped, SentInv, Calm
<1>2. 1 \in At(c) /\ h = queue[c][1] /\ Len(queue[c]) \in Nat
  BY <1>1, PopEffect
<1>3. \A d \in Clients : \A k \in At(d)' :
        Before(c, d, k) \in At(d) /\ queue'[d][k] = queue[d][Before(c, d, k)]
  BY <1>1, PopEntries
<1>4. \A d \in Clients : d # c => status'[d] = status[d]
  BY DEF Serve
<1>5. h.op \in Ends => /\ status'[c] = "I"
                       /\ \A d \in Clients : \A j \in At(d) : queue[d][j].op # "BEGIN"
  <2>1. h.op \in Ends => status'[c] = "I"
    BY <1>1 DEF Serve, StatusAfter, Ends, PoolTyped
  <2> QED BY <1>1, <1>2, <2>1, BeginsAlone
<1>6. h.op = "STATEMENT" /\ status[c] = "I" => status'[c] = "I"
  BY <1>1 DEF Serve, StatusAfter, PoolTyped
<1> HIDE DEF h
<1>7. ASSUME NEW d \in Clients, NEW k \in At(d)', LateEntry(d, k)' PROVE Outside(d, k)'
  <2> DEFINE b == Before(c, d, k)
  <2>1. b \in At(d) /\ queue'[d][k] = queue[d][b] /\ queue[d][b].by \in Requests
    BY <1>1, <1>3, <1>7 DEF SentInv, LateEntry
  <2>2. queue[d][b].by # h.by
    BY <1>1, <2>1, PopOnce DEF h
  <2>3. LateEntry(d, b)
    BY <1>7, <2>1, <2>2 DEF LateEntry, h
  <2>4. Outside(d, b)
    BY <2>1, <2>3 DEF RunsOutside, LateEntry, Outside
  <2>5. Len(queue[d]) \in Nat /\ Len(queue'[d]) \in Nat /\ k \in Nat
    BY <1>1, PopEffect DEF Queues, At
  <2>6. \A j \in At(d)' : j < k => Before(c, d, j) \in At(d) /\ Before(c, d, j) < b
                                   /\ queue'[d][j] = queue[d][Before(c, d, j)]
    BY <1>3 DEF Before, At
  <2>7. CASE d = c /\ h.op \in Ends
    BY <1>5, <2>6, <2>7 DEF Outside
  <2>8. CASE ~(d = c /\ h.op \in Ends)
    <3>1. CASE \E j \in At(d) : j < b /\ queue[d][j].op \in Ends
      <4>1. PICK j \in At(d) : j < b /\ queue[d][j].op \in Ends
        BY <3>1
      <4>2. d = c => j # 1
        BY <1>2, <2>8, <4>1
      <4>3. PICK m \in Int : m = IF d = c THEN j - 1 ELSE j
        BY DEF At
      <4>4. m \in At(d)' /\ m < k /\ Before(c, d, m) = j
        BY <2>5, <4>1, <4>2, <4>3 DEF At, Before
      <4>5. queue'[d][m] = queue[d][j]
        BY <1>3, <4>4
      <4> QED BY <4>1, <4>4, <4>5 DEF Outside
    <3>2. CASE status[d] = "I" /\ \A j \in At(d) : j < b => queue[d][j].op # "BEGIN"
      <4>1. \A j \in At(d)' : j < k => queue'[d][j].op # "BEGIN"
        BY <2>6, <3>2
      <4>2. d = c => h.op # "BEGIN"
        <5>1. d = c => 1 < b
          BY DEF Before, At
        <5> QED BY <1>2, <3>2, <5>1
      <4>3. status'[d] = "I"
        BY <1>4, <1>6, <2>8, <3>2, <4>2 DEF h
      <4> QED BY <4>1, <4>3 DEF Outside
    <3> QED BY <2>4, <3>1, <3>2 DEF Outside
  <2> QED BY <2>7, <2>8
<1> QED BY <1>7 DEF RunsOutside, Outside, LateEntry

(* What is sent behind an ending runs in no transaction. *)
LEMMA RunsOutsideStep ==
  ASSUME SessionInv, SessionAssumption, NoClientAssumption, NotYet, RunsOutside, [Next]_vars
  PROVE  RunsOutside'
<1> SUFFICES ASSUME ~clash' PROVE RunsOutside'
  BY DEF RunsOutside
<1>1. /\ ~clash /\ SessionTyped /\ Requests \cap {Timer} = {}
      /\ txClient \in Clients \cup {NoClient}
  BY StaysCalm, SessionAssumption DEF SessionInv, SessionTyped
<1>2. "BEGIN" \in Ops /\ "STATEMENT" \in Ops /\ Ends \subseteq Ops /\ "ROLLBACK" \in Ends
      /\ "STATEMENT" \notin Ends /\ "idle" \in Early /\ "connecting" \in Early
  BY DEF Ops, Ends, Early
<1>3. ASSUME NEW r \in Requests, RequestStep(r) PROVE RunsOutside'
  <2>1. CASE Busy(r) \/ Status(r) \/ Begin(r)
    BY <1>1, <2>1, RunsOutsideQuiet DEF Busy, Status, Begin, pool, ghost
  <2>2. CASE Connected(r)
    <3>1. pc[r] = "connecting" /\ UNCHANGED effect
      BY <2>2 DEF Connected, ghost
    <3>2. CASE UNCHANGED <<queue, status>>
      BY <1>1, <3>1, <3>2, RunsOutsideQuiet
    <3>3. ASSUME NEW c \in Clients, Send(c, "BEGIN", r), UNCHANGED status PROVE RunsOutside'
      BY <1>1, <1>2, <3>1, <3>3, RunsOutsideSend
    <3> QED BY <2>2, <3>2, <3>3 DEF Connected, pool
  <2>3. ASSUME NEW kind, NEW op \in Ends, SendEnd(r, kind, op) PROVE RunsOutside'
    <3>1. pc[r] = "idle" /\ UNCHANGED <<effect, status>>
      BY <2>3 DEF SendEnd, Arrive, ghost
    <3>2. CASE UNCHANGED queue
      BY <1>1, <3>1, <3>2, RunsOutsideQuiet
    <3>3. CASE txClient # NoClient /\ Send(txClient, op, r)
      BY <1>1, <1>2, <3>1, <3>3, RunsOutsideSend
    <3> QED BY <2>3, <3>2, <3>3 DEF SendEnd
  <2>4. CASE QueryInTransaction(r)
    <3>1. pc[r] = "idle" /\ UNCHANGED status /\ effect[r] = "none"
      BY <1>2, <2>4 DEF QueryInTransaction, Arrive, NotYet
    <3>2. CASE UNCHANGED <<queue, effect>>
      BY <1>1, <3>1, <3>2, RunsOutsideQuiet
    <3>3. CASE /\ txClient # NoClient /\ Send(txClient, "STATEMENT", r)
               /\ effect' = [effect EXCEPT ![r] = IF EndQueued(txClient) THEN "behind" ELSE @]
      <4>1. /\ effect'[r] = "behind" => EndQueued(txClient)
            /\ \A q \in Requests : q # r => effect'[q] = effect[q]
        BY <1>1, <3>1, <3>3 DEF SessionTyped
      <4> QED BY <1>1, <1>2, <3>1, <3>3, <4>1, RunsOutsideSend
    <3> QED BY <2>4, <3>2, <3>3 DEF QueryInTransaction
  <2> QED BY <1>3, <2>1, <2>2, <2>3, <2>4
          DEF RequestStep, CommitTransaction, RollbackTransaction, Ends
<1>4. ASSUME NEW c \in Clients, NEW ok \in BOOLEAN,
             BeginAnswered(c, ok) \/ EndAnswered(c, ok) \/ Expired(c, ok) \/ QueryAnswered(c, ok)
      PROVE  RunsOutside'
  <2>1. queue[c] # <<>> /\ Pop(c) /\ Serve(c, ok)
    BY <1>4, Answered
  <2>2. Head(queue[c]).op \in {"BEGIN", "STATEMENT"} \cup Ends
    BY <1>2, <1>4, ExpiredEnds DEF BeginAnswered, EndAnswered, QueryAnswered
  <2>3. \A q \in Requests : q # Head(queue[c]).by => effect'[q] = effect[q]
    BY <1>1, <1>4 DEF BeginAnswered, EndAnswered, Expired, QueryAnswered, SessionTyped
  <2> QED BY <1>1, <2>1, <2>2, <2>3, RunsOutsidePop
<1>5. CASE ExpireTransaction
  <2>1. UNCHANGED <<effect, status>>
    BY <1>5 DEF ExpireTransaction, ghost
  <2>2. CASE UNCHANGED queue
    BY <1>1, <2>1, <2>2, RunsOutsideQuiet
  <2>3. CASE txClient # NoClient /\ Send(txClient, "ROLLBACK", Timer)
    BY <1>1, <1>2, <2>1, <2>3, RunsOutsideSend
  <2> QED BY <1>5, <2>2, <2>3 DEF ExpireTransaction
<1>6. CASE LeaseLapses \/ UNCHANGED vars
  BY <1>1, <1>6, RunsOutsideQuiet DEF LeaseLapses, vars, pool, ghost
<1> QED BY <1>3, <1>4, <1>5, <1>6 DEF Next, Respond

(* What a sending, and an answer, make of what is on its way. *)
LEMMA SentSend ==
  ASSUME PoolTyped, NEW c \in Clients, NEW op \in Ops, NEW by \in Senders, Send(c, op, by),
         NEW o, NEW b
  PROVE  Sent(o, b)' <=> (Sent(o, b) \/ (o = op /\ b = by))
<1>1. /\ queue \in Queues /\ queue' \in Queues /\ Len(queue[c]) \in Nat
      /\ Len(queue'[c]) = Len(queue[c]) + 1
      /\ queue'[c][Len(queue[c]) + 1] = [op |-> op, by |-> by]
  BY SendEffect DEF PoolTyped, Queues
<1>2. \A d \in Clients : DOMAIN queue[d] = At(d) /\ DOMAIN queue'[d] = At(d)'
  BY <1>1 DEF Queues, At
<1>3. ASSUME Sent(o, b)' PROVE Sent(o, b) \/ (o = op /\ b = by)
  <2>0. PICK d \in Clients : \E i \in At(d)' : queue'[d][i] = [op |-> o, by |-> b]
    BY <1>2, <1>3 DEF Sent
  <2>1. PICK i \in At(d)' : queue'[d][i] = [op |-> o, by |-> b]
    BY <2>0
  <2>2. \/ i \in At(d) /\ queue'[d][i] = queue[d][i]
        \/ queue'[d][i] = [op |-> op, by |-> by]
    BY <1>1, SendEntries
  <2> QED BY <1>2, <2>1, <2>2 DEF Sent
<1>4. ASSUME Sent(o, b) PROVE Sent(o, b)'
  <2>0. PICK d \in Clients : \E i \in At(d) : queue[d][i] = [op |-> o, by |-> b]
    BY <1>2, <1>4 DEF Sent
  <2>1. PICK i \in At(d) : queue[d][i] = [op |-> o, by |-> b]
    BY <2>0
  <2>2. i \in At(d)' /\ queue'[d][i] = queue[d][i]
    BY <1>1, SendStays
  <2> QED BY <1>2, <2>1, <2>2 DEF Sent
<1>5. ASSUME o = op, b = by PROVE Sent(o, b)'
  <2>1. Len(queue[c]) + 1 \in At(c)'
    BY <1>1 DEF At
  <2> QED BY <1>1, <1>2, <1>5, <2>1 DEF Sent
<1> QED BY <1>3, <1>4, <1>5

LEMMA SentPop ==
  ASSUME PoolTyped, NEW c \in Clients, queue[c] # <<>>, Pop(c),
         NEW W, Once(W), Head(queue[c]).by \in W, NEW o, NEW b
  PROVE  /\ Sent(o, b)' <=> (Sent(o, b) /\ ~(o = Head(queue[c]).op /\ b = Head(queue[c]).by))
         /\ Sent(Head(queue[c]).op, Head(queue[c]).by)
<1> DEFINE h == Head(queue[c])
<1>1. /\ queue \in Queues /\ queue' \in Queues
      /\ 1 \in At(c) /\ h = queue[c][1] /\ h \in Entries
  BY PopEffect DEF PoolTyped
<1>2. \A d \in Clients : DOMAIN queue[d] = At(d) /\ DOMAIN queue'[d] = At(d)'
  BY <1>1 DEF Queues, At
<1>3. h = [op |-> h.op, by |-> h.by]
  BY <1>1 DEF Entries
<1> HIDE DEF h
<1>4. Sent(h.op, h.by)
  BY <1>1, <1>2, <1>3 DEF Sent
<1>5. ASSUME Sent(o, b)' PROVE Sent(o, b) /\ ~(o = h.op /\ b = h.by)
  <2>0. PICK d \in Clients : \E k \in At(d)' : queue'[d][k] = [op |-> o, by |-> b]
    BY <1>2, <1>5 DEF Sent
  <2>1. PICK k \in At(d)' : queue'[d][k] = [op |-> o, by |-> b]
    BY <2>0
  <2>2. Before(c, d, k) \in At(d) /\ queue'[d][k] = queue[d][Before(c, d, k)]
    BY <1>1, PopEntries
  <2>3. queue'[d][k].by # h.by
    BY <1>1, PopOnce DEF h
  <2> QED BY <1>2, <2>1, <2>2, <2>3 DEF Sent
<1>6. ASSUME Sent(o, b), ~(o = h.op /\ b = h.by) PROVE Sent(o, b)'
  <2>0. PICK d \in Clients : \E i \in At(d) : queue[d][i] = [op |-> o, by |-> b]
    BY <1>2, <1>6 DEF Sent
  <2>1. PICK i \in At(d) : queue[d][i] = [op |-> o, by |-> b]
    BY <2>0
  <2>2. b # h.by
    <3> SUFFICES ASSUME b = h.by PROVE FALSE
      OBVIOUS
    <3>1. queue[c][1].by \in W /\ queue[c][1].by = queue[d][i].by
      BY <1>1, <2>1 DEF h
    <3>2. c = d /\ 1 = i
      BY <1>1, <3>1 DEF Once
    <3> QED BY <1>1, <1>6, <2>1, <3>2
  <2>3. queue[d][i].by # Head(queue[c]).by
    BY <2>1, <2>2 DEF h
  <2>4. PICK k \in At(d)' : queue'[d][k] = queue[d][i]
    BY <1>1, <2>3, PopStays
  <2> QED BY <1>2, <2>1, <2>4 DEF Sent
<1> QED BY <1>4, <1>5, <1>6 DEF h

Admittable == [op : Ends \cup {"STATEMENT"}, by : Requests \cup {Timer}]

LEMMA AdmittedSend ==
  ASSUME PoolTyped, NEW c \in Clients, NEW op \in Ops, NEW by \in Senders, Send(c, op, by)
  PROVE  /\ [op |-> op, by |-> by] \in Admittable => Admitted' = Admitted \cup {[op |-> op, by |-> by]}
         /\ op = "BEGIN" => Admitted' = Admitted
<1>1. \A e \in Admittable : Sent(e.op, e.by)' <=> (Sent(e.op, e.by) \/ e = [op |-> op, by |-> by])
  <2> TAKE e \in Admittable
  <2>1. e = [op |-> e.op, by |-> e.by]
    BY DEF Admittable
  <2>2. Sent(e.op, e.by)' <=> (Sent(e.op, e.by) \/ (e.op = op /\ e.by = by))
    BY SentSend
  <2> QED BY <2>1, <2>2
<1>2. Admitted = {e \in Admittable : Sent(e.op, e.by)} /\ Admitted' = {e \in Admittable : Sent(e.op, e.by)'}
  BY DEF Admitted, Admittable
<1>3. op = "BEGIN" => [op |-> op, by |-> by] \notin Admittable
  BY DEF Admittable, Ends
<1> QED BY <1>1, <1>2, <1>3

LEMMA AdmittedPop ==
  ASSUME PoolTyped, NEW c \in Clients, queue[c] # <<>>, Pop(c),
         NEW W, Once(W), Head(queue[c]).by \in W
  PROVE  /\ Head(queue[c]) \in Admittable => /\ Head(queue[c]) \in Admitted
                                             /\ Admitted' = Admitted \ {Head(queue[c])}
         /\ Head(queue[c]).op = "BEGIN" => Admitted' = Admitted
<1> DEFINE h == Head(queue[c])
<1>0. h = [op |-> h.op, by |-> h.by]
  BY PopEffect DEF PoolTyped, Entries
<1>1. \A e \in Admittable : Sent(e.op, e.by)' <=> (Sent(e.op, e.by) /\ e # h)
  <2> TAKE e \in Admittable
  <2>1. e = [op |-> e.op, by |-> e.by]
    BY DEF Admittable
  <2>2. Sent(e.op, e.by)' <=> (Sent(e.op, e.by) /\ ~(e.op = h.op /\ e.by = h.by))
    BY SentPop
  <2> QED BY <1>0, <2>1, <2>2
<1>2. Admitted = {e \in Admittable : Sent(e.op, e.by)} /\ Admitted' = {e \in Admittable : Sent(e.op, e.by)'}
  BY DEF Admitted, Admittable
<1>3. h.op = "BEGIN" => h \notin Admittable
  BY DEF Admittable, Ends
<1>4. Sent(h.op, h.by)
  BY SentPop
<1> HIDE DEF h
<1>5. h \in Admittable => h \in Admitted /\ Admitted' = Admitted \ {h}
  BY <1>1, <1>2, <1>4
<1>6. h.op = "BEGIN" => Admitted' = Admitted
  BY <1>1, <1>2, <1>3
<1> QED BY <1>5, <1>6 DEF h

LEMMA AdmittedSame == ASSUME UNCHANGED queue PROVE Admitted' = Admitted
BY DEF Admitted, Sent

(* What is admitted is on its way on some client. *)
LEMMA AdmittedSent ==
  ASSUME PoolTyped, NEW e
  PROVE  e \in Admitted <=> (e \in Admittable /\ \E d \in Clients : \E i \in At(d) : queue[d][i] = e)
<1>1. \A d \in Clients : DOMAIN queue[d] = At(d)
  BY DEF PoolTyped, Queues, At
<1>2. e \in Admittable => e = [op |-> e.op, by |-> e.by]
  BY DEF Admittable
<1>3. e \in Admitted <=> (e \in Admittable /\ Sent(e.op, e.by))
  BY DEF Admitted, Admittable
<1> QED BY <1>1, <1>2, <1>3 DEF Sent


(* The mapping *)

(* Until a clash the users see one transaction, the session's, or none. *)
TheOne == [on |-> txClient, by |-> opener[txClient], failed |-> status[txClient] = "E"]

LEMMA OpenIs ==
  ASSUME Ours, SessionTyped, NoClientAssumption
  PROVE  /\ txActive => Open = {TheOne}
         /\ ~txActive => Open = {}
<1>1. ~txActive => Open = {}
  BY DEF Ours, Open
<1>2. txActive => {d \in Clients : status[d] # "I"} = {txClient}
  BY DEF Ours, SessionTyped
<1>3. txActive => Open = {TheOne}
  BY <1>2 DEF Open, TheOne
<1> QED BY <1>1, <1>3

LEMMA OpenBecomes ==
  ASSUME Ours', SessionTyped', NoClientAssumption
  PROVE  /\ txActive' => Open' = {TheOne'}
         /\ ~txActive' => Open' = {}
<1>1. ~txActive' => Open' = {}
  BY DEF Ours, Open
<1>2. txActive' => {d \in Clients : status'[d] # "I"} = {txClient'}
  BY DEF Ours, SessionTyped
<1>3. txActive' => Open' = {TheOne'}
  BY <1>2 DEF Open, TheOne
<1> QED BY <1>1, <1>3

LEMMA LeaseIs ==
  ASSUME Ours, SessionTyped, NoClientAssumption
  PROVE  Lease = IF ~txActive \/ owner = NoUser THEN "gone" ELSE IF lapsed THEN "lapsed" ELSE "live"
<1>1. Open = {} <=> ~txActive
  BY OpenIs DEF SessionTyped
<1> QED BY <1>1 DEF Lease

LEMMA LeaseBecomes ==
  ASSUME Ours', SessionTyped', NoClientAssumption
  PROVE  Lease' = IF ~txActive' \/ owner' = NoUser
                  THEN "gone" ELSE IF lapsed' THEN "lapsed" ELSE "live"
<1>1. Open' = {} <=> ~txActive'
  BY OpenBecomes DEF SessionTyped
<1> QED BY <1>1 DEF Lease

(* What reading the lease does to it. *)
LEMMA ArriveLooks ==
  ASSUME Ours, SessionTyped, Ours', SessionTyped', NoClientAssumption, UNCHANGED txActive,
         NEW r, NEW kind, Arrive(r, kind)
  PROVE  Lease' = Contract!Looked
<1>1. txActive \in BOOLEAN
  BY DEF SessionTyped
<1>2. CASE ~txActive
  BY <1>2, LeaseIs, LeaseBecomes DEF Contract!Looked
<1>3. CASE txActive /\ lapsed
  BY <1>3, LeaseIs, LeaseBecomes DEF Contract!Looked, Arrive, OwnerOnArrival, TransactionOwner
<1>4. CASE txActive /\ ~lapsed
  BY <1>4, LeaseIs, LeaseBecomes DEF Contract!Looked, Arrive, OwnerOnArrival, TransactionOwner
<1> QED BY <1>1, <1>2, <1>3, <1>4

(* An ending the users may know of is one on its way. *)
LEMMA EndingIs ==
  ASSUME PoolTyped, SentInv, SessionAssumption
  PROVE  Contract!Ending <=> ~NoEnds
<1>1. ASSUME Contract!Ending PROVE ~NoEnds
  <2>1. PICK a \in Admitted : a.op \in Ends
    BY <1>1 DEF Contract!Ending, Contract!Endings, Ends
  <2>2. \E d \in Clients : \E i \in At(d) : queue[d][i] = a
    BY <2>1, AdmittedSent
  <2> QED BY <2>1, <2>2 DEF NoEnds
<1>2. ASSUME ~NoEnds PROVE Contract!Ending
  <2>1. PICK d \in Clients : \E i \in At(d) : queue[d][i].op \in Ends
    BY <1>2 DEF NoEnds
  <2>2. PICK i \in At(d) : queue[d][i].op \in Ends
    BY <2>1
  <2>3. queue[d][i] \in Entries
    BY DEF PoolTyped, Queues, At
  <2>4. queue[d][i] \in Admittable
    BY <2>2, <2>3, SessionAssumption DEF SentInv, Admittable, Entries
  <2>5. queue[d][i] \in Admitted
    BY <2>4, AdmittedSent
  <2> QED BY <2>2, <2>5 DEF Contract!Ending, Contract!Endings, Ends
<1> QED BY <1>1, <1>2

(* A request that has not reached the provider is new to the users. *)
LEMMA EarlyFresh ==
  ASSUME PoolTyped, SentInv, SessionAssumption, NEW r \in Requests, pc[r] \in Early
  PROVE  Contract!Fresh(r)
<1>1. Silent(r) /\ answer[r] = "none"
  BY NotWaiting DEF Early, SentInv
<1>2. \A a \in Admitted : a.by # r
  BY <1>1, AdmittedSent DEF Silent
<1> QED BY <1>1, <1>2 DEF Contract!Fresh


Ready == SessionInv /\ NotYet /\ OneTimer /\ RunsOutside

LEMMA ReadyKnows ==
  ASSUME Ready, ~clash, SessionAssumption
  PROVE  /\ PoolTyped /\ SessionTyped /\ SentInv /\ Ours /\ OnItsWay /\ WillMeet /\ OwnerOpened
         /\ ~Overlap /\ Calm /\ NotYet /\ Requests \cap {Timer} = {}
         /\ txClient \in Clients \cup {NoClient} /\ txActive \in BOOLEAN
BY SessionAssumption DEF Ready, SessionInv, Calm, SessionTyped

(* What does not move the pool or the session moves no transaction. *)
LEMMA OpenSame ==
  ASSUME UNCHANGED <<status, opener>> PROVE Open' = Open
BY DEF Open

LEMMA EffectSame ==
  ASSUME UNCHANGED effect PROVE Late' = Late /\ Fate' = Fate
BY DEF Late, Fate

(* A request told at once that it is refused: of somebody else's            *)
(* transaction, of the status, or of an error.                              *)
LEMMA RefusedSees ==
  ASSUME Ready, ~clash, SessionInv', ~clash', SessionAssumption, NoClientAssumption,
         NEW r \in Requests, pc[r] \in Early,
         NEW what \in {"busy", "status", "error"}, Answers(r, what),
         UNCHANGED <<pool, txActive, opener, effect>>,
         \/ \E kind \in Kinds : Arrive(r, kind) /\ (what = "busy" => Refused(r, kind))
         \/ what # "busy" /\ UNCHANGED lease
  PROVE  Contract!Refuse(r)
<1>1. /\ PoolTyped /\ SessionTyped /\ SentInv /\ Ours /\ OwnerOpened
      /\ SessionTyped' /\ Ours'
  BY ReadyKnows DEF SessionInv, Calm
<1>2. Contract!Fresh(r)
  BY <1>1, EarlyFresh
<1>3. Open' = Open /\ Admitted' = Admitted /\ Late' = Late /\ Fate' = Fate
  BY OpenSame, AdmittedSame, EffectSame DEF pool
<1>4. Contract!Tell(r, what)
  BY DEF Answers, Contract!Tell
<1>5. Lease' \in {Lease, Contract!Looked}
  <2>1. CASE UNCHANGED lease
    BY <1>1, <2>1, LeaseIs, LeaseBecomes DEF lease
  <2>2. CASE \E kind \in Kinds : Arrive(r, kind)
    BY <1>1, <2>2, ArriveLooks
  <2> QED BY <2>1, <2>2
<1>6. ASSUME what = "busy" PROVE Lease = "live" /\ \E t \in Open : t.by # user[r]
  <2>1. /\ txActive /\ ~lapsed /\ owner # NoUser /\ owner # user[r]
    BY <1>6 DEF Refused, OwnerOnArrival, TransactionOwner
  <2>2. opener[txClient] # user[r]
    BY <1>1, <2>1 DEF OwnerOpened
  <2>3. Open = {TheOne} /\ TheOne.by = opener[txClient]
    BY <1>1, <2>1, OpenIs DEF TheOne
  <2> QED BY <1>1, <2>1, <2>2, <2>3, LeaseIs
<1> QED BY <1>2, <1>3, <1>4, <1>5, <1>6 DEF Contract!Refuse

(* A commit, a rollback or a query that is sent is let in. *)
LEMMA SentIsAdmitted ==
  ASSUME Ready, ~clash, SessionInv', ~clash', SessionAssumption, NoClientAssumption,
         NEW r \in Requests, NEW kind \in {"commit", "rollback", "query"}, NEW op \in Ends \cup {"STATEMENT"},
         Arrive(r, kind), ~Refused(r, kind), txClient # NoClient, txActive,
         Send(txClient, op, r),
         UNCHANGED <<status, txActive, opener, answer>>,
         IF op = "STATEMENT"
         THEN effect' = [effect EXCEPT ![r] = IF EndQueued(txClient) THEN "behind" ELSE @]
         ELSE UNCHANGED effect
  PROVE  Contract!Admit(r, op)
<1>1. /\ PoolTyped /\ SessionTyped /\ SentInv /\ Ours /\ OwnerOpened /\ OnItsWay /\ NotYet
      /\ SessionTyped' /\ Ours' /\ r \in Senders /\ txClient \in Clients /\ op \in Ops
      /\ effect \in [Requests -> Effects] /\ pc[r] = "idle"
  BY ReadyKnows, SessionAssumption DEF SessionInv, Calm, SessionTyped, Ops, Ends, Arrive
<1>2. Contract!Fresh(r)
  BY <1>1, EarlyFresh DEF Early
<1>3. \E t \in Open : Lease = "live" => t.by = user[r]
  <2>1. Open = {TheOne} /\ TheOne.by = opener[txClient]
    BY <1>1, OpenIs DEF TheOne
  <2>2. ASSUME Lease = "live" PROVE opener[txClient] = user[r]
    <3>1. owner # NoUser /\ ~lapsed
      BY <1>1, <2>2, LeaseIs
    <3> QED BY <1>1, <3>1 DEF Refused, OwnerOnArrival, TransactionOwner, OwnerOpened
  <2> QED BY <2>1, <2>2
<1>4. Lease' = Contract!Looked /\ Open' = Open
  BY <1>1, ArriveLooks, OpenSame
<1>5. Admitted' = Admitted \cup {[op |-> op, by |-> r]}
  <2>1. [op |-> op, by |-> r] \in Admittable
    BY DEF Admittable
  <2> QED BY <1>1, <2>1, AdmittedSend
<1>6. EndQueued(txClient) <=> Contract!Ending
  <2>1. EndQueued(txClient) <=> ~NoEnds
    <3>1. DOMAIN queue[txClient] = At(txClient)
      BY <1>1 DEF PoolTyped, Queues, At
    <3> QED BY <1>1, <3>1 DEF EndQueued, NoEnds, OnItsWay
  <2> QED BY <1>1, <2>1, EndingIs
<1>7. Late' = (IF op = "STATEMENT" /\ Contract!Ending THEN Late \cup {r} ELSE Late) /\ Fate' = Fate
  <2>1. CASE op = "STATEMENT" /\ Contract!Ending
    <3>1. effect' = [effect EXCEPT ![r] = "behind"] /\ effect[r] = "none"
      BY <1>1, <1>6, <2>1 DEF NotYet, Early
    <3> QED BY <1>1, <2>1, <3>1 DEF Late, Fate
  <2>2. CASE ~(op = "STATEMENT" /\ Contract!Ending)
    <3>1. effect' = effect
      BY <1>1, <1>6, <2>2
    <3> QED BY <2>2, <3>1, EffectSame
  <2> QED BY <2>1, <2>2
<1> QED BY <1>2, <1>3, <1>4, <1>5, <1>7 DEF Contract!Admit


(* The users see nothing of the step. *)
Unseen == UNCHANGED <<Open, Lease, Admitted, Late, answer, Fate>>

LEMMA RequestSees ==
  ASSUME Ready, ~clash, SessionInv', ~clash', SessionAssumption, NoClientAssumption,
         NEW r \in Requests, RequestStep(r)
  PROVE  Contract!RequestStep(r) \/ Unseen
<1>1. /\ PoolTyped /\ SessionTyped /\ Ours /\ OnItsWay /\ SessionTyped' /\ Ours'
      /\ "idle" \in Early /\ "connecting" \in Early
      /\ "busy" \in {"busy", "status", "error"} /\ "status" \in {"busy", "status", "error"}
      /\ "error" \in {"busy", "status", "error"}
  BY ReadyKnows DEF SessionInv, Calm, Early
<1>2. CASE Busy(r)
  <2>1. PICK kind \in Kinds : Refused(r, kind) /\ Arrive(r, kind)
    BY <1>2 DEF Busy
  <2>2. pc[r] \in Early /\ Answers(r, "busy") /\ UNCHANGED <<pool, txActive, opener, effect>>
    BY <1>1, <1>2, <2>1 DEF Busy, Arrive, session, ghost
  <2>3. Contract!Refuse(r)
    BY <1>1, <2>1, <2>2, RefusedSees
  <2> QED BY <2>3 DEF Contract!RequestStep
<1>3. CASE Status(r)
  <2>1. /\ Arrive(r, "status") /\ "status" \in Kinds
        /\ pc[r] \in Early /\ Answers(r, "status") /\ UNCHANGED <<pool, txActive, opener, effect>>
    BY <1>1, <1>3 DEF Status, Arrive, session, ghost
  <2>2. Contract!Refuse(r)
    BY <1>1, <2>1, RefusedSees
  <2> QED BY <2>2 DEF Contract!RequestStep
<1>4. CASE Begin(r)
  <2>1. /\ Arrive(r, "begin") /\ "begin" \in Kinds
        /\ pc[r] \in Early /\ UNCHANGED <<pool, txActive, opener, effect>>
    BY <1>1, <1>4 DEF Begin, Arrive, session, ghost
  <2>2. CASE txActive
    <3>1. Contract!Refuse(r)
      BY <1>1, <1>4, <2>1, <2>2, RefusedSees DEF Begin
    <3> QED BY <3>1 DEF Contract!RequestStep
  <2>3. CASE ~txActive
    <3>1. Open' = Open /\ Admitted' = Admitted /\ Late' = Late /\ Fate' = Fate
      BY <2>1, OpenSame, AdmittedSame, EffectSame DEF pool
    <3>2. Lease' = Lease
      BY <1>1, <2>1, <2>3, LeaseIs, LeaseBecomes
    <3>3. UNCHANGED answer
      BY <1>4, <2>3 DEF Begin
    <3> QED BY <3>1, <3>2, <3>3 DEF Unseen
  <2> QED BY <2>2, <2>3
<1>5. CASE Connected(r)
  <2>1. pc[r] = "connecting" /\ UNCHANGED <<txActive, lease, opener, effect>>
    BY <1>5 DEF Connected, ghost
  <2>2. CASE Answers(r, "error") /\ UNCHANGED pool
    <3>1. Contract!Refuse(r)
      BY <1>1, <2>1, <2>2, RefusedSees
    <3> QED BY <3>1 DEF Contract!RequestStep
  <2>3. ASSUME NEW c \in Clients, Send(c, "BEGIN", r), UNCHANGED <<answer, status>> PROVE Unseen
    <3>1. Open' = Open /\ Late' = Late /\ Fate' = Fate
      BY <2>1, <2>3, OpenSame, EffectSame
    <3>2. Lease' = Lease
      BY <1>1, <2>1, LeaseIs, LeaseBecomes DEF lease
    <3>3. Admitted' = Admitted
      BY <1>1, <2>3, AdmittedSend, SessionAssumption DEF Ops
    <3> QED BY <2>3, <3>1, <3>2, <3>3 DEF Unseen
  <2> QED BY <1>5, <2>2, <2>3 DEF Connected
<1>6. ASSUME NEW kind \in {"commit", "rollback"}, NEW op \in Ends, SendEnd(r, kind, op)
      PROVE  Contract!RequestStep(r)
  <2>1. /\ Arrive(r, kind) /\ kind \in Kinds /\ ~Refused(r, kind) /\ pc[r] \in Early
        /\ UNCHANGED <<status, txActive, opener, effect, out>>
    BY <1>1, <1>6 DEF SendEnd, Arrive, ghost
  <2>2. CASE txClient = NoClient \/ ~txActive
    <3>1. Answers(r, "error") /\ UNCHANGED pool
      BY <1>6, <2>1, <2>2 DEF SendEnd, pool
    <3>2. Contract!Refuse(r)
      BY <1>1, <2>1, <3>1, RefusedSees
    <3> QED BY <3>2 DEF Contract!RequestStep
  <2>3. CASE txClient # NoClient /\ txActive
    <3>1. Send(txClient, op, r) /\ UNCHANGED answer /\ op # "STATEMENT"
      BY <1>6, <2>3 DEF SendEnd, Ends
    <3>2. Contract!Admit(r, op)
      BY <2>1, <2>3, <3>1, SentIsAdmitted
    <3> QED BY <3>2 DEF Contract!RequestStep, Contract!Endings, Ends
  <2> QED BY <1>1, <2>2, <2>3
<1>7. CASE QueryInTransaction(r)
  <2>1. /\ Arrive(r, "query") /\ "query" \in Kinds /\ ~Refused(r, "query") /\ pc[r] \in Early
        /\ UNCHANGED <<status, txActive, opener, out>>
    BY <1>1, <1>7 DEF QueryInTransaction, Arrive, session
  <2>2. CASE txClient = NoClient \/ ~txActive
    <3>1. Answers(r, "error") /\ UNCHANGED <<pool, effect>>
      BY <1>7, <2>1, <2>2 DEF QueryInTransaction, pool
    <3>2. Contract!Refuse(r)
      BY <1>1, <2>1, <3>1, RefusedSees
    <3> QED BY <3>2 DEF Contract!RequestStep
  <2>3. CASE txClient # NoClient /\ txActive
    <3>1. /\ Send(txClient, "STATEMENT", r) /\ UNCHANGED answer
          /\ effect' = [effect EXCEPT ![r] = IF EndQueued(txClient) THEN "behind" ELSE @]
      BY <1>7, <2>3 DEF QueryInTransaction
    <3>2. Contract!Admit(r, "STATEMENT")
      BY <2>1, <2>3, <3>1, SentIsAdmitted
    <3> QED BY <3>2 DEF Contract!RequestStep
  <2> QED BY <1>1, <2>2, <2>3
<1> QED BY <1>2, <1>3, <1>4, <1>5, <1>6, <1>7
        DEF RequestStep, CommitTransaction, RollbackTransaction, Ends

(* The auto-rollback goes out once, ahead of no other ending. *)
LEMMA TimeOutSees ==
  ASSUME Ready, ~clash, SessionInv', ~clash', SessionAssumption, NoClientAssumption,
         ExpireTransaction
  PROVE  Contract!TimeOut
<1>1. /\ PoolTyped /\ SessionTyped /\ SentInv /\ Ours /\ SessionTyped' /\ Ours'
      /\ txClient \in Clients \cup {NoClient}
  BY ReadyKnows DEF SessionInv, Calm
<1>2. strays = 0 /\ txTimeout /\ txActive /\ NoEnds /\ txClient # NoClient
  BY <1>1 DEF Ready, OneTimer, ExpireTransaction, NoEnds, Ours
<1>3. /\ Send(txClient, "ROLLBACK", Timer)
      /\ UNCHANGED <<status, txActive, lease, opener, answer, effect>>
  BY <1>2 DEF ExpireTransaction, request, ghost
<1>4. Open' = Open /\ Late' = Late /\ Fate' = Fate
  BY <1>3, OpenSame, EffectSame
<1>5. Lease' = Lease
  BY <1>1, <1>3, LeaseIs, LeaseBecomes DEF lease
<1>6. Admitted' = Admitted \cup {[op |-> "ROLLBACK", by |-> Timer]}
  <2>1. [op |-> "ROLLBACK", by |-> Timer] \in Admittable /\ "ROLLBACK" \in Ops /\ Timer \in Senders
    BY SessionAssumption DEF Admittable, Ends, Ops
  <2> QED BY <1>1, <1>2, <1>3, <2>1, AdmittedSend
<1>7. Open # {} /\ ~Contract!Ending
  BY <1>1, <1>2, OpenIs, EndingIs
<1> QED BY <1>3, <1>4, <1>5, <1>6, <1>7 DEF Contract!TimeOut

LEMMA LapseSees ==
  ASSUME Ready, ~clash, SessionInv', ~clash', SessionAssumption, NoClientAssumption, LeaseLapses
  PROVE  Contract!Lapse \/ Unseen
<1>1. SessionTyped /\ Ours /\ SessionTyped' /\ Ours'
  BY ReadyKnows DEF SessionInv, Calm
<1>2. /\ UNCHANGED <<status, queue, txActive, owner, opener, answer, effect>>
      /\ owner # NoUser /\ ~lapsed /\ lapsed' = TRUE
  BY DEF LeaseLapses, pool, session, request, ghost
<1>3. Open' = Open /\ Admitted' = Admitted /\ Late' = Late /\ Fate' = Fate
  BY <1>2, OpenSame, AdmittedSame, EffectSame
<1>4. CASE txActive
  <2>1. Lease = "live" /\ Lease' = "lapsed"
    BY <1>1, <1>2, <1>4, LeaseIs, LeaseBecomes
  <2> QED BY <1>2, <1>3, <2>1 DEF Contract!Lapse
<1>5. CASE ~txActive
  <2>1. Lease' = Lease
    BY <1>1, <1>2, <1>5, LeaseIs, LeaseBecomes
  <2> QED BY <1>2, <1>3, <2>1 DEF Unseen
<1> QED BY <1>4, <1>5


(* A begin that is answered opens the one transaction, or is refused. *)
LEMMA BeginSees ==
  ASSUME Ready, ~clash, SessionInv', ~clash', SessionAssumption, NoClientAssumption,
         NEW c \in Clients, NEW ok \in BOOLEAN, BeginAnswered(c, ok)
  PROVE  \E r \in Requests : Contract!RequestStep(r)
<1> DEFINE r == Head(queue[c]).by
<1>1. /\ PoolTyped /\ SessionTyped /\ SentInv /\ Ours /\ OnItsWay /\ ~Overlap
      /\ SessionTyped' /\ Ours' /\ Once(Requests) /\ queue \in Queues
  BY ReadyKnows DEF SessionInv, Calm, SentInv, PoolTyped
<1>2. /\ queue[c] # <<>> /\ Pop(c) /\ Serve(c, ok) /\ 1 \in At(c) /\ Head(queue[c]) = queue[c][1]
      /\ r \in Requests /\ Head(queue[c]).op = "BEGIN" /\ UNCHANGED <<txClient, user, effect>>
  BY Answered DEF BeginAnswered, Ready
<1>3. /\ c = txClient /\ ~txActive /\ pc[r] = "waiting" /\ answer[r] = "none"
  BY <1>1, <1>2 DEF OnItsWay, SentInv
<1>4. NoEnds
  BY <1>1, <1>2, BeginsAlone DEF NoEnds
<1>5. Admitted' = Admitted /\ Late' = Late /\ Fate' = Fate
  BY <1>1, <1>2, AdmittedPop, EffectSame
<1>6. Open = {} /\ ~Contract!Ending
  BY <1>1, <1>3, <1>4, OpenIs, EndingIs
<1>7. Contract!Fresh(r)
  <2>1. ASSUME NEW a \in Admitted, a.by = r PROVE FALSE
    <3>1. PICK d \in Clients : \E i \in At(d) : queue[d][i] = a
      BY <1>1, AdmittedSent
    <3>2. PICK i \in At(d) : queue[d][i] = a
      BY <3>1
    <3>3. queue[c][1].by \in Requests /\ queue[c][1].by = queue[d][i].by
      BY <1>2, <2>1, <3>2
    <3>4. c = d /\ 1 = i
      BY <1>1, <1>2, <3>3 DEF Once
    <3>5. a.op # "BEGIN"
      BY DEF Admitted, Ends
    <3> QED BY <1>2, <3>2, <3>4, <3>5
  <2> QED BY <1>3, <2>1 DEF Contract!Fresh
<1> HIDE DEF r
<1>8. CASE ok
  <2>1. /\ txActive' = TRUE /\ owner' = user[r] /\ lapsed' = FALSE /\ Answers(r, "started")
        /\ opener' = [opener EXCEPT ![c] = user[r]]
    BY <1>8 DEF BeginAnswered, ClaimTransaction, r
  <2>2. status'[c] = "T"
    BY <1>1, <1>2, <1>8 DEF Serve, StatusAfter, PoolTyped
  <2>3. TheOne' = [on |-> c, by |-> user[r], failed |-> FALSE]
    <3>1. opener'[txClient'] = user[r] /\ txClient' = c
      BY <1>1, <1>2, <1>3, <2>1 DEF SessionTyped
    <3>2. (status'[txClient'] = "E") = FALSE
      BY <2>2, <3>1
    <3> QED BY <3>1, <3>2 DEF TheOne
  <2>4. Open' = {[on |-> c, by |-> user[r], failed |-> FALSE]}
    BY <1>1, <2>1, <2>3, OpenBecomes
  <2>5. Lease' = "live"
    <3>1. user[r] # NoUser
      BY <1>1, <1>2, SessionAssumption DEF SessionTyped, r
    <3> QED BY <1>1, <2>1, <3>1, LeaseBecomes
  <2>6. Contract!Tell(r, "started")
    BY <2>1 DEF Answers, Contract!Tell
  <2>7. Contract!Open(r)
    BY <1>5, <1>6, <1>7, <2>4, <2>5, <2>6 DEF Contract!Open
  <2> QED BY <1>2, <2>7 DEF Contract!RequestStep, r
<1>9. CASE ~ok
  <2>1. Answers(r, "error") /\ UNCHANGED <<txActive, lease, opener>>
    BY <1>9 DEF BeginAnswered, r
  <2>2. Open' = {} /\ Lease' = "gone" /\ Lease = "gone"
    BY <1>1, <1>3, <2>1, OpenBecomes, LeaseIs, LeaseBecomes
  <2>3. Contract!Tell(r, "error")
    BY <2>1 DEF Answers, Contract!Tell
  <2>4. Contract!Refuse(r)
    BY <1>5, <1>6, <1>7, <2>2, <2>3 DEF Contract!Refuse
  <2> QED BY <1>2, <2>4 DEF Contract!RequestStep, r
<1> QED BY <1>8, <1>9

(* Nothing that was let in before an ending is left when the ending is      *)
(* answered.                                                                *)
LEMMA EndsLast ==
  ASSUME Ready, ~clash, SessionAssumption, NoClientAssumption,
         NEW c \in Clients, 1 \in At(c), queue[c][1].op \in Ends,
         NEW a \in Admitted, a.op = "STATEMENT"
  PROVE  a.by \in Late
<1>1. /\ PoolTyped /\ SessionTyped /\ SentInv /\ Ours /\ OnItsWay /\ WillMeet
  BY ReadyKnows
<1>2. PICK d \in Clients : \E i \in At(d) : queue[d][i] = a
  BY <1>1, AdmittedSent
<1>3. PICK i \in At(d) : queue[d][i] = a
  BY <1>2
<1>4. a.by \in Requests
  BY <1>1, <1>3 DEF SentInv
<1> SUFFICES ASSUME effect[a.by] # "behind" PROVE FALSE
  BY <1>4 DEF Late
<1>5. status[d] # "I" /\ \A j \in At(d) : j < i => queue[d][j].op \notin Ends
  BY <1>1, <1>3 DEF WillMeet
<1>6. d = c
  BY <1>1, <1>5 DEF Ours, OnItsWay
<1>7. i # 1
  BY <1>3, <1>6 DEF Ends
<1>8. 1 < i
  BY <1>7 DEF At
<1> QED BY <1>5, <1>6, <1>8

(* The steps that answer an ending have this in common. *)
LEMMA EndSees ==
  ASSUME Ready, ~clash, SessionInv', ~clash', SessionAssumption, NoClientAssumption,
         NEW c \in Clients, NEW ok \in BOOLEAN, EndAnswered(c, ok) \/ Expired(c, ok)
  PROVE  /\ Head(queue[c]).op \in Ends /\ Head(queue[c]) \in Admitted
         /\ Head(queue[c]) = [op |-> Head(queue[c]).op, by |-> Head(queue[c]).by]
         /\ \A a \in Admitted : a.op = "STATEMENT" => a.by \in Late
         /\ Admitted' = Admitted \ {Head(queue[c])}
         /\ Open' = {} /\ Lease' = "gone"
         /\ txActive <=> txClient # NoClient
         /\ txActive => c = txClient
<1> DEFINE h == Head(queue[c])
<1>1. /\ PoolTyped /\ SessionTyped /\ SentInv /\ Ours /\ OnItsWay /\ Calm
      /\ SessionTyped' /\ Ours' /\ Once(Requests) /\ Once({Timer})
  BY ReadyKnows DEF SessionInv, Calm, SentInv, Ready, OneTimer
<1>2. /\ queue[c] # <<>> /\ Pop(c) /\ Serve(c, ok) /\ 1 \in At(c) /\ h = queue[c][1] /\ h \in Entries
      /\ EndSession
  BY Answered DEF EndAnswered, Expired, Ready
<1>3. h.op \in Ends /\ h.by \in Requests \cup {Timer} /\ h = [op |-> h.op, by |-> h.by]
  <2>1. CASE EndAnswered(c, ok)
    BY <1>2, <2>1 DEF EndAnswered, Entries
  <2>2. CASE Expired(c, ok)
    BY <1>2, <2>2, ExpiredEnds DEF Entries, Ready, Ends
  <2> QED BY <2>1, <2>2
<1>4. txClient = NoClient \/ (c = txClient /\ txActive)
  BY <1>1, <1>2, <1>3 DEF OnItsWay
<1>5. /\ txActive <=> txClient # NoClient
      /\ txActive => c = txClient
  BY <1>1, <1>4 DEF Ours
<1>6. txActive' = FALSE
  BY <1>5, <1>2, <1>1 DEF EndSession, SessionTyped
<1>7. Open' = {} /\ Lease' = "gone"
  BY <1>1, <1>6, OpenBecomes, LeaseBecomes
<1>8. h \in Admitted /\ Admitted' = Admitted \ {h}
  <2>1. h \in Admittable
    BY <1>3 DEF Admittable
  <2>2. CASE h.by \in Requests
    BY <1>1, <1>2, <2>1, <2>2, AdmittedPop
  <2>3. CASE h.by = Timer
    <3>1. Head(queue[c]).by \in {Timer}
      BY <2>3
    <3> QED BY <1>1, <1>2, <2>1, <3>1, AdmittedPop
  <2> QED BY <1>3, <2>2, <2>3
<1>9. \A a \in Admitted : a.op = "STATEMENT" => a.by \in Late
  BY <1>2, <1>3, EndsLast
<1> QED BY <1>3, <1>5, <1>7, <1>8, <1>9

LEMMA EndAnsweredSees ==
  ASSUME Ready, ~clash, SessionInv', ~clash', SessionAssumption, NoClientAssumption,
         NEW c \in Clients, NEW ok \in BOOLEAN, EndAnswered(c, ok)
  PROVE  Contract!End(Head(queue[c]).by, Head(queue[c]).op, ok)
<1> DEFINE r  == Head(queue[c]).by
           op == Head(queue[c]).op
<1>1. /\ PoolTyped /\ SessionTyped /\ Ours /\ NotYet /\ r \in Requests /\ r # Timer
      /\ 1 \in At(c) /\ Head(queue[c]) = queue[c][1]
      /\ effect \in [Requests -> Effects] /\ answer \in [Requests -> Replies]
  BY ReadyKnows, Answered DEF EndAnswered, SessionTyped, Ready
<1>2. /\ op \in Ends /\ [op |-> op, by |-> r] \in Admitted
      /\ \A a \in Admitted : a.op = "STATEMENT" => a.by \in Late
      /\ Admitted' = Admitted \ {[op |-> op, by |-> r]}
      /\ Open' = {} /\ Lease' = "gone"
      /\ txActive <=> txClient # NoClient
      /\ txActive => c = txClient
  BY EndSees
<1>3. effect[r] = "none" /\ effect' = [effect EXCEPT ![r] = EndEffect(c, op, ok)]
  <2>1. op # "STATEMENT"
    BY <1>2 DEF Ends
  <2>2. effect[r] \in Undone(op)
    BY <1>1 DEF NotYet
  <2> QED BY <2>1, <2>2 DEF EndAnswered, Undone
<1> HIDE DEF r, op
<1>4. Late' = Late
  <2>1. EndEffect(c, op, ok) # "behind"
    BY DEF EndEffect
  <2> QED BY <1>1, <1>3, <2>1 DEF Late
<1>5. Fate' = [Fate EXCEPT ![r] = EndEffect(c, op, ok)]
  <2>1. EndEffect(c, op, ok) \in {"nothing", "discarded", "aborted", "saved"}
    BY DEF EndEffect
  <2> QED BY <1>1, <1>3, <2>1 DEF Fate
<1>6. Contract!Learns(r, op, ok)
  <2>1. CASE txClient = NoClient
    <3>1. Open = {} /\ EndEffect(c, op, ok) = "nothing"
      BY <1>1, <1>2, <2>1, ReadyKnows, OpenIs DEF Ours, EndEffect
    <3>2. Answers(r, "error")
      BY <2>1 DEF EndAnswered, r
    <3>3. Contract!Tell(r, "error")
      BY <3>2 DEF Answers, Contract!Tell
    <3> QED BY <1>5, <3>1, <3>3 DEF Contract!Learns
  <2>2. CASE txClient # NoClient
    <3>1. Open = {TheOne} /\ status[c] # "I" /\ TheOne.failed = (status[c] = "E")
      BY <1>1, <1>2, <2>2, OpenIs DEF Ours, TheOne
    <3>2. Contract!Became(TheOne, op, ok) = EndEffect(c, op, ok)
      <4>1. CASE status[c] = "E"
        BY <3>1, <4>1 DEF EndEffect, Contract!Became
      <4>2. CASE status[c] # "E"
        BY <3>1, <4>2 DEF EndEffect, Contract!Became
      <4> QED BY <4>1, <4>2
    <3>3. \E t \in Open : Fate' = [Fate EXCEPT ![r] = Contract!Became(t, op, ok)]
      BY <1>5, <3>1, <3>2
    <3>4. Answers(r, IF ~ok THEN "error" ELSE IF op = "COMMIT" THEN "committed" ELSE "rolled back")
      <4>1. CASE ok
        BY <2>2, <4>1 DEF EndAnswered, r, op
      <4>2. CASE ~ok
        BY <2>2, <4>2 DEF EndAnswered, r, op
      <4> QED BY <4>1, <4>2
    <3>5. Contract!Tell(r, IF ~ok THEN "error" ELSE IF op = "COMMIT" THEN "committed" ELSE "rolled back")
      BY <3>4 DEF Answers, Contract!Tell
    <3>6. Open # {}
      BY <3>1
    <3> QED BY <3>3, <3>5, <3>6 DEF Contract!Learns
  <2> QED BY <2>1, <2>2
<1> QED BY <1>1, <1>2, <1>4, <1>6 DEF Contract!End, r, op

LEMMA ExpiredSees ==
  ASSUME Ready, ~clash, SessionInv', ~clash', SessionAssumption, NoClientAssumption,
         NEW c \in Clients, NEW ok \in BOOLEAN, Expired(c, ok)
  PROVE  Contract!End(Timer, "ROLLBACK", ok)
<1>1. Head(queue[c]).op = "ROLLBACK" /\ Head(queue[c]).by = Timer
  BY ExpiredEnds DEF Ready
<1>2. UNCHANGED <<answer, effect>>
  BY DEF Expired, request
<1>3. /\ [op |-> "ROLLBACK", by |-> Timer] \in Admitted
      /\ \A a \in Admitted : a.op = "STATEMENT" => a.by \in Late
      /\ Admitted' = Admitted \ {[op |-> "ROLLBACK", by |-> Timer]}
      /\ Open' = {} /\ Lease' = "gone"
  BY <1>1, EndSees
<1> QED BY <1>2, <1>3, EffectSame DEF Contract!End


(* A query answered ran in the transaction, or had been let in behind an    *)
(* ending.                                                                  *)
LEMMA QueryAnsweredSees ==
  ASSUME Ready, ~clash, SessionInv', ~clash', SessionAssumption, NoClientAssumption,
         NEW c \in Clients, NEW ok \in BOOLEAN, QueryAnswered(c, ok)
  PROVE  \E r \in Requests : Contract!RequestStep(r)
<1> DEFINE r == Head(queue[c]).by
<1>1. /\ PoolTyped /\ SessionTyped /\ SentInv /\ Ours /\ WillMeet /\ NotYet /\ RunsOutside
      /\ SessionTyped' /\ Ours' /\ Once(Requests)
      /\ effect \in [Requests -> Effects] /\ opener \in [Clients -> Users \cup {NoUser}]
      /\ status \in [Clients -> {"I", "T", "E"}]
  BY ReadyKnows DEF SessionInv, Calm, SentInv, Ready, SessionTyped, PoolTyped
<1>2. /\ queue[c] # <<>> /\ Pop(c) /\ Serve(c, ok) /\ 1 \in At(c) /\ Head(queue[c]) = queue[c][1]
      /\ Head(queue[c]) \in Entries
      /\ r \in Requests /\ Head(queue[c]).op = "STATEMENT"
      /\ UNCHANGED <<txClient, txActive, owner, user, opener>>
  BY Answered DEF QueryAnswered, Ready, session
<1>3. /\ effect' = [effect EXCEPT ![r] =
                      IF status[c] # "I" THEN "inside" ELSE IF @ = "behind" THEN @ ELSE "outside"]
      /\ lapsed' = (lapsed /\ ~ok)
      /\ Answers(r, IF ok THEN "in transaction" ELSE "error")
  BY DEF QueryAnswered
<1>4. effect[r] \in {"none", "behind"}
  BY <1>1, <1>2 DEF NotYet, Undone
<1>5. /\ effect[r] = "behind" => status[c] = "I"
      /\ effect[r] # "behind" => status[c] # "I" /\ c = txClient /\ txActive
  <2>1. effect[r] = "behind" => \/ \E j \in At(c) : j < 1 /\ queue[c][j].op \in Ends
                                \/ status[c] = "I"
    BY <1>1, <1>2 DEF RunsOutside
  <2>2. ~ \E j \in At(c) : j < 1
    BY DEF At
  <2>3. effect[r] # "behind" => status[c] # "I"
    BY <1>1, <1>2 DEF WillMeet
  <2> QED BY <1>1, <2>1, <2>2, <2>3 DEF Ours
<1>6. [op |-> "STATEMENT", by |-> r] \in Admitted /\ Admitted' = Admitted \ {[op |-> "STATEMENT", by |-> r]}
  <2>1. Head(queue[c]) = [op |-> "STATEMENT", by |-> r]
    BY <1>2 DEF Entries
  <2>2. Head(queue[c]) \in Admittable
    BY <1>2, <2>1 DEF Admittable
  <2> QED BY <1>1, <1>2, <2>1, <2>2, AdmittedPop
<1> HIDE DEF r
<1>7. Late' = Late /\ Fate' = Fate /\ (r \in Late <=> effect[r] = "behind")
  <2>1. CASE effect[r] = "behind"
    <3>1. effect' = effect
      BY <1>1, <1>3, <1>5, <2>1
    <3> QED BY <1>2, <2>1, <3>1, EffectSame DEF Late, r
  <2>2. CASE effect[r] = "none"
    <3>1. effect' = [effect EXCEPT ![r] = "inside"]
      BY <1>3, <1>5, <2>2
    <3> QED BY <1>1, <2>2, <3>1 DEF Late, Fate
  <2> QED BY <1>4, <2>1, <2>2
<1>8. IF r \in Late
        THEN Open' = Open
        ELSE \E t \in Open : /\ ok => ~t.failed
                             /\ Open' = {[t EXCEPT !.failed = @ \/ ~ok]}
  <2>1. CASE r \in Late
    <3>1. status' = status
      BY <1>1, <1>2, <1>5, <1>7, <2>1 DEF Serve, StatusAfter
    <3> QED BY <1>2, <2>1, <3>1, OpenSame
  <2>2. CASE r \notin Late
    <3>1. status[c] # "I" /\ c = txClient /\ txActive
      BY <1>5, <1>7, <2>2
    <3>2. Open = {TheOne} /\ Open' = {TheOne'}
      BY <1>1, <1>2, <3>1, OpenIs, OpenBecomes
    <3>3. TheOne = [on |-> c, by |-> opener[c], failed |-> status[c] = "E"]
      BY <3>1 DEF TheOne
    <3>4. TheOne' = [on |-> c, by |-> opener[c], failed |-> status'[c] = "E"]
      BY <1>2, <3>1 DEF TheOne
    <3>5. status'[c] = (IF ok THEN status[c] ELSE "E") /\ (ok => status[c] # "E")
      BY <1>1, <1>2, <3>1 DEF Serve, StatusAfter, Accepts
    <3>6. ok => ~TheOne.failed
      BY <3>3, <3>5
    <3>7. [TheOne EXCEPT !.failed = @ \/ ~ok] = TheOne'
      <4> DEFINE f == TheOne.failed \/ ~ok
      <4>1. f = (status'[c] = "E")
        <5>1. CASE ok
          BY <3>3, <3>5, <5>1
        <5>2. CASE ~ok
          BY <3>5, <5>2
        <5> QED BY <5>1, <5>2
      <4> HIDE DEF f
      <4>2. [TheOne EXCEPT !.failed = f] = [on |-> c, by |-> opener[c], failed |-> f]
        BY <3>3
      <4>3. [TheOne EXCEPT !.failed = f] = TheOne'
        BY <3>4, <4>1, <4>2
      <4> QED BY <4>3 DEF f
    <3> QED BY <2>2, <3>2, <3>6, <3>7
  <2> QED BY <2>1, <2>2
<1>9. Lease' = IF ok /\ Lease = "lapsed" THEN "live" ELSE Lease
  <2>1. CASE ok
    BY <1>1, <1>2, <1>3, <2>1, LeaseIs, LeaseBecomes
  <2>2. CASE ~ok
    <3>1. lapsed' = (lapsed /\ TRUE)
      BY <1>3, <2>2
    <3> QED BY <1>1, <1>2, <2>2, <3>1, LeaseIs, LeaseBecomes
  <2> QED BY <2>1, <2>2
<1>10. Contract!Tell(r, IF ok THEN "in transaction" ELSE "error")
  BY <1>3 DEF Answers, Contract!Tell
<1>11. Contract!Ran(r, ok)
  BY <1>6, <1>7, <1>8, <1>9, <1>10 DEF Contract!Ran
<1> QED BY <1>2, <1>11 DEF Contract!RequestStep, r

LEMMA ContractInit ==
  ASSUME Init, SessionAssumption, NoClientAssumption PROVE Contract!Init
<1>1. Open = {} /\ Late = {} /\ Fate = [r \in Requests |-> "none"]
  BY DEF Init, PoolInit, Open, Late, Fate
<1>2. Lease = "gone"
  BY <1>1 DEF Lease
<1>3. Admitted = {}
  BY DEF Init, PoolInit, Admitted, Sent
<1> QED BY <1>1, <1>2, <1>3 DEF Init, Contract!Init

(* Every step is one of the contract's, or nothing the users see. *)
LEMMA ContractNext ==
  ASSUME Ready, SessionInv', SessionAssumption, NoClientAssumption, [Next]_vars
  PROVE  [Contract!Next]_(Contract!vars)
<1>1. CASE clash'
  BY <1>1 DEF Contract!Next
<1>2. CASE UNCHANGED vars
  <2>1. UNCHANGED <<status, queue, owner, lapsed, opener, effect, user, answer, clash>>
    BY <1>2 DEF vars, pool, session, lease, request, ghost
  <2>2. Open' = Open /\ Admitted' = Admitted /\ Late' = Late /\ Fate' = Fate
    BY <2>1, OpenSame, AdmittedSame, EffectSame
  <2>3. Lease' = Lease
    BY <2>1, <2>2 DEF Lease
  <2> QED BY <2>1, <2>2, <2>3 DEF Contract!vars
<1>3. CASE ~clash' /\ Next
  <2>1. ~clash
    BY <1>3, StaysCalm
  <2>2. UNCHANGED user
    BY <1>3 DEF Next, RequestStep, Respond, Busy, Status, Begin, Connected, CommitTransaction,
           RollbackTransaction, SendEnd, QueryInTransaction, BeginAnswered, EndAnswered, Expired,
           QueryAnswered, ExpireTransaction, LeaseLapses, request
  <2>3. UNCHANGED clash
    BY <1>3, <2>1 DEF Ready, SessionInv, SessionTyped
  <2>4. ASSUME Unseen PROVE UNCHANGED Contract!vars
    BY <2>2, <2>3, <2>4 DEF Unseen, Contract!vars
  <2>5. ASSUME NEW r \in Requests, RequestStep(r) PROVE Contract!Keep \/ Unseen
    BY <1>3, <2>1, <2>2, <2>5, RequestSees DEF Contract!Keep
  <2>6. ASSUME NEW c \in Clients, NEW ok \in BOOLEAN, BeginAnswered(c, ok) \/ QueryAnswered(c, ok)
        PROVE  Contract!Keep
    BY <1>3, <2>1, <2>2, <2>6, BeginSees, QueryAnsweredSees DEF Contract!Keep
  <2>7. ASSUME NEW c \in Clients, NEW ok \in BOOLEAN, EndAnswered(c, ok) PROVE Contract!Keep
    <3>1. Head(queue[c]).by \in Requests /\ Head(queue[c]).op \in Contract!Endings
      BY <2>7 DEF EndAnswered, Ends, Contract!Endings
    <3>2. Contract!End(Head(queue[c]).by, Head(queue[c]).op, ok)
      BY <1>3, <2>1, <2>7, EndAnsweredSees
    <3> QED BY <1>3, <2>2, <3>1, <3>2 DEF Contract!Keep
  <2>8. ASSUME NEW c \in Clients, NEW ok \in BOOLEAN, Expired(c, ok) PROVE Contract!Keep
    <3>1. Contract!End(Timer, "ROLLBACK", ok) /\ "ROLLBACK" \in Contract!Endings
      BY <1>3, <2>1, <2>8, ExpiredSees DEF Contract!Endings
    <3> QED BY <1>3, <2>2, <3>1 DEF Contract!Keep
  <2>9. ASSUME ExpireTransaction \/ LeaseLapses PROVE Contract!Keep \/ Unseen
    BY <1>3, <2>1, <2>2, <2>9, TimeOutSees, LapseSees DEF Contract!Keep
  <2>10. Contract!Keep \/ Unseen
    BY <1>3, <2>5, <2>6, <2>7, <2>8, <2>9 DEF Next, Respond, Contract!Keep
  <2> QED BY <2>1, <2>4, <2>10 DEF Contract!Next
<1> QED BY <1>1, <1>2, <1>3

LEMMA ReadyInit == ASSUME Init, SessionAssumption, NoClientAssumption PROVE Ready
<1>1. \A c \in Clients : At(c) = {}
  BY DEF Init, PoolInit, At
<1>2. NotYet /\ RunsOutside
  BY <1>1 DEF Init, NotYet, RunsOutside
<1>3. OneTimer
  BY <1>1 DEF Init, OneTimer, Once
<1> QED BY <1>2, <1>3, SessionInit DEF Ready

LEMMA ReadyNext ==
  ASSUME Ready, SessionAssumption, NoClientAssumption, [Next]_vars PROVE Ready'
BY SessionNext, NotYetStep, OneTimerStep, RunsOutsideStep DEF Ready

(* The users who share a connection see one transaction at a time, whoever  *)
(* begins, ends, queries, waits or lets its timer run out: TransactionSession *)
(* implements OneTransaction (beginTransaction, commitTransaction,          *)
(* rollbackTransaction, queryInTransaction, expireTransaction and the       *)
(* route's owner).                                                          *)
THEOREM OneTransactionAtATime == Spec => OneAtATime
<1>1. Init => Ready /\ Contract!Init
  BY ReadyInit, ContractInit, SessionAssumption, NoClientAssumption
<1>2. Ready /\ [Next]_vars => Ready'
  BY ReadyNext, SessionAssumption, NoClientAssumption
<1>3. Ready /\ Ready' /\ [Next]_vars => [Contract!Next]_(Contract!vars)
  BY ContractNext, SessionAssumption, NoClientAssumption DEF Ready
<1> QED BY <1>1, <1>2, <1>3, PTL DEF Spec, OneAtATime, Contract!Spec

-----------------------------------------------------------------------------
(* Scripts on the same clients *)

ScopesTyped ==
  /\ txClient \in Clients \cup {NoClient}
  /\ spc \in [Scripts -> {"running", "waiting", "ending", "rollingBack", "answered"}]
  /\ openQueryScopes \in [Scripts -> SUBSET Clients] /\ todo \in [Scripts -> SUBSET Clients]
  /\ leftBy \in [Clients -> Scripts \cup {NoScript}]

(* A script has a statement on its way while it waits for it, and while the *)
(* ender does: then it is its ROLLBACK.                                     *)
ScriptsSent ==
  /\ \A c \in Clients : \A i \in At(c) : queue[c][i].by \in Scripts =>
       /\ spc[queue[c][i].by] \in {"waiting", "rollingBack"}
       /\ spc[queue[c][i].by] = "rollingBack" => queue[c][i].op = "ROLLBACK"
  /\ Once(Scripts)

(* Where a transaction a script has left open is taken care of: on record   *)
(* until the ender comes, then to be tried or being rolled back.            *)
LeftIsKnown == \A c \in Clients, s \in Scripts : leftBy[c] = s =>
  /\ status[c] # "I" /\ spc[s] # "answered" /\ c \in openQueryScopes[s]
  /\ spc[s] = "ending" => c \in todo[s]
  /\ spc[s] = "rollingBack" => c \in todo[s] \/ \E i \in At(c) : queue[c][i].by = s

ScopesInv == PoolTyped /\ ScopesTyped /\ ScriptsSent /\ LeftIsKnown

(* What a step of the session does to the pool. *)
Moves ==
  \/ UNCHANGED queue
  \/ \E c \in Clients, op \in Ops, by \in Requests \cup {Timer} : Send(c, op, by)
  \/ \E c \in Clients : queue[c] # <<>> /\ Head(queue[c]).by \in Requests \cup {Timer} /\ Pop(c)

LEMMA MovesTyped ==
  ASSUME PoolTyped, Moves, SessionAssumption PROVE queue' \in Queues
<1>1. CASE UNCHANGED queue
  BY <1>1 DEF PoolTyped
<1>2. ASSUME NEW c \in Clients, NEW op \in Ops, NEW by \in Requests \cup {Timer}, Send(c, op, by)
      PROVE  queue' \in Queues
  <2>1. by \in Senders
    BY SessionAssumption
  <2> QED BY <1>2, <2>1, SendEffect DEF PoolTyped
<1>3. ASSUME NEW c \in Clients, queue[c] # <<>>, Pop(c) PROVE queue' \in Queues
  BY <1>3, PopEffect DEF PoolTyped
<1> QED BY <1>1, <1>2, <1>3 DEF Moves

LEMMA SessionMoves ==
  ASSUME PoolTyped, txClient \in Clients \cup {NoClient}, SessionAssumption, Next
  PROVE  PoolTyped' /\ txClient' \in Clients \cup {NoClient} /\ Moves
<1> SUFFICES /\ out' \in [Clients -> BOOLEAN] /\ status' \in [Clients -> {"I", "T", "E"}]
             /\ txClient' \in Clients \cup {NoClient} /\ Moves
  BY MovesTyped DEF PoolTyped
<1>0. out \in [Clients -> BOOLEAN] /\ status \in [Clients -> {"I", "T", "E"}]
  BY DEF PoolTyped
<1>1. ASSUME NEW r \in Requests, RequestStep(r)
      PROVE  /\ out' \in [Clients -> BOOLEAN] /\ status' = status
             /\ txClient' \in Clients \cup {NoClient} /\ Moves
  <2>1. CASE Busy(r) \/ Status(r) \/ Begin(r)
    BY <1>0, <2>1 DEF Busy, Status, Begin, pool, session, Moves
  <2>2. CASE Connected(r)
    BY <1>0, <2>2 DEF Connected, Checkout, pool, Moves, Ops
  <2>3. CASE CommitTransaction(r) \/ RollbackTransaction(r)
    BY <1>0, <2>3 DEF CommitTransaction, RollbackTransaction, SendEnd, Moves, Ops
  <2>4. CASE QueryInTransaction(r)
    BY <1>0, <2>4 DEF QueryInTransaction, session, Moves, Ops
  <2> QED BY <1>1, <2>1, <2>2, <2>3, <2>4 DEF RequestStep
<1>2. ASSUME NEW c \in Clients, NEW ok \in BOOLEAN,
             \/ BeginAnswered(c, ok) \/ EndAnswered(c, ok)
             \/ Expired(c, ok) \/ QueryAnswered(c, ok)
      PROVE  /\ out' \in [Clients -> BOOLEAN] /\ status' \in [Clients -> {"I", "T", "E"}]
             /\ txClient' \in Clients \cup {NoClient} /\ Moves
  <2>1. Serve(c, ok) /\ Pop(c) /\ Head(queue[c]).by \in Requests \cup {Timer}
    BY <1>2 DEF BeginAnswered, EndAnswered, Expired, QueryAnswered
  <2>2. Moves /\ status' \in [Clients -> {"I", "T", "E"}]
    BY <1>0, <2>1 DEF Moves, Serve, StatusAfter
  <2>3. \/ EndSession \/ UNCHANGED <<out, txClient>>
    BY <1>2 DEF BeginAnswered, EndAnswered, Expired, QueryAnswered, session
  <2> QED BY <1>0, <2>2, <2>3 DEF EndSession, Release
<1>3. ASSUME ExpireTransaction \/ LeaseLapses
      PROVE  /\ out' \in [Clients -> BOOLEAN] /\ status' = status
             /\ txClient' \in Clients \cup {NoClient} /\ Moves
  BY <1>0, <1>3 DEF ExpireTransaction, LeaseLapses, pool, session, Moves, Ops
<1> QED BY <1>0, <1>1, <1>2, <1>3 DEF Next, Respond

(* Such a step leaves alone what scripts have on their way. *)
LEMMA MovesSpare ==
  ASSUME PoolTyped, SessionAssumption, ScriptsAssumption, Moves, Once(Scripts)
  PROVE  /\ Once(Scripts)'
         /\ \A c \in Clients : \A i \in At(c)' : queue'[c][i].by \in Scripts =>
              \E j \in At(c) : queue[c][j] = queue'[c][i]
         /\ \A c \in Clients, s \in Scripts :
              (\E i \in At(c) : queue[c][i].by = s) => \E i \in At(c)' : queue'[c][i].by = s
<1>0. queue \in Queues /\ \A c \in Clients : Len(queue[c]) \in Nat
  BY DEF PoolTyped, Queues
<1>1. CASE UNCHANGED queue
  BY <1>1 DEF Once, At
<1>2. ASSUME NEW c \in Clients, NEW op \in Ops, NEW by \in Requests \cup {Timer}, Send(c, op, by)
      PROVE  /\ Once(Scripts)'
             /\ \A d \in Clients : \A i \in At(d)' : queue'[d][i].by \in Scripts =>
                  \E j \in At(d) : queue[d][j] = queue'[d][i]
             /\ \A d \in Clients, s \in Scripts :
                  (\E i \in At(d) : queue[d][i].by = s) => \E i \in At(d)' : queue'[d][i].by = s
  <2>1. by \in Senders /\ by \notin Scripts
    BY SessionAssumption, ScriptsAssumption
  <2>2. Once(Scripts)'
    BY <1>0, <1>2, <2>1, SendOnce
  <2>3. ASSUME NEW d \in Clients, NEW i \in At(d)', queue'[d][i].by \in Scripts
        PROVE  \E j \in At(d) : queue[d][j] = queue'[d][i]
    <3>1. \/ i \in At(d) /\ queue'[d][i] = queue[d][i]
          \/ d = c /\ queue'[d][i] = [op |-> op, by |-> by]
      BY <1>0, <1>2, <2>1, SendEntries
    <3>2. queue'[d][i] # [op |-> op, by |-> by]
      BY <2>1, <2>3
    <3> QED BY <3>1, <3>2
  <2>4. ASSUME NEW d \in Clients, NEW i \in At(d)
        PROVE  i \in At(d)' /\ queue'[d][i] = queue[d][i]
    BY <1>0, <1>2, <2>1, SendStays
  <2> QED BY <2>2, <2>3, <2>4
<1>3. ASSUME NEW c \in Clients, queue[c] # <<>>, Head(queue[c]).by \in Requests \cup {Timer}, Pop(c)
      PROVE  /\ Once(Scripts)'
             /\ \A d \in Clients : \A i \in At(d)' : queue'[d][i].by \in Scripts =>
                  \E j \in At(d) : queue[d][j] = queue'[d][i]
             /\ \A d \in Clients, s \in Scripts :
                  (\E i \in At(d) : queue[d][i].by = s) => \E i \in At(d)' : queue'[d][i].by = s
  <2>1. Once(Scripts)'
    BY <1>0, <1>3, PopOnce
  <2>2. \A d \in Clients : \A i \in At(d)' :
          Before(c, d, i) \in At(d) /\ queue'[d][i] = queue[d][Before(c, d, i)]
    BY <1>0, <1>3, PopEntries
  <2>3. Head(queue[c]).by \notin Scripts
    BY <1>3, ScriptsAssumption
  <2>4. ASSUME NEW d \in Clients, NEW i \in At(d), queue[d][i].by \in Scripts
        PROVE  \E j \in At(d)' : queue'[d][j] = queue[d][i]
    BY <1>0, <1>3, <2>3, <2>4, PopStays
  <2> QED BY <2>1, <2>2, <2>4
<1> QED BY <1>1, <1>2, <1>3 DEF Moves

LEMMA SessionStepKeeps ==
  ASSUME ScopesInv, SessionAssumption, ScriptsAssumption, SessionStep
  PROVE  ScopesInv'
<1>1. PoolTyped /\ ScopesTyped /\ ScriptsSent /\ LeftIsKnown
  BY DEF ScopesInv
<1>2. /\ Next /\ UNCHANGED <<spc, openQueryScopes, todo>>
      /\ leftBy' = [c \in Clients |-> IF status'[c] = "I" THEN NoScript ELSE leftBy[c]]
  BY DEF SessionStep, scopes
<1>3. PoolTyped' /\ txClient' \in Clients \cup {NoClient} /\ Moves
  BY <1>1, <1>2, SessionMoves DEF ScopesTyped
<1>4. /\ Once(Scripts)'
      /\ \A c \in Clients : \A i \in At(c)' : queue'[c][i].by \in Scripts =>
           \E j \in At(c) : queue[c][j] = queue'[c][i]
      /\ \A c \in Clients, s \in Scripts :
           (\E i \in At(c) : queue[c][i].by = s) => \E i \in At(c)' : queue'[c][i].by = s
  BY <1>1, <1>3, MovesSpare DEF ScriptsSent
<1>5. ScopesTyped'
  BY <1>1, <1>2, <1>3 DEF ScopesTyped
<1>6. ScriptsSent'
  BY <1>1, <1>2, <1>4 DEF ScriptsSent
<1>7. LeftIsKnown'
  BY <1>1, <1>2, <1>4, ScriptsAssumption DEF LeftIsKnown
<1> QED BY <1>3, <1>5, <1>6, <1>7 DEF ScopesInv

(* A script sends a statement, or its ender the rollback of one client: the *)
(* one statement it has on its way.                                         *)
LEMMA ScriptSends ==
  ASSUME ScopesInv, ScriptsAssumption, NEW s \in Scripts, spc[s] \in {"running", "ending"},
         NEW c \in Clients, NEW op \in Ops, Send(c, op, s), NEW l \in {"waiting", "rollingBack"},
         SGoto(s, l), l = "rollingBack" => op = "ROLLBACK"
  PROVE  queue' \in Queues /\ ScriptsSent'
<1>1. /\ queue \in Queues /\ s \in Senders /\ ScriptsSent
      /\ spc \in [Scripts -> {"running", "waiting", "ending", "rollingBack", "answered"}]
  BY ScriptsAssumption DEF ScopesInv, PoolTyped, ScopesTyped
<1>2. Silent(s)
  BY <1>1 DEF ScriptsSent, Silent
<1>3. queue' \in Queues /\ Once(Scripts)'
  BY <1>1, <1>2, SendEffect, SendOnce DEF ScriptsSent
<1>4. spc'[s] = l /\ \A t \in Scripts : t # s => spc'[t] = spc[t]
  BY <1>1 DEF SGoto
<1>5. ASSUME NEW d \in Clients, NEW i \in At(d)', queue'[d][i].by \in Scripts
      PROVE  /\ spc'[queue'[d][i].by] \in {"waiting", "rollingBack"}
             /\ spc'[queue'[d][i].by] = "rollingBack" => queue'[d][i].op = "ROLLBACK"
  <2>1. CASE i \in At(d) /\ queue'[d][i] = queue[d][i]
    BY <1>1, <1>2, <1>4, <1>5, <2>1 DEF ScriptsSent, Silent
  <2>2. CASE queue'[d][i] = [op |-> op, by |-> s]
    BY <1>4, <2>2
  <2> QED BY <1>1, <2>1, <2>2, SendEntries
<1> QED BY <1>3, <1>5 DEF ScriptsSent

(* A script's statement, or its ender's, is answered, and it moves on. *)
LEMMA ScriptAnswered ==
  ASSUME ScopesInv, NEW c \in Clients, queue[c] # <<>>, Pop(c), Head(queue[c]).by \in Scripts,
         NEW l \in {"running", "ending"}, SGoto(Head(queue[c]).by, l)
  PROVE  queue' \in Queues /\ ScriptsSent'
<1> DEFINE s == Head(queue[c]).by
<1>1. /\ queue \in Queues /\ ScriptsSent
      /\ spc \in [Scripts -> {"running", "waiting", "ending", "rollingBack", "answered"}]
  BY DEF ScopesInv, PoolTyped, ScopesTyped
<1>2. /\ queue' \in Queues /\ Once(Scripts)'
      /\ \A d \in Clients : \A k \in At(d)' : queue'[d][k].by # s
  BY <1>1, PopEffect, PopOnce DEF ScriptsSent
<1>3. \A t \in Scripts : t # s => spc'[t] = spc[t]
  BY <1>1 DEF SGoto
<1> HIDE DEF s
<1>4. ASSUME NEW d \in Clients, NEW i \in At(d)', queue'[d][i].by \in Scripts
      PROVE  /\ spc'[queue'[d][i].by] \in {"waiting", "rollingBack"}
             /\ spc'[queue'[d][i].by] = "rollingBack" => queue'[d][i].op = "ROLLBACK"
  <2>1. Before(c, d, i) \in At(d) /\ queue'[d][i] = queue[d][Before(c, d, i)]
    BY <1>1, PopEntries
  <2> QED BY <1>1, <1>2, <1>3, <1>4, <2>1 DEF ScriptsSent
<1> QED BY <1>2, <1>4 DEF ScriptsSent

LEMMA RunStatementKeeps ==
  ASSUME ScopesInv, ScriptsAssumption, NEW s \in Scripts, RunStatement(s)
  PROVE  ScopesInv'
<1>1. /\ PoolTyped /\ ScopesTyped /\ ScriptsSent /\ LeftIsKnown /\ spc[s] = "running"
      /\ spc \in [Scripts -> {"running", "waiting", "ending", "rollingBack", "answered"}]
  BY DEF ScopesInv, RunStatement, ScopesTyped
<1>2. UNCHANGED <<txClient, openQueryScopes, todo, leftBy>>
  BY DEF RunStatement, session
<1>3. ASSUME NEW c \in Clients, NEW op \in Ops,
             Checkout(c), Send(c, op, s), SGoto(s, "waiting"), UNCHANGED status
      PROVE  ScopesInv'
  <2>1. queue' \in Queues /\ ScriptsSent'
    BY <1>1, <1>3, ScriptSends
  <2>2. PoolTyped'
    BY <1>1, <1>3, <2>1 DEF PoolTyped, Checkout
  <2>3. ScopesTyped'
    BY <1>1, <1>2, <1>3 DEF ScopesTyped, SGoto
  <2>4. /\ \A t \in Scripts : t # s => spc'[t] = spc[t]
        /\ spc'[s] = "waiting"
    BY <1>1, <1>3 DEF SGoto
  <2>5. ASSUME NEW d \in Clients, NEW i \in At(d)
        PROVE  i \in At(d)' /\ queue'[d][i] = queue[d][i]
    <3>1. queue \in Queues /\ s \in Senders
      BY <1>1, ScriptsAssumption DEF PoolTyped
    <3> QED BY <1>3, <3>1, SendStays
  <2>6. LeftIsKnown'
    BY <1>1, <1>2, <1>3, <2>4, <2>5 DEF LeftIsKnown
  <2> QED BY <2>1, <2>2, <2>3, <2>6 DEF ScopesInv
<1>4. ASSUME UNCHANGED <<pool, spc>> PROVE ScopesInv'
  <2>1. UNCHANGED <<out, status, queue, spc>>
    BY <1>4 DEF pool
  <2>2. PoolTyped' /\ ScopesTyped'
    BY <1>1, <1>2, <2>1 DEF PoolTyped, ScopesTyped
  <2>3. ScriptsSent' /\ LeftIsKnown'
    BY <1>1, <1>2, <2>1 DEF ScriptsSent, LeftIsKnown, Once, At
  <2> QED BY <2>2, <2>3 DEF ScopesInv
<1> QED BY <1>3, <1>4 DEF RunStatement

LEMMA StatementAnsweredKeeps ==
  ASSUME ScopesInv, ScriptsAssumption, NEW c \in Clients, NEW ok \in BOOLEAN,
         StatementAnswered(c, ok)
  PROVE  ScopesInv'
<1> DEFINE s == Head(queue[c]).by
<1>1. /\ PoolTyped /\ ScopesTyped /\ ScriptsSent /\ LeftIsKnown
      /\ spc \in [Scripts -> {"running", "waiting", "ending", "rollingBack", "answered"}]
  BY DEF ScopesInv, ScopesTyped
<1>2. /\ queue[c] # <<>> /\ s \in Scripts /\ spc[s] = "waiting" /\ Pop(c)
      /\ Serve(c, ok) /\ Release(c) /\ SGoto(s, "running") /\ Attribute(c, s)
      /\ RecordOpenTransaction(s, c, ok) /\ UNCHANGED <<txClient, todo>>
  BY DEF StatementAnswered, Serve, session
<1>3. queue' \in Queues /\ ScriptsSent'
  BY <1>2, ScriptAnswered
<1> HIDE DEF s
<1>4. PoolTyped'
  BY <1>1, <1>2, <1>3 DEF PoolTyped, Serve, StatusAfter, Release
<1>5. ScopesTyped'
  BY <1>1, <1>2 DEF ScopesTyped, SGoto, Attribute, RecordOpenTransaction
<1>6. /\ \A t \in Scripts : t # s => spc'[t] = spc[t] /\ openQueryScopes'[t] = openQueryScopes[t]
      /\ spc'[s] = "running" /\ openQueryScopes[s] \subseteq openQueryScopes'[s]
      /\ status'[c] # "I" => c \in openQueryScopes'[s]
  BY <1>1, <1>2 DEF SGoto, RecordOpenTransaction, ScopesTyped
<1>7. /\ \A d \in Clients : d # c => leftBy'[d] = leftBy[d] /\ status'[d] = status[d]
      /\ status'[c] = "I" => leftBy'[c] = NoScript
      /\ status'[c] # "I" => leftBy'[c] \in {s, leftBy[c]} /\ (status[c] = "I" => leftBy'[c] = s)
  BY <1>1, <1>2 DEF Attribute, Serve, ScopesTyped, PoolTyped
<1>8. \A d \in Clients, t \in Scripts : t # s /\ (\E i \in At(d) : queue[d][i].by = t) =>
        \E i \in At(d)' : queue'[d][i].by = t
  <2> SUFFICES ASSUME NEW d \in Clients, NEW t \in Scripts, t # s,
                      NEW i \in At(d), queue[d][i].by = t
               PROVE  \E k \in At(d)' : queue'[d][k] = queue[d][i]
    OBVIOUS
  <2> QED BY <1>1, <1>2, PopStays DEF PoolTyped, s
<1>9. LeftIsKnown'
  <2> SUFFICES ASSUME NEW d \in Clients, NEW t \in Scripts, leftBy'[d] = t
               PROVE  /\ status'[d] # "I" /\ spc'[t] # "answered" /\ d \in openQueryScopes'[t]
                      /\ spc'[t] = "ending" => d \in todo[t]
                      /\ spc'[t] = "rollingBack" =>
                           d \in todo[t] \/ \E i \in At(d)' : queue'[d][i].by = t
    BY <1>2 DEF LeftIsKnown
  <2>1. status'[d] # "I"
    BY <1>1, <1>7, ScriptsAssumption DEF LeftIsKnown
  <2>2. CASE t = s
    <3>1. d \in openQueryScopes'[s]
      BY <1>1, <1>6, <1>7, <2>1, <2>2 DEF LeftIsKnown
    <3> QED BY <1>6, <2>1, <2>2, <3>1
  <2>3. CASE t # s
    <3>1. leftBy[d] = t
      BY <1>7, <2>1, <2>3
    <3> QED BY <1>1, <1>6, <1>8, <2>1, <2>3, <3>1 DEF LeftIsKnown
  <2> QED BY <2>2, <2>3
<1> QED BY <1>3, <1>4, <1>5, <1>9 DEF ScopesInv

LEMMA EndClientKeeps ==
  ASSUME ScopesInv, ScriptsAssumption, NEW s \in Scripts, EndClient(s)
  PROVE  ScopesInv'
<1>1. /\ PoolTyped /\ ScopesTyped /\ ScriptsSent /\ LeftIsKnown /\ spc[s] = "ending"
      /\ spc \in [Scripts -> {"running", "waiting", "ending", "rollingBack", "answered"}]
      /\ todo \in [Scripts -> SUBSET Clients]
  BY DEF ScopesInv, EndClient, ScopesTyped
<1>2. PICK c \in todo[s] :
        /\ todo' = [todo EXCEPT ![s] = @ \ {c}]
        /\ IF status[c] = "I" THEN UNCHANGED <<queue, spc>>
                              ELSE Send(c, "ROLLBACK", s) /\ SGoto(s, "rollingBack")
  BY DEF EndClient
<1>3. UNCHANGED <<out, status, txClient, openQueryScopes, leftBy>> /\ c \in Clients
  BY <1>1 DEF EndClient, session
<1>4. /\ todo'[s] = todo[s] \ {c} /\ \A t \in Scripts : t # s => todo'[t] = todo[t]
      /\ todo' \in [Scripts -> SUBSET Clients]
  BY <1>1, <1>2
<1>5. CASE status[c] = "I"
  <2>1. UNCHANGED <<queue, spc>>
    BY <1>2, <1>5
  <2>2. PoolTyped' /\ ScopesTyped' /\ ScriptsSent'
    BY <1>1, <1>3, <1>4, <2>1 DEF PoolTyped, ScopesTyped, ScriptsSent, Once, At
  <2>3. LeftIsKnown'
    BY <1>1, <1>3, <1>4, <1>5, <2>1 DEF LeftIsKnown, At
  <2> QED BY <2>2, <2>3 DEF ScopesInv
<1>6. CASE status[c] # "I"
  <2>1. Send(c, "ROLLBACK", s) /\ SGoto(s, "rollingBack")
    BY <1>2, <1>6
  <2>2. queue' \in Queues /\ ScriptsSent'
    BY <1>1, <1>3, <2>1, ScriptSends DEF Ops
  <2>3. PoolTyped' /\ ScopesTyped'
    BY <1>1, <1>3, <1>4, <2>1, <2>2 DEF PoolTyped, ScopesTyped, SGoto
  <2>4. spc'[s] = "rollingBack" /\ \A t \in Scripts : t # s => spc'[t] = spc[t]
    BY <1>1, <2>1 DEF SGoto
  <2>5. /\ \A d \in Clients : \A i \in At(d) : i \in At(d)' /\ queue'[d][i] = queue[d][i]
        /\ \E i \in At(c)' : queue'[c][i].by = s
    <3>1. queue \in Queues /\ s \in Senders /\ "ROLLBACK" \in Ops
      BY <1>1, ScriptsAssumption DEF PoolTyped, Ops
    <3>2. /\ Len(queue'[c]) = Len(queue[c]) + 1 /\ Len(queue[c]) \in Nat
          /\ queue'[c][Len(queue[c]) + 1] = [op |-> "ROLLBACK", by |-> s]
      BY <1>3, <2>1, <3>1, SendEffect DEF Queues
    <3>3. Len(queue[c]) + 1 \in At(c)' /\ queue'[c][Len(queue[c]) + 1].by = s
      BY <3>2 DEF At
    <3>4. \A d \in Clients : \A i \in At(d) : i \in At(d)' /\ queue'[d][i] = queue[d][i]
      BY <1>3, <2>1, <3>1, SendStays
    <3> QED BY <3>3, <3>4
  <2>6. LeftIsKnown'
    <3> SUFFICES ASSUME NEW d \in Clients, NEW t \in Scripts, leftBy[d] = t
                 PROVE  /\ status[d] # "I" /\ spc'[t] # "answered" /\ d \in openQueryScopes[t]
                        /\ spc'[t] = "ending" => d \in todo'[t]
                        /\ spc'[t] = "rollingBack" =>
                             d \in todo'[t] \/ \E i \in At(d)' : queue'[d][i].by = t
      BY <1>3 DEF LeftIsKnown
    <3>1. CASE t = s
      BY <1>1, <1>4, <2>4, <2>5, <3>1 DEF LeftIsKnown
    <3>2. CASE t # s
      BY <1>1, <1>4, <2>4, <2>5, <3>2 DEF LeftIsKnown
    <3> QED BY <3>1, <3>2
  <2> QED BY <2>2, <2>3, <2>6 DEF ScopesInv
<1> QED BY <1>5, <1>6

LEMMA EndClientAnsweredKeeps ==
  ASSUME ScopesInv, ScriptsAssumption, NEW c \in Clients, NEW ok \in BOOLEAN,
         EndClientAnswered(c, ok)
  PROVE  ScopesInv'
<1> DEFINE s == Head(queue[c]).by
<1>1. /\ PoolTyped /\ ScopesTyped /\ ScriptsSent /\ LeftIsKnown /\ queue \in Queues
      /\ spc \in [Scripts -> {"running", "waiting", "ending", "rollingBack", "answered"}]
  BY DEF ScopesInv, ScopesTyped, PoolTyped
<1>2. /\ queue[c] # <<>> /\ s \in Scripts /\ spc[s] = "rollingBack" /\ Pop(c)
      /\ Serve(c, ok) /\ SGoto(s, "ending") /\ Attribute(c, NoScript)
      /\ UNCHANGED <<out, txClient, todo, openQueryScopes>>
  BY DEF EndClientAnswered, Serve, session
<1>3. queue' \in Queues /\ ScriptsSent'
  BY <1>2, ScriptAnswered
<1>4. 1 \in At(c) /\ Head(queue[c]) = queue[c][1]
  BY <1>1, <1>2, PopEffect
<1>5. Head(queue[c]).op = "ROLLBACK"
  BY <1>1, <1>2, <1>4 DEF ScriptsSent
<1>6. status' = [status EXCEPT ![c] = "I"]
  BY <1>2, <1>5 DEF Serve, StatusAfter
<1>7. \A d \in Clients : leftBy'[d] = IF d = c THEN NoScript ELSE leftBy[d]
  BY <1>1, <1>2, <1>6 DEF Attribute, ScopesTyped, PoolTyped
<1>8. PoolTyped'
  BY <1>1, <1>2, <1>3, <1>6 DEF PoolTyped
<1>9. ScopesTyped'
  BY <1>1, <1>2 DEF ScopesTyped, SGoto, Attribute
<1>10. /\ spc'[s] = "ending" /\ \A t \in Scripts : t # s => spc'[t] = spc[t]
  BY <1>1, <1>2 DEF SGoto
<1>11. LeftIsKnown'
  <2> SUFFICES ASSUME NEW d \in Clients, NEW t \in Scripts, leftBy'[d] = t
               PROVE  /\ status'[d] # "I" /\ spc'[t] # "answered" /\ d \in openQueryScopes[t]
                      /\ spc'[t] = "ending" => d \in todo[t]
                      /\ spc'[t] = "rollingBack" =>
                           d \in todo[t] \/ \E i \in At(d)' : queue'[d][i].by = t
    BY <1>2 DEF LeftIsKnown
  <2>1. d # c /\ leftBy[d] = t /\ status'[d] = status[d]
    BY <1>1, <1>6, <1>7, ScriptsAssumption DEF PoolTyped
  <2>2. CASE t = s
    <3>1. ~ \E i \in At(d) : queue[d][i].by = s
      BY <1>1, <1>2, <1>4, <2>1 DEF ScriptsSent, Once
    <3> QED BY <1>1, <1>2, <1>10, <2>1, <2>2, <3>1 DEF LeftIsKnown
  <2>3. CASE t # s
    <3>1. ASSUME NEW i \in At(d), queue[d][i].by = t
          PROVE  \E k \in At(d)' : queue'[d][k] = queue[d][i]
      BY <1>1, <1>2, <2>3, <3>1, PopStays
    <3> HIDE DEF s
    <3> QED BY <1>1, <1>10, <2>1, <2>3, <3>1 DEF LeftIsKnown
  <2> QED BY <2>2, <2>3
<1> QED BY <1>3, <1>8, <1>9, <1>11 DEF ScopesInv

(* The ender begins, or has tried every client: only the script moves. *)
LEMMA EnderMoves ==
  ASSUME ScopesInv, NEW s \in Scripts, EndOpenQueryTransaction(s) \/ ScopeDone(s)
  PROVE  ScopesInv'
<1>1. /\ PoolTyped /\ ScopesTyped /\ ScriptsSent /\ LeftIsKnown /\ spc[s] \in {"running", "ending"}
      /\ spc \in [Scripts -> {"running", "waiting", "ending", "rollingBack", "answered"}]
  BY DEF ScopesInv, ScopesTyped, EndOpenQueryTransaction, ScopeDone
<1>2. UNCHANGED <<out, status, queue, txClient, leftBy>>
  BY DEF EndOpenQueryTransaction, ScopeDone, pool, session, vars
<1>3. PoolTyped' /\ ScopesTyped'
  BY <1>1, <1>2 DEF PoolTyped, ScopesTyped, EndOpenQueryTransaction, ScopeDone, SGoto
<1>4. \A t \in Scripts : t # s =>
        /\ spc'[t] = spc[t] /\ todo'[t] = todo[t] /\ openQueryScopes'[t] = openQueryScopes[t]
  BY <1>1 DEF ScopesTyped, EndOpenQueryTransaction, ScopeDone, SGoto
<1>5. ScriptsSent'
  <2>1. Once(Scripts)'
    BY <1>1, <1>2 DEF ScriptsSent, Once, At
  <2>2. ASSUME NEW c \in Clients, NEW i \in At(c)', queue'[c][i].by \in Scripts
        PROVE  /\ spc'[queue'[c][i].by] \in {"waiting", "rollingBack"}
               /\ spc'[queue'[c][i].by] = "rollingBack" => queue'[c][i].op = "ROLLBACK"
    BY <1>1, <1>2, <1>4, <2>2 DEF ScriptsSent, At
  <2> QED BY <2>1, <2>2 DEF ScriptsSent
<1>6. LeftIsKnown'
  <2> SUFFICES ASSUME NEW d \in Clients, NEW t \in Scripts, leftBy[d] = t
               PROVE  /\ status[d] # "I" /\ spc'[t] # "answered" /\ d \in openQueryScopes'[t]
                      /\ spc'[t] = "ending" => d \in todo'[t]
                      /\ spc'[t] = "rollingBack" =>
                           d \in todo'[t] \/ \E i \in At(d)' : queue'[d][i].by = t
    BY <1>2 DEF LeftIsKnown
  <2>1. CASE t # s
    BY <1>1, <1>2, <1>4, <2>1 DEF LeftIsKnown, At
  <2>2. CASE t = s /\ EndOpenQueryTransaction(s)
    <3>1. /\ spc'[s] = "ending" /\ todo'[s] = openQueryScopes[s]
          /\ openQueryScopes' = openQueryScopes
      BY <1>1, <2>2 DEF EndOpenQueryTransaction, SGoto, ScopesTyped
    <3> QED BY <1>1, <2>2, <3>1 DEF LeftIsKnown
  <2>3. CASE t = s /\ ScopeDone(s)
    BY <1>1, <2>3 DEF LeftIsKnown, ScopeDone
  <2> QED BY <2>1, <2>2, <2>3
<1> QED BY <1>3, <1>5, <1>6 DEF ScopesInv

LEMMA ScopesNextKeeps ==
  ASSUME ScopesInv, SessionAssumption, ScriptsAssumption, [ScopesNext]_allvars
  PROVE  ScopesInv'
<1>1. CASE SessionStep
  BY <1>1, SessionStepKeeps
<1>2. CASE \E s \in Scripts : RunStatement(s) \/ EndOpenQueryTransaction(s) \/ EndClient(s) \/ ScopeDone(s)
  BY <1>2, RunStatementKeeps, EnderMoves, EndClientKeeps
<1>3. CASE \E c \in Clients, ok \in BOOLEAN : StatementAnswered(c, ok) \/ EndClientAnswered(c, ok)
  BY <1>3, StatementAnsweredKeeps, EndClientAnsweredKeeps
<1>4. CASE UNCHANGED allvars
  <2>1. UNCHANGED <<out, status, queue, txClient, spc, openQueryScopes, todo, leftBy>>
    BY <1>4 DEF allvars, vars, pool, session, svars, scopes
  <2>2. PoolTyped' /\ ScopesTyped'
    BY <2>1 DEF ScopesInv, PoolTyped, ScopesTyped
  <2>3. ScriptsSent' /\ LeftIsKnown'
    BY <2>1 DEF ScopesInv, ScriptsSent, LeftIsKnown, Once, At
  <2> QED BY <2>2, <2>3 DEF ScopesInv
<1> QED BY <1>1, <1>2, <1>3, <1>4 DEF ScopesNext

LEMMA ScopesInitially == ScopesInit => ScopesInv
<1> SUFFICES ASSUME ScopesInit PROVE ScopesInv
  OBVIOUS
<1>1. PoolTyped
  BY DEF ScopesInit, Init, PoolInit, PoolTyped, Queues
<1>2. ScopesTyped
  BY DEF ScopesInit, Init, ScopesTyped
<1>3. ScriptsSent /\ LeftIsKnown
  BY ScriptsAssumption DEF ScopesInit, Init, PoolInit, ScriptsSent, Once, LeftIsKnown, At
<1> QED BY <1>1, <1>2, <1>3 DEF ScopesInv

(* Once a request to /query or /multi-query is answered, no transaction it  *)
(* opened is open on any client (recordOpenTransaction and the ender).      *)
THEOREM NothingStaysOpen == ScopesSpec => []NothingLeftOpen
<1>1. ScopesInv /\ [ScopesNext]_allvars => ScopesInv'
  BY ScopesNextKeeps, SessionAssumption, ScriptsAssumption
<1>2. ScopesInv => NothingLeftOpen
  BY DEF ScopesInv, LeftIsKnown, NothingLeftOpen
<1> QED BY <1>1, <1>2, ScopesInitially, PTL DEF ScopesSpec

-----------------------------------------------------------------------------
(* One user of a client at a time *)

(* What a step of the session does to the client it names: it takes an idle *)
(* one, gives its own back, or leaves the pool as it is.                    *)
LEMMA SessionHolds ==
  ASSUME Next
  PROVE  \/ UNCHANGED <<out, txClient>>
         \/ \E c \in Clients : Idle(c) /\ Checkout(c) /\ txClient' = c
         \/ txClient # NoClient /\ Release(txClient) /\ txClient' = NoClient
<1>1. ASSUME NEW r \in Requests, Connected(r)
      PROVE  \/ UNCHANGED <<out, txClient>>
             \/ \E c \in Clients : Idle(c) /\ Checkout(c) /\ txClient' = c
  BY <1>1 DEF Connected, pool
<1>2. ASSUME NEW c \in Clients, NEW ok \in BOOLEAN, EndAnswered(c, ok) \/ Expired(c, ok)
      PROVE  \/ UNCHANGED <<out, txClient>>
             \/ txClient # NoClient /\ Release(txClient) /\ txClient' = NoClient
  BY <1>2 DEF EndAnswered, Expired, EndSession
<1>3. ASSUME NEW c \in Clients, NEW ok \in BOOLEAN, BeginAnswered(c, ok) \/ QueryAnswered(c, ok)
      PROVE  UNCHANGED <<out, txClient>>
  BY <1>3 DEF BeginAnswered, QueryAnswered, session
<1>4. ASSUME NEW r \in Requests,
             \/ Busy(r) \/ Status(r) \/ Begin(r)
             \/ CommitTransaction(r) \/ RollbackTransaction(r) \/ QueryInTransaction(r)
      PROVE  UNCHANGED <<out, txClient>>
  BY <1>4 DEF Busy, Status, Begin, CommitTransaction, RollbackTransaction, SendEnd,
       QueryInTransaction, pool, session
<1>5. ASSUME ExpireTransaction \/ LeaseLapses PROVE UNCHANGED <<out, txClient>>
  BY <1>5 DEF ExpireTransaction, LeaseLapses, pool, session
<1> QED BY <1>1, <1>2, <1>3, <1>4, <1>5 DEF Next, RequestStep, Respond

(* A step after which nobody waits who did not wait before, and which takes *)
(* and gives back no client but as the session does.                        *)
LEMMA NobodyNewWaits ==
  ASSUME ClientsApart, PoolTyped, NoClientAssumption, txClient \in Clients \cup {NoClient},
         \A s \in Scripts, c \in Clients : WaitsOn(s, c)' => WaitsOn(s, c),
         \/ UNCHANGED <<out, txClient>>
         \/ \E c \in Clients : Idle(c) /\ Checkout(c) /\ txClient' = c
         \/ txClient # NoClient /\ Release(txClient) /\ txClient' = NoClient
  PROVE  ClientsApart'
<1>1. out \in [Clients -> BOOLEAN]
  BY DEF PoolTyped
<1>2. CASE UNCHANGED <<out, txClient>>
  BY <1>2 DEF ClientsApart
<1>3. ASSUME NEW d \in Clients, Idle(d), Checkout(d), txClient' = d PROVE ClientsApart'
  <2>1. ~out[d] /\ \A c \in Clients : out'[c] = (out[c] \/ c = d)
    BY <1>1, <1>3 DEF Idle, Checkout
  <2>2. \A s \in Scripts, c \in Clients : WaitsOn(s, c) => out[c] /\ c # d
    BY <2>1 DEF ClientsApart
  <2> QED BY <1>3, <2>1, <2>2 DEF ClientsApart
<1>4. CASE txClient # NoClient /\ Release(txClient) /\ txClient' = NoClient
  <2>1. \A c \in Clients : c # txClient => out'[c] = out[c]
    BY <1>1, <1>4 DEF Release
  <2>2. \A s \in Scripts, c \in Clients : WaitsOn(s, c) => c # txClient /\ c # NoClient
    BY NoClientAssumption DEF ClientsApart
  <2> QED BY <1>4, <2>1, <2>2 DEF ClientsApart
<1> QED BY <1>2, <1>3, <1>4

(* A pop of somebody else's statement makes nobody wait. *)
LEMMA PopWaits ==
  ASSUME queue \in Queues, NEW c \in Clients, queue[c] # <<>>, Pop(c),
         NEW t, NEW d \in Clients, WaitsOn(t, d)', spc'[t] = spc[t]
  PROVE  WaitsOn(t, d)
<1>1. PICK k \in At(d)' : queue'[d][k].by = t
  <2>1. PICK k \in DOMAIN queue'[d] : queue'[d][k].by = t
    BY DEF WaitsOn
  <2>2. queue'[d] \in Seq(Entries)
    BY PopEffect DEF Queues
  <2> QED BY <2>1, <2>2 DEF At
<1>2. Before(c, d, k) \in At(d) /\ queue'[d][k] = queue[d][Before(c, d, k)]
  BY PopEntries
<1>3. At(d) = DOMAIN queue[d]
  BY DEF Queues, At
<1> QED BY <1>1, <1>2, <1>3 DEF WaitsOn

LEMMA SessionApart ==
  ASSUME ScopesInv, ClientsApart, SessionAssumption, ScriptsAssumption, NoClientAssumption,
         SessionStep
  PROVE  ClientsApart'
<1>1. PoolTyped /\ txClient \in Clients \cup {NoClient} /\ Once(Scripts) /\ Next /\ spc' = spc
  BY DEF ScopesInv, ScopesTyped, ScriptsSent, SessionStep, scopes
<1>2. PoolTyped' /\ Moves
  BY <1>1, SessionMoves
<1>3. \A c \in Clients : \A i \in At(c)' : queue'[c][i].by \in Scripts =>
        \E j \in At(c) : queue[c][j] = queue'[c][i]
  BY <1>1, <1>2, MovesSpare
<1>4. ASSUME NEW s \in Scripts, NEW c \in Clients, WaitsOn(s, c)' PROVE WaitsOn(s, c)
  <2>1. At(c) = DOMAIN queue[c] /\ At(c)' = DOMAIN queue'[c]
    BY <1>1, <1>2 DEF PoolTyped, Queues, At
  <2> QED BY <1>1, <1>3, <1>4, <2>1 DEF WaitsOn
<1> QED BY <1>1, <1>4, SessionHolds, NobodyNewWaits

LEMMA RunStatementApart ==
  ASSUME ScopesInv, ClientsApart, ScriptsAssumption, NEW s \in Scripts, RunStatement(s)
  PROVE  ClientsApart'
<1>1. /\ PoolTyped /\ ScriptsSent /\ spc[s] = "running" /\ queue \in Queues
      /\ out \in [Clients -> BOOLEAN] /\ s \in Senders
      /\ spc \in [Scripts -> {"running", "waiting", "ending", "rollingBack", "answered"}]
  BY ScriptsAssumption DEF ScopesInv, RunStatement, ScopesTyped, PoolTyped
<1>2. txClient' = txClient
  BY DEF RunStatement, session
<1>3. ASSUME UNCHANGED <<pool, spc>> PROVE ClientsApart'
  BY <1>2, <1>3 DEF ClientsApart, WaitsOn, pool
<1>4. ASSUME NEW d \in Clients, NEW op \in Ops, Idle(d), Checkout(d), Send(d, op, s),
             SGoto(s, "waiting")
      PROVE  ClientsApart'
  <2>1. ~out[d] /\ \A c \in Clients : out'[c] = (out[c] \/ c = d)
    BY <1>1, <1>4 DEF Idle, Checkout
  <2>2. /\ \A t \in Scripts \ {s} : spc'[t] = spc[t]
    BY <1>1, <1>4 DEF SGoto
  <2>3. queue' \in Queues /\ Silent(s)
    <3>1. queue' \in Queues
      BY <1>1, <1>4, SendEffect
    <3>2. Silent(s)
      BY <1>1 DEF ScriptsSent, Silent
    <3> QED BY <3>1, <3>2
  <2>4. \A c \in Clients : At(c) = DOMAIN queue[c] /\ At(c)' = DOMAIN queue'[c]
    BY <1>1, <2>3 DEF Queues, At
  <2>5. ASSUME NEW t \in Scripts, NEW c \in Clients, WaitsOn(t, c)'
        PROVE  IF t = s THEN c = d ELSE WaitsOn(t, c)
    <3>1. PICK k \in At(c)' : queue'[c][k].by = t
      BY <2>4, <2>5 DEF WaitsOn
    <3>2. \/ k \in At(c) /\ queue'[c][k] = queue[c][k]
          \/ c = d /\ k = Len(queue[d]) + 1 /\ queue'[c][k] = [op |-> op, by |-> s]
      BY <1>1, <1>4, SendEntries
    <3>3. CASE t = s
      BY <2>3, <3>1, <3>2, <3>3 DEF Silent
    <3>4. CASE t # s
      BY <2>2, <2>4, <2>5, <3>1, <3>2, <3>4 DEF WaitsOn
    <3> QED BY <3>3, <3>4
  <2>6. \A t \in Scripts : ~WaitsOn(t, d)
    BY <2>1 DEF ClientsApart
  <2>7. txClient # NoClient => out'[txClient]
    <3>1. CASE txClient \in Clients
      BY <2>1, <3>1 DEF ClientsApart
    <3> QED BY <3>1 DEF ScopesInv, ScopesTyped
  <2>8. txClient # d
    BY <2>1, NoClientAssumption DEF ClientsApart
  <2>9. ASSUME NEW t \in Scripts, NEW c \in Clients, WaitsOn(t, c)'
        PROVE  out'[c] /\ c # txClient' /\ \A u \in Scripts \ {t} : ~WaitsOn(u, c)'
    <3>1. CASE c = d
      <4>1. t = s /\ \A u \in Scripts \ {t} : ~WaitsOn(u, c)'
        BY <2>5, <2>6, <2>9, <3>1
      <4> QED BY <1>2, <2>1, <2>8, <3>1, <4>1
    <3>2. CASE c # d
      <4>1. t # s /\ WaitsOn(t, c)
        BY <2>5, <2>9, <3>2
      <4>2. \A u \in Scripts \ {t} : ~WaitsOn(u, c)'
        BY <2>5, <3>2, <4>1 DEF ClientsApart
      <4> QED BY <1>2, <2>1, <4>1, <4>2 DEF ClientsApart
    <3> QED BY <3>1, <3>2
  <2> QED BY <1>2, <2>7, <2>9 DEF ClientsApart
<1> QED BY <1>3, <1>4 DEF RunStatement

LEMMA StatementAnsweredApart ==
  ASSUME ScopesInv, ClientsApart, NEW d \in Clients, NEW ok \in BOOLEAN, StatementAnswered(d, ok)
  PROVE  ClientsApart'
<1> DEFINE s == Head(queue[d]).by
<1>1. /\ queue \in Queues /\ out \in [Clients -> BOOLEAN] /\ ScriptsSent
      /\ spc \in [Scripts -> {"running", "waiting", "ending", "rollingBack", "answered"}]
  BY DEF ScopesInv, ScopesTyped, PoolTyped
<1>2. /\ queue[d] # <<>> /\ s \in Scripts /\ spc[s] = "waiting" /\ Pop(d) /\ Release(d)
      /\ SGoto(s, "running") /\ txClient' = txClient
  BY DEF StatementAnswered, Serve, session
<1>3. WaitsOn(s, d)
  <2>1. 1 \in At(d) /\ Head(queue[d]) = queue[d][1]
    BY <1>1, <1>2, PopEffect
  <2>2. At(d) = DOMAIN queue[d]
    BY <1>1 DEF Queues, At
  <2> QED BY <1>2, <2>1, <2>2 DEF WaitsOn
<1> HIDE DEF s
<1>4. spc'[s] = "running" /\ \A t \in Scripts \ {s} : spc'[t] = spc[t]
  BY <1>1, <1>2 DEF SGoto
<1>5. ASSUME NEW t \in Scripts, NEW c \in Clients, WaitsOn(t, c)'
      PROVE  WaitsOn(t, c) /\ c # d
  <2>1. t # s
    BY <1>4, <1>5 DEF WaitsOn
  <2>2. WaitsOn(t, c)
    BY <1>1, <1>2, <1>4, <1>5, <2>1, PopWaits
  <2> QED BY <1>2, <1>3, <2>1, <2>2 DEF ClientsApart
<1>6. \A c \in Clients : c # d => out'[c] = out[c]
  BY <1>1, <1>2 DEF Release
<1>7. txClient # NoClient => out'[txClient]
  <2>1. txClient # d
    BY <1>2, <1>3 DEF ClientsApart
  <2> QED BY <1>6, <2>1 DEF ClientsApart, ScopesInv, ScopesTyped
<1> QED BY <1>2, <1>5, <1>6, <1>7 DEF ClientsApart

LEMMA EnderApart ==
  ASSUME ScopesInv, ClientsApart, ScriptsAssumption, NoClientAssumption,
         \/ \E s \in Scripts : EndOpenQueryTransaction(s) \/ EndClient(s) \/ ScopeDone(s)
         \/ \E c \in Clients, ok \in BOOLEAN : EndClientAnswered(c, ok)
  PROVE  ClientsApart'
<1>1. /\ PoolTyped /\ queue \in Queues /\ txClient \in Clients \cup {NoClient}
      /\ spc \in [Scripts -> {"running", "waiting", "ending", "rollingBack", "answered"}]
      /\ todo \in [Scripts -> SUBSET Clients]
  BY DEF ScopesInv, ScopesTyped, PoolTyped
<1>2. UNCHANGED <<out, txClient>>
  BY DEF EndOpenQueryTransaction, EndClient, ScopeDone, EndClientAnswered, pool, session, vars
<1>3. ASSUME NEW s \in Scripts, EndOpenQueryTransaction(s) \/ ScopeDone(s),
             NEW t \in Scripts, NEW c \in Clients, WaitsOn(t, c)'
      PROVE  WaitsOn(t, c)
  <2>1. queue' = queue /\ spc'[t] = "waiting" => spc[t] = "waiting"
    BY <1>1, <1>3 DEF EndOpenQueryTransaction, ScopeDone, SGoto, pool, vars
  <2>2. queue' = queue
    BY <1>3 DEF EndOpenQueryTransaction, ScopeDone, pool, vars
  <2> QED BY <1>3, <2>1, <2>2 DEF WaitsOn
<1>4. ASSUME NEW s \in Scripts, EndClient(s), NEW t \in Scripts, NEW c \in Clients, WaitsOn(t, c)'
      PROVE  WaitsOn(t, c)
  <2>1. PICK d \in todo[s] :
          IF status[d] = "I" THEN UNCHANGED <<queue, spc>>
                             ELSE Send(d, "ROLLBACK", s) /\ SGoto(s, "rollingBack")
    BY <1>4 DEF EndClient
  <2>2. CASE UNCHANGED <<queue, spc>>
    BY <1>4, <2>2 DEF WaitsOn
  <2>3. CASE Send(d, "ROLLBACK", s) /\ SGoto(s, "rollingBack")
    <3>1. d \in Clients /\ s \in Senders /\ "ROLLBACK" \in Ops
      BY <1>1, ScriptsAssumption DEF Ops
    <3>2. t # s /\ spc[t] = "waiting"
      BY <1>1, <1>4, <2>3 DEF SGoto, WaitsOn
    <3>3. queue' \in Queues
      BY <1>1, <2>3, <3>1, SendEffect
    <3>4. PICK k \in At(c)' : queue'[c][k].by = t
      BY <1>4, <3>3 DEF WaitsOn, Queues, At
    <3>5. \/ k \in At(c) /\ queue'[c][k] = queue[c][k]
          \/ queue'[c][k] = [op |-> "ROLLBACK", by |-> s]
      BY <1>1, <1>4, <2>3, <3>1, <3>4, SendEntries
    <3>6. k \in At(c) /\ queue[c][k].by = t
      BY <3>2, <3>4, <3>5
    <3> QED BY <1>1, <3>2, <3>6 DEF WaitsOn, Queues, At
  <2> QED BY <2>1, <2>2, <2>3
<1>5. ASSUME NEW d \in Clients, NEW ok \in BOOLEAN, EndClientAnswered(d, ok),
             NEW t \in Scripts, NEW c \in Clients, WaitsOn(t, c)'
      PROVE  WaitsOn(t, c)
  <2>1. queue[d] # <<>> /\ Pop(d) /\ SGoto(Head(queue[d]).by, "ending")
    BY <1>5 DEF EndClientAnswered, Serve
  <2>2. spc'[t] = spc[t]
    BY <1>1, <1>5, <2>1 DEF SGoto, WaitsOn
  <2> QED BY <1>1, <1>5, <2>1, <2>2, PopWaits
<1>6. \A t \in Scripts, c \in Clients : WaitsOn(t, c)' => WaitsOn(t, c)
  BY <1>3, <1>4, <1>5
<1> QED BY <1>1, <1>2, <1>6, NobodyNewWaits

(* query(), beginTransaction and the enders draw on one pool: whoever's     *)
(* statement runs on a client, nobody else is given it meanwhile.           *)
THEOREM ClientsStayApart == ScopesSpec => []ClientsApart
<1>1. ScopesInit => ScopesInv /\ ClientsApart
  <2>1. ScopesInit => ClientsApart
    BY DEF ScopesInit, Init, PoolInit, ClientsApart, WaitsOn
  <2> QED BY <2>1, ScopesInitially
<1>2. ScopesInv /\ ClientsApart /\ [ScopesNext]_allvars => ScopesInv' /\ ClientsApart'
  <2> SUFFICES ASSUME ScopesInv, ClientsApart, [ScopesNext]_allvars PROVE ClientsApart'
    BY ScopesNextKeeps, SessionAssumption, ScriptsAssumption
  <2> USE SessionAssumption, ScriptsAssumption, NoClientAssumption
  <2>1. CASE SessionStep
    BY <2>1, SessionApart
  <2>2. CASE \E s \in Scripts : RunStatement(s)
    BY <2>2, RunStatementApart
  <2>3. CASE \E c \in Clients, ok \in BOOLEAN : StatementAnswered(c, ok)
    BY <2>3, StatementAnsweredApart
  <2>4. CASE \/ \E s \in Scripts : EndOpenQueryTransaction(s) \/ EndClient(s) \/ ScopeDone(s)
             \/ \E c \in Clients, ok \in BOOLEAN : EndClientAnswered(c, ok)
    BY <2>4, EnderApart
  <2>5. CASE UNCHANGED allvars
    BY <2>5 DEF allvars, vars, pool, session, svars, scopes, ClientsApart, WaitsOn
  <2> QED BY <2>1, <2>2, <2>3, <2>4, <2>5 DEF ScopesNext
<1> QED BY <1>1, <1>2, PTL DEF ScopesSpec

=============================================================================
