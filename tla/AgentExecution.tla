--------------------------- MODULE AgentExecution ---------------------------
(***************************************************************************)
(* The audited execution of an agent's statements, from the gates in front *)
(* of a call (src/lib/agent/tools.ts: repair ledger, run deadline, policy   *)
(* budgets) through executeAuditedOperation (execution.ts: the decision on  *)
(* the audit trail, the slot, the provider call, the outcome on the trail,  *)
(* the artifact) to the release of everything a finished run holds.         *)
(*                                                                         *)
(* A call is synchronous up to the provider call and again after it, so it  *)
(* is two actions: a start and an ending.  Between them other calls, the    *)
(* clock and the finishing of the run interleave.  Times are small          *)
(* integers; the clock is injected and may step back.                       *)
(***************************************************************************)
EXTENDS Integers, FiniteSets

CONSTANTS Runs, Callers, Statements,
          MaxConcurrent,   \* maxConcurrentExecutions
          MaxStatements,   \* maxStatementsPerRun
          MaxElapsed,      \* maxTotalRunMs
          Ceiling,         \* statementTimeoutMs
          Minimum,         \* AGENT_MINIMUM_CALL_MS
          TotalMs,         \* runDeadlineMs
          MaxRepairs,      \* AGENT_MAX_REPAIR_ATTEMPTS
          MaxArtifacts, Ttl,
          MaxClock, MaxBacks, MaxCalls   \* bounds of the exploration

ASSUME LimitsAssumption ==
  /\ \A n \in {MaxConcurrent, MaxStatements, MaxElapsed, Ceiling, Minimum,
               TotalMs, MaxRepairs, MaxArtifacts, Ttl} : n \in Nat \ {0}
  /\ Minimum <= Ceiling
  /\ MaxClock \in Nat /\ MaxBacks \in Nat /\ MaxCalls \in Nat

VARIABLES
  clock, backs,      \* the injected clock, and how often it stepped back
  calls,             \* calls made so far; a call's ordinal is its correlation id
  call,              \* caller -> the provider call it is awaiting
  account,           \* run -> its account in the budget tracker
  deadline,          \* run -> its AgentRunDeadline
  failed, attempts,  \* run -> its repair ledger
  artifacts, puts,   \* the artifact store; `at` is an entry's place in its Map
  trail,             \* the audit trail: <<correlation id, phase>>
  phase              \* run -> how far the run has been finished

vars == <<clock, backs, calls, call, account, deadline, failed, attempts,
          artifacts, puts, trail, phase>>

Ids     == 1..MaxCalls
Idle    == [id |-> 0]
Times   == 0..MaxClock
Account == [active : Nat, executed : Nat, elapsed : Nat]
NoUsage == [active |-> 0, executed |-> 0, elapsed |-> 0]
InFlight(r) == {c \in Callers : call[c].id # 0 /\ call[c].run = r}

Floor0(n) == IF n < 0 THEN 0 ELSE n
Least(m, n) == IF m <= n THEN m ELSE n

Init ==
  /\ clock = 0 /\ backs = 0 /\ calls = 0
  /\ call = [c \in Callers |-> Idle]
  /\ account = [r \in Runs |-> NoUsage]
  /\ deadline = [r \in Runs |-> [last |-> 0, elapsed |-> 0, broken |-> FALSE]]
  /\ failed = [r \in Runs |-> {}] /\ attempts = [r \in Runs |-> 0]
  /\ artifacts = {} /\ puts = 0 /\ trail = {}
  /\ phase = [r \in Runs |-> "open"]

(* ---- The run deadline (deadline.ts) ---- *)

(* Mutation: the delta is not clamped, so a clock stepping back gives time back. *)
Charge_unclamped(d) == [d EXCEPT !.elapsed = @ + (clock - d.last), !.last = clock]

\* remainingMs on a reading: deltas are clamped and added up, never measured
\* from the start.
Charge(d) == [d EXCEPT !.elapsed = @ + Floor0(clock - d.last), !.last = clock]

RemainingMs(d) == IF d.broken THEN 0 ELSE Floor0(TotalMs - d.elapsed)

\* What the deadline is after it has been asked: charged, unless its clock had
\* failed already, or fails now (it throws or answers no number).
Asked(d) == IF d.broken THEN {d} ELSE {Charge(d), [d EXCEPT !.broken = TRUE]}

(* Mutation: the policy's timeout is granted whole. *)
Granted_unclamped(d) == IF RemainingMs(d) < Minimum THEN 0 ELSE Ceiling

\* admit: the time a call is granted, 0 when it is refused.
Granted(d) ==
  LET g == Least(Ceiling, RemainingMs(d)) IN IF g < Minimum THEN 0 ELSE g

(* ---- The budget stage of the policy pipeline (policy.ts) ---- *)

(* Mutation: the request does not count as a statement of its own. *)
WithinBudget_offByOne(usage) ==
  /\ usage.active < MaxConcurrent
  /\ usage.executed <= MaxStatements
  /\ usage.elapsed < MaxElapsed

WithinBudget(usage) ==
  /\ usage.active < MaxConcurrent
  /\ usage.executed + 1 <= MaxStatements
  /\ usage.elapsed < MaxElapsed

(* ---- The gates in front of a call (runAuditedAgentCall) ---- *)

Admits(r, s) == s \notin failed[r] /\ attempts[r] < MaxRepairs

Reaches(c, r, s) ==
  /\ call[c] = Idle /\ phase[r] \in {"open", "closing"} /\ calls < MaxCalls
  /\ Admits(r, s)

\* The deadline leaves no time: the refusal is audited under no correlation id.
DeadlineRefuses(c, r, s) ==
  /\ Reaches(c, r, s)
  /\ \E d \in Asked(deadline[r]) :
        /\ Granted(d) = 0
        /\ deadline' = [deadline EXCEPT ![r] = d]
  /\ calls' = calls + 1
  /\ UNCHANGED <<clock, backs, call, account, failed, attempts,
                 artifacts, puts, trail, phase>>

\* The pipeline denies: the statement is unrepeatable and no attempt is spent.
\* `over` stands for every earlier stage; the denial's own audit event is left
\* out of `trail`, which keeps the events of calls that reached the provider.
PolicyDenies(c, r, s) ==
  /\ Reaches(c, r, s)
  /\ \E d \in Asked(deadline[r]), over \in BOOLEAN :
        /\ Granted(d) > 0 /\ (over \/ ~WithinBudget(account[r]))
        /\ deadline' = [deadline EXCEPT ![r] = d]
  /\ failed' = [failed EXCEPT ![r] = @ \cup {s}]
  /\ calls' = calls + 1
  /\ UNCHANGED <<clock, backs, call, account, attempts, artifacts, puts, trail, phase>>

\* Allowed: the decision is on the trail, the slot is taken and the provider is
\* called, all without an await.
Invoke(c, r, s) ==
  /\ Reaches(c, r, s) /\ WithinBudget(account[r])
  /\ \E d \in Asked(deadline[r]) :
        /\ Granted(d) > 0
        /\ deadline' = [deadline EXCEPT ![r] = d]
        /\ call' = [call EXCEPT ![c] = [id |-> calls + 1, run |-> r, stmt |-> s,
                          granted |-> Granted(d), started |-> clock]]
  /\ calls' = calls + 1
  /\ trail' = trail \cup {<<calls + 1, "decision">>}
  /\ account' = [account EXCEPT ![r].active = @ + 1]
  /\ UNCHANGED <<clock, backs, failed, attempts, artifacts, puts, phase>>

(* ---- The ending of a call (executeAuditedOperation) ---- *)

\* elapsedSince clamps what its clock says.
Elapsed(c) == Floor0(clock - call[c].started)

\* endExecution: one statement and its elapsed time, the slot given back.
EndExecution(c, ms) ==
  /\ account' = [account EXCEPT ![call[c].run] =
                   [active |-> @.active - 1, executed |-> @.executed + 1,
                    elapsed |-> @.elapsed + ms]]
  /\ call' = [call EXCEPT ![c] = Idle]

HasExpired(a, now) == now - a.created >= Ttl

Oldest(store) == CHOOSE a \in store : \A b \in store : a.at <= b.at

(* Mutation: the store's oldest goes, whosever it is. *)
Victim_oldest(store, r) == Oldest(store)

\* evictOldestOf: the run's own oldest, and only when it holds none the store's.
Victim(store, r) ==
  LET own == {a \in store : a.run = r} IN Oldest(IF own # {} THEN own ELSE store)

\* put: sweep, make room, append.
Put(store, a, now) ==
  LET swept == {b \in store : ~HasExpired(b, now)}
      room  == IF Cardinality(swept) >= MaxArtifacts
               THEN swept \ {Victim(swept, a.run)} ELSE swept
  IN room \cup {a}

\* The call answered: accounting, the outcome event, and only then the artifact.
Complete(c) ==
  /\ call[c] # Idle
  /\ EndExecution(c, Elapsed(c))
  /\ trail' = trail \cup {<<call[c].id, "outcome">>}
  /\ artifacts' = Put(artifacts,
        [id |-> call[c].id, run |-> call[c].run, created |-> call[c].started, at |-> puts + 1],
        call[c].started + Elapsed(c))
  /\ puts' = puts + 1
  /\ UNCHANGED <<clock, backs, calls, deadline, failed, attempts, phase>>

FailureClasses == {"environment", "database-error", "database-error-answered",
                   "reading-refused"}

(* Mutation: a call that throws leaves its slot taken. *)
Fail_stranded(c, class) ==
  /\ call[c] # Idle
  /\ call' = [call EXCEPT ![c] = Idle]
  /\ trail' = trail \cup {<<call[c].id, "outcome">>}
  /\ failed' = [failed EXCEPT ![call[c].run] = @ \cup {call[c].stmt}]
  /\ UNCHANGED <<clock, backs, calls, account, deadline, attempts, artifacts, puts, phase>>

\* The call threw: accounting, the outcome event, and unless the environment
\* failed the statement becomes unrepeatable; only an unanswered database error
\* costs an attempt.
Fail(c, class) ==
  /\ call[c] # Idle
  /\ EndExecution(c, Elapsed(c))
  /\ trail' = trail \cup {<<call[c].id, "outcome">>}
  /\ failed' = IF class = "environment" THEN failed
               ELSE [failed EXCEPT ![call[c].run] = @ \cup {call[c].stmt}]
  /\ attempts' = IF class = "database-error"
                 THEN [attempts EXCEPT ![call[c].run] = @ + 1] ELSE attempts
  /\ UNCHANGED <<clock, backs, calls, deadline, artifacts, puts, phase>>

(* Mutation: the outcome event goes out after the store has taken the result. *)
StoreRefuses_unrecorded(c) ==
  /\ call[c] # Idle
  /\ EndExecution(c, 0)
  /\ UNCHANGED <<clock, backs, calls, deadline, failed, attempts, artifacts, puts,
                 trail, phase>>

\* put throws, because the clock's first reading was not a number: the call is
\* accounted for, with no time, its outcome is on the trail, and the error
\* propagates past the repair ledger.
StoreRefuses(c) ==
  /\ call[c] # Idle
  /\ EndExecution(c, 0)
  /\ trail' = trail \cup {<<call[c].id, "outcome">>}
  /\ UNCHANGED <<clock, backs, calls, deadline, failed, attempts, artifacts, puts, phase>>

(* ---- The finishing of a run (run-service.ts finalize) ---- *)

\* finalize refuses while a statement is in flight, then awaits its appends.
Finalize(r) ==
  /\ phase[r] = "open" /\ account[r].active = 0
  /\ phase' = [phase EXCEPT ![r] = "closing"]
  /\ UNCHANGED <<clock, backs, calls, call, account, deadline, failed,
                 attempts, artifacts, puts, trail>>

(* Mutation: the account is dropped while a statement is live. *)
ReleaseRun_live(r) ==
  /\ phase[r] = "closing"
  /\ account' = [account EXCEPT ![r] = NoUsage]
  /\ artifacts' = {a \in artifacts : a.run # r}
  /\ phase' = [phase EXCEPT ![r] = "released"]
  /\ UNCHANGED <<clock, backs, calls, call, deadline, failed, attempts, puts, trail>>

\* releaseExecutionRun: the tracker first, because it refuses while an
\* execution is live, and then the artifacts.
ReleaseRun(r) ==
  /\ phase[r] = "closing" /\ account[r].active = 0
  /\ account' = [account EXCEPT ![r] = NoUsage]
  /\ artifacts' = {a \in artifacts : a.run # r}
  /\ phase' = [phase EXCEPT ![r] = "released"]
  /\ UNCHANGED <<clock, backs, calls, call, deadline, failed, attempts, puts, trail>>

\* A statement began between the check and the release: endRun throws, the
\* stream is closed and nobody releases the run again.
ReleaseRefused(r) ==
  /\ phase[r] = "closing" /\ account[r].active > 0
  /\ phase' = [phase EXCEPT ![r] = "held"]
  /\ UNCHANGED <<clock, backs, calls, call, account, deadline, failed,
                 attempts, artifacts, puts, trail>>

(* ---- The clock ---- *)

Tick ==
  /\ clock < MaxClock /\ clock' = clock + 1
  /\ UNCHANGED <<backs, calls, call, account, deadline, failed, attempts,
                 artifacts, puts, trail, phase>>

StepBack ==
  /\ backs < MaxBacks /\ clock > 0
  /\ clock' = clock - 1 /\ backs' = backs + 1
  /\ UNCHANGED <<calls, call, account, deadline, failed, attempts, artifacts, puts,
                 trail, phase>>

Next ==
  \/ \E c \in Callers, r \in Runs, s \in Statements : DeadlineRefuses(c, r, s)
  \/ \E c \in Callers, r \in Runs, s \in Statements : PolicyDenies(c, r, s)
  \/ \E c \in Callers, r \in Runs, s \in Statements : Invoke(c, r, s)
  \/ \E c \in Callers : Complete(c)
  \/ \E c \in Callers, k \in FailureClasses : Fail(c, k)
  \/ \E c \in Callers : StoreRefuses(c)
  \/ \E r \in Runs : Finalize(r)
  \/ \E r \in Runs : ReleaseRun(r)
  \/ \E r \in Runs : ReleaseRefused(r)
  \/ Tick
  \/ StepBack

Spec == Init /\ [][Next]_vars

-----------------------------------------------------------------------------
(* Properties *)

(* A run's slots in the budget tracker are exactly its calls in flight,      *)
(* whichever way calls end, and never more than the policy allows: no call   *)
(* that fails or whose result is refused strands a slot or frees one twice.  *)
SlotsBalanced == \A r \in Runs :
  /\ account[r].active = Cardinality(InFlight(r))
  /\ account[r].active <= MaxConcurrent

(* The ceilings.  The gates on statements and repairs count calls that ended, *)
(* and a call ends long after it was admitted, so calls running side by side  *)
(* can pass a ceiling together, by one less than the slots they can hold      *)
(* between them and no more; the artifact store does not outgrow its cap.     *)
CeilingsHold ==
  /\ \A r \in Runs :
       /\ account[r].executed + account[r].active <= MaxStatements + MaxConcurrent - 1
       /\ attempts[r] <= MaxRepairs + MaxConcurrent - 1
  /\ Cardinality(artifacts) <= MaxArtifacts

(* The audit trail tells the whole story: a call in flight has its decision  *)
(* there, and one that has ended its outcome as well, also when the store    *)
(* refused the result; nothing is stored of a call the trail does not close. *)
TrailFirst ==
  /\ \A c \in Callers : call[c] # Idle => <<call[c].id, "decision">> \in trail
  /\ \A i \in Ids : <<i, "decision">> \in trail =>
        <<i, "outcome">> \in trail \/ \E c \in Callers : call[c].id = i
  /\ \A a \in artifacts : <<a.id, "outcome">> \in trail

(* Once a finished run has been released it holds nothing: no account, no    *)
(* artifact, and no statement that could bring either back.                  *)
ReleasedWhole == \A r \in Runs : phase[r] = "released" =>
  /\ account[r] = NoUsage /\ InFlight(r) = {}
  /\ \A a \in artifacts : a.run # r

(* On a clock that only moves forward no call is granted time past the end   *)
(* of its run: a statement that keeps to its timeout ends before the deadline. *)
GrantEndsInTime == backs = 0 =>
  \A c \in Callers : call[c] # Idle => call[c].started + call[c].granted <= TotalMs

(* Time charged to a run never comes back, whatever its clock does.          *)
TimeNeverReturns ==
  [][\A r \in Runs : RemainingMs(deadline'[r]) <= RemainingMs(deadline[r])]_vars

Holding(r, now) == {a \in artifacts : a.run = r /\ ~HasExpired(a, now)}

(* A store at its cap is shared fairly: a live artifact goes, other than by  *)
(* the release of its run, only to make room for a result of its own run, or *)
(* of a run that holds none; and it is the oldest its run holds.             *)
EvictsOwnOldest ==
  [][\A a \in artifacts, c \in Callers :
       LET now == call[c].started + Elapsed(c)
       IN  /\ call[c] # Idle /\ call'[c] = Idle
           /\ a \in Holding(a.run, now) \ artifacts'
           => /\ call[c].run = a.run \/ Holding(call[c].run, now) = {}
              /\ \A b \in Holding(a.run, now) : a.at <= b.at]_vars

=============================================================================
