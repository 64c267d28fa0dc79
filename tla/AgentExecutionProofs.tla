------------------------ MODULE AgentExecutionProofs ------------------------
(* The audited execution of an agent's statements for every set of runs,   *)
(* callers and statements, and for every limit.                            *)
EXTENDS AgentExecution, FiniteSetTheorems, TLAPS

(* Every set of naturals that is not empty has a least member.             *)
LEMMA LeastExists ==
  ASSUME NEW T \in SUBSET Nat, T # {}
  PROVE  \E m \in T : \A n \in T : m <= n
<1> DEFINE R == OpToRel(<, Nat)
<1>1. IsWellFoundedOn(R, Nat)
  BY NatLessThanWellFounded
<1>2. PICK m \in T : \A n \in T : ~ (<<n, m>> \in R)
  BY <1>1, WFMin
<1>3. \A n \in T : ~ (n < m)
  BY <1>2 DEF OpToRel
<1> QED BY <1>3

(* What a caller awaits.                                                   *)
Awaited == [id : Nat \ {0}, run : Runs, stmt : Statements, granted : Nat, started : Nat]

Clockwork == [last : Nat, elapsed : Nat, broken : BOOLEAN]

Artifact == [id : Nat \ {0}, run : Runs, created : Nat, at : Nat]

(* Every variable stays within its type.                                   *)
ExecTypeOK ==
  /\ clock \in Nat /\ backs \in Nat /\ calls \in Nat /\ puts \in Nat
  /\ call = [c \in Callers |-> call[c]]
  /\ \A c \in Callers : call[c] # Idle => call[c] \in Awaited
  /\ account \in [Runs -> Account]
  /\ deadline \in [Runs -> Clockwork]
  /\ failed \in [Runs -> SUBSET Statements] /\ attempts \in [Runs -> Nat]
  /\ artifacts \in SUBSET Artifact /\ IsFiniteSet(artifacts)
  /\ phase \in [Runs -> {"open", "closing", "released", "held"}]

-----------------------------------------------------------------------------
(* The deadline *)

LEMMA Limits ==
  /\ MaxConcurrent \in Nat \ {0} /\ MaxStatements \in Nat \ {0} /\ MaxElapsed \in Nat \ {0}
  /\ Ceiling \in Nat \ {0} /\ Minimum \in Nat \ {0} /\ TotalMs \in Nat \ {0}
  /\ MaxRepairs \in Nat \ {0} /\ MaxArtifacts \in Nat \ {0} /\ Ttl \in Nat \ {0}
BY LimitsAssumption

(* A reading charges time and never gives any back.                        *)
LEMMA AskedCharges ==
  ASSUME clock \in Nat, NEW d \in Clockwork, NEW e \in Asked(d)
  PROVE  /\ e \in Clockwork
         /\ RemainingMs(e) <= RemainingMs(d)
         /\ RemainingMs(e) \in Nat
         /\ Granted(e) \in Nat /\ Granted(e) <= RemainingMs(e)
<1>1. e = d \/ e = Charge(d) \/ e = [d EXCEPT !.broken = TRUE]
  BY DEF Asked
<1>2. Floor0(clock - d.last) \in Nat
  BY DEF Floor0, Clockwork
<1>3. TotalMs \in Nat /\ Ceiling \in Nat
  BY Limits
<1>4. \A x \in Clockwork : RemainingMs(x) \in Nat
  BY <1>3 DEF RemainingMs, Floor0, Clockwork
<1>5. e \in Clockwork
  <2>1. CASE e = Charge(d)
    <3>1. d.elapsed + Floor0(clock - d.last) \in Nat
      BY <1>2 DEF Clockwork
    <3> QED BY <2>1, <3>1 DEF Charge, Clockwork
  <2>2. CASE e = [d EXCEPT !.broken = TRUE]
    BY <2>2 DEF Clockwork
  <2> QED BY <1>1, <2>1, <2>2
<1>6. RemainingMs(e) <= RemainingMs(d)
  <2>1. CASE e = d
    BY <2>1, <1>4
  <2>2. CASE e = Charge(d)
    <3>1. e.broken = d.broken /\ e.elapsed = d.elapsed + Floor0(clock - d.last)
      BY <2>2 DEF Charge, Clockwork
    <3>2. d.elapsed \in Nat
      BY DEF Clockwork
    <3> QED BY <3>1, <3>2, <1>2, <1>3 DEF RemainingMs, Floor0
  <2>3. CASE e = [d EXCEPT !.broken = TRUE]
    <3>1. e.broken = TRUE
      BY <2>3 DEF Clockwork
    <3>2. RemainingMs(e) = 0
      BY <3>1 DEF RemainingMs
    <3> QED BY <3>2, <1>4
  <2> QED BY <1>1, <2>1, <2>2, <2>3
<1>7. Granted(e) \in Nat /\ Granted(e) <= RemainingMs(e)
  BY <1>3, <1>4, <1>5 DEF Granted, Least
<1> QED BY <1>4, <1>5, <1>6, <1>7
-----------------------------------------------------------------------------
(* What a step does to the calls: most leave them alone, one starts, one   *)
(* of three kinds ends.                                                    *)

Quiet == UNCHANGED <<call, account, artifacts, puts>>

(* The parts of Invoke the accounting rests on.                            *)
Starts(c, r) ==
  /\ call[c] = Idle /\ phase[r] \in {"open", "closing"}
  /\ account[r].active < MaxConcurrent /\ account[r].executed + 1 <= MaxStatements
  /\ attempts[r] < MaxRepairs
  /\ \E s \in Statements, d \in Asked(deadline[r]) :
       call' = [call EXCEPT ![c] = [id |-> calls + 1, run |-> r, stmt |-> s,
                                    granted |-> Granted(d), started |-> clock]]
  /\ account' = [account EXCEPT ![r].active = @ + 1]
  /\ UNCHANGED <<attempts, phase, artifacts, puts>>

Ends(c, ms) ==
  /\ call[c] # Idle /\ EndExecution(c, ms) /\ UNCHANGED phase
  /\ \/ attempts' = attempts
     \/ attempts' = [attempts EXCEPT ![call[c].run] = @ + 1]

Released(r) ==
  /\ account[r].active = 0 /\ account' = [account EXCEPT ![r] = NoUsage]
  /\ artifacts' = {a \in artifacts : a.run # r} /\ UNCHANGED <<call, attempts, puts>>

LEMMA StepKinds ==
  ASSUME ExecTypeOK, [Next]_vars
  PROVE  \/ Quiet /\ UNCHANGED attempts
         \/ \E c \in Callers, r \in Runs : Starts(c, r)
         \/ \E c \in Callers, ms \in Nat : Ends(c, ms)
         \/ \E r \in Runs : Released(r)
<1>1. ASSUME NEW c \in Callers, NEW r \in Runs, NEW s \in Statements,
             DeadlineRefuses(c, r, s) \/ PolicyDenies(c, r, s)
      PROVE  Quiet /\ UNCHANGED attempts
  BY <1>1 DEF DeadlineRefuses, PolicyDenies, Quiet
<1>2. ASSUME NEW c \in Callers, NEW r \in Runs, NEW s \in Statements, Invoke(c, r, s)
      PROVE  Starts(c, r)
  BY <1>2 DEF Invoke, Reaches, Admits, WithinBudget, Starts
<1>3. ASSUME NEW c \in Callers, call[c] # Idle PROVE Elapsed(c) \in Nat
  BY <1>3 DEF Elapsed, Floor0, ExecTypeOK, Awaited
<1>4. ASSUME NEW c \in Callers, Complete(c) PROVE Ends(c, Elapsed(c)) /\ Elapsed(c) \in Nat
  BY <1>3, <1>4 DEF Complete, Ends
<1>5. ASSUME NEW c \in Callers, NEW k \in FailureClasses, Fail(c, k)
      PROVE  Ends(c, Elapsed(c)) /\ Elapsed(c) \in Nat
  BY <1>3, <1>5 DEF Fail, Ends
<1>6. ASSUME NEW c \in Callers, StoreRefuses(c) PROVE Ends(c, 0)
  BY <1>6 DEF StoreRefuses, Ends
<1>7. ASSUME NEW r \in Runs, Finalize(r) \/ ReleaseRefused(r) PROVE Quiet /\ UNCHANGED attempts
  BY <1>7 DEF Finalize, ReleaseRefused, Quiet
<1>8. ASSUME NEW r \in Runs, ReleaseRun(r) PROVE Released(r)
  BY <1>8 DEF ReleaseRun, Released
<1>9. CASE Tick \/ StepBack \/ UNCHANGED vars
  BY <1>9 DEF Tick, StepBack, vars, Quiet
<1> QED BY <1>1, <1>2, <1>4, <1>5, <1>6, <1>7, <1>8, <1>9 DEF Next

-----------------------------------------------------------------------------
(* Type correctness *)

CallsOK ==
  /\ call = [c \in Callers |-> call[c]]
  /\ \A c \in Callers : call[c] # Idle => call[c] \in Awaited
  /\ account \in [Runs -> Account] /\ attempts \in [Runs -> Nat]

(* The slots of a run are its calls in flight, which are finitely many.    *)
Balanced == \A r \in Runs : IsFiniteSet(InFlight(r)) /\ account[r].active = Cardinality(InFlight(r))

LEMMA InFlightMembers ==
  ASSUME ExecTypeOK, NEW c \in Callers, call[c] # Idle
  PROVE  call[c].run \in Runs /\ c \in InFlight(call[c].run)
BY DEF ExecTypeOK, Awaited, InFlight

(* A call that ends has a slot to give back.                               *)
LEMMA SlotIsTaken ==
  ASSUME ExecTypeOK, Balanced, NEW c \in Callers, call[c] # Idle
  PROVE  account[call[c].run].active > 0
<1> DEFINE r == call[c].run
<1>1. r \in Runs /\ c \in InFlight(r)
  BY InFlightMembers
<1>2. IsFiniteSet(InFlight(r)) /\ account[r].active = Cardinality(InFlight(r))
  BY <1>1 DEF Balanced
<1>3. Cardinality(InFlight(r)) # 0 /\ Cardinality(InFlight(r)) \in Nat
  BY <1>1, <1>2, FS_EmptySet, FS_CardinalityType
<1> QED BY <1>2, <1>3

LEMMA CallsStep == ASSUME ExecTypeOK, Balanced, [Next]_vars PROVE CallsOK'
<1> USE DEF ExecTypeOK
<1>1. CASE Quiet /\ UNCHANGED attempts
  BY <1>1 DEF Quiet, CallsOK
<1>2. ASSUME NEW c \in Callers, NEW r \in Runs, Starts(c, r) PROVE CallsOK'
  <2>1. PICK s \in Statements, d \in Asked(deadline[r]) :
          call' = [call EXCEPT ![c] = [id |-> calls + 1, run |-> r, stmt |-> s,
                                       granted |-> Granted(d), started |-> clock]]
    BY <1>2 DEF Starts
  <2>2. Granted(d) \in Nat
    BY AskedCharges
  <2>3. [id |-> calls + 1, run |-> r, stmt |-> s, granted |-> Granted(d), started |-> clock] \in Awaited
    BY <2>2 DEF Awaited
  <2>4. \A x \in Callers : call'[x] # Idle => call'[x] \in Awaited
    BY <2>1, <2>3
  <2>5. account' \in [Runs -> Account]
    <3>1. account' = [account EXCEPT ![r].active = @ + 1]
      BY <1>2 DEF Starts
    <3> QED BY <3>1 DEF Account
  <2> QED BY <1>2, <2>1, <2>4, <2>5 DEF Starts, CallsOK
<1>3. ASSUME NEW c \in Callers, NEW ms \in Nat, Ends(c, ms) PROVE CallsOK'
  <2>1. call[c] \in Awaited /\ call[c].run \in Runs
    BY <1>3 DEF Ends, Awaited
  <2> account[call[c].run].active > 0
    BY <1>3, SlotIsTaken DEF Ends
  <2>2. call' = [call EXCEPT ![c] = Idle]
    BY <1>3 DEF Ends, EndExecution
  <2>3. account' \in [Runs -> Account]
    <3>1. account' = [account EXCEPT ![call[c].run] =
             [active |-> @.active - 1, executed |-> @.executed + 1, elapsed |-> @.elapsed + ms]]
      BY <1>3 DEF Ends, EndExecution
    <3>2. account[call[c].run] \in Account
      BY <2>1
    <3> QED BY <3>1, <3>2, <2>1, <1>3 DEF Account
  <2>4. attempts' \in [Runs -> Nat]
    BY <1>3, <2>1 DEF Ends
  <2> QED BY <2>2, <2>3, <2>4 DEF CallsOK
<1>4. ASSUME NEW r \in Runs, Released(r) PROVE CallsOK'
  BY <1>4 DEF Released, CallsOK, NoUsage, Account
<1> QED BY <1>1, <1>2, <1>3, <1>4, StepKinds
(* The slots stay balanced, whichever way calls end.                       *)
LEMMA BalanceStep == ASSUME ExecTypeOK, Balanced, [Next]_vars PROVE Balanced'
<1>1. CASE Quiet /\ UNCHANGED attempts
  BY <1>1 DEF Quiet, Balanced, InFlight
<1>2. ASSUME NEW c \in Callers, NEW r \in Runs, Starts(c, r) PROVE Balanced'
  <2>1. PICK x : call' = [call EXCEPT ![c] = x] /\ x.id = calls + 1 /\ x.run = r
    <3>1. PICK s \in Statements, d \in Asked(deadline[r]) :
            call' = [call EXCEPT ![c] = [id |-> calls + 1, run |-> r, stmt |-> s,
                                         granted |-> Granted(d), started |-> clock]]
      BY <1>2 DEF Starts
    <3> DEFINE w == [id |-> calls + 1, run |-> r, stmt |-> s, granted |-> Granted(d), started |-> clock]
    <3>2. w.id = calls + 1 /\ w.run = r
      OBVIOUS
    <3> HIDE DEF w
    <3>3. call' = [call EXCEPT ![c] = w]
      BY <3>1 DEF w
    <3> QED BY <3>2, <3>3
  <2>2. call[c].id = 0 /\ calls + 1 # 0
    BY <1>2 DEF Starts, Idle, ExecTypeOK
  <2>3. \A y \in Callers : call'[y] = IF y = c THEN x ELSE call[y]
    BY <2>1 DEF ExecTypeOK
  <2>4. InFlight(r)' = InFlight(r) \cup {c} /\ c \notin InFlight(r)
    BY <2>1, <2>2, <2>3 DEF InFlight
  <2>5. \A q \in Runs : q # r => InFlight(q)' = InFlight(q)
    BY <2>1, <2>2, <2>3 DEF InFlight
  <2>6. /\ account'[r].active = account[r].active + 1
        /\ \A q \in Runs : q # r => account'[q] = account[q]
    BY <1>2 DEF Starts, ExecTypeOK, Account
  <2>7. IsFiniteSet(InFlight(r)) /\ account[r].active = Cardinality(InFlight(r))
    BY DEF Balanced
  <2>8. IsFiniteSet(InFlight(r)') /\ account'[r].active = Cardinality(InFlight(r)')
    <3> DEFINE s == InFlight(r)
    <3>1. IsFiniteSet(s) /\ c \notin s
      BY <2>4, <2>7
    <3>2. IsFiniteSet(s \cup {c}) /\ Cardinality(s \cup {c}) = Cardinality(s) + 1
      <4> HIDE DEF s
      <4> QED BY <3>1, FS_AddElement
    <3> QED BY <3>2, <2>4, <2>6, <2>7
  <2>9. ASSUME NEW q \in Runs PROVE IsFiniteSet(InFlight(q)') /\ account'[q].active = Cardinality(InFlight(q)')
    <3>1. CASE q = r
      BY <3>1, <2>8
    <3>2. CASE q # r
      BY <3>2, <2>5, <2>6 DEF Balanced
    <3> QED BY <3>1, <3>2
  <2> QED BY <2>9 DEF Balanced
<1>3. ASSUME NEW c \in Callers, NEW ms \in Nat, Ends(c, ms) PROVE Balanced'
  <2>1. PICK r \in Runs : r = call[c].run /\ c \in InFlight(r)
    BY <1>3, InFlightMembers DEF Ends
  <2>2. \A y \in Callers : call'[y] = IF y = c THEN Idle ELSE call[y]
    BY <1>3 DEF Ends, EndExecution, ExecTypeOK
  <2>3. InFlight(r)' = InFlight(r) \ {c}
    BY <2>2 DEF InFlight, Idle
  <2>4. \A q \in Runs : q # r => InFlight(q)' = InFlight(q)
    BY <2>1, <2>2 DEF InFlight, Idle
  <2>5. /\ account'[r].active = account[r].active - 1
        /\ \A q \in Runs : q # r => account'[q] = account[q]
    BY <1>3, <2>1 DEF Ends, EndExecution, ExecTypeOK
  <2>6. IsFiniteSet(InFlight(r)) /\ account[r].active = Cardinality(InFlight(r))
    BY <2>1 DEF Balanced
  <2>7. IsFiniteSet(InFlight(r)') /\ account'[r].active = Cardinality(InFlight(r)')
    <3> DEFINE s == InFlight(r)
    <3>1. IsFiniteSet(s) /\ c \in s
      BY <2>1, <2>6
    <3>2. IsFiniteSet(s \ {c}) /\ Cardinality(s \ {c}) = Cardinality(s) - 1
      <4> HIDE DEF s
      <4> QED BY <3>1, FS_RemoveElement
    <3> QED BY <3>2, <2>3, <2>5, <2>6
  <2>8. ASSUME NEW q \in Runs PROVE IsFiniteSet(InFlight(q)') /\ account'[q].active = Cardinality(InFlight(q)')
    <3>1. CASE q = r
      BY <3>1, <2>7
    <3>2. CASE q # r
      BY <3>2, <2>4, <2>5 DEF Balanced
    <3> QED BY <3>1, <3>2
  <2> QED BY <2>8 DEF Balanced
<1>4. ASSUME NEW r \in Runs, Released(r) PROVE Balanced'
  <2>1. \A q \in Runs : InFlight(q)' = InFlight(q)
    BY <1>4 DEF Released, InFlight
  <2>2. \A q \in Runs : account'[q].active = account[q].active
    BY <1>4 DEF Released, ExecTypeOK, NoUsage
  <2> QED BY <2>1, <2>2 DEF Balanced
<1> QED BY <1>1, <1>2, <1>3, <1>4, StepKinds

(* put() keeps the store a finite set of artifacts.                        *)
LEMMA PutTypes ==
  ASSUME ExecTypeOK, NEW a \in Artifact, NEW now \in Nat
  PROVE  Put(artifacts, a, now) \in SUBSET Artifact /\ IsFiniteSet(Put(artifacts, a, now))
<1> DEFINE swept == {b \in artifacts : ~HasExpired(b, now)}
           room == IF Cardinality(swept) >= MaxArtifacts
                   THEN swept \ {Victim(swept, a.run)} ELSE swept
<1>1. Put(artifacts, a, now) = room \cup {a} /\ room \in SUBSET artifacts
  BY DEF Put
<1>2. IsFiniteSet(artifacts) /\ artifacts \in SUBSET Artifact
  BY DEF ExecTypeOK
<1> HIDE DEF room
<1>3. IsFiniteSet(room)
  BY <1>1, <1>2, FS_Subset
<1>4. IsFiniteSet(room \cup {a})
  BY <1>3, FS_AddElement
<1> QED BY <1>1, <1>2, <1>4

(* The artifact of a call that answered.                                   *)
Result(c) == [id |-> call[c].id, run |-> call[c].run, created |-> call[c].started, at |-> puts + 1]

LEMMA ResultIsArtifact ==
  ASSUME ExecTypeOK, NEW c \in Callers, call[c] # Idle
  PROVE  /\ Result(c) \in Artifact
         /\ Elapsed(c) \in Nat /\ call[c].started \in Nat /\ call[c].started + Elapsed(c) \in Nat
BY DEF ExecTypeOK, Awaited, Result, Artifact, Elapsed, Floor0

LEMMA TypeStep == ASSUME ExecTypeOK, Balanced, [Next]_vars PROVE ExecTypeOK'
<1>0. CallsOK'
  BY CallsStep
<1>1. ASSUME NEW c \in Callers, NEW r \in Runs, NEW s \in Statements, DeadlineRefuses(c, r, s)
      PROVE  ExecTypeOK'
  <2>1. \A d \in Asked(deadline[r]) : d \in Clockwork
    BY AskedCharges DEF ExecTypeOK
  <2> QED BY <1>0, <1>1, <2>1 DEF DeadlineRefuses, ExecTypeOK, CallsOK
<1>2. ASSUME NEW c \in Callers, NEW r \in Runs, NEW s \in Statements, PolicyDenies(c, r, s)
      PROVE  ExecTypeOK'
  <2>1. \A d \in Asked(deadline[r]) : d \in Clockwork
    BY AskedCharges DEF ExecTypeOK
  <2> QED BY <1>0, <1>2, <2>1 DEF PolicyDenies, ExecTypeOK, CallsOK
<1>3. ASSUME NEW c \in Callers, NEW r \in Runs, NEW s \in Statements, Invoke(c, r, s)
      PROVE  ExecTypeOK'
  <2>1. \A d \in Asked(deadline[r]) : d \in Clockwork
    BY AskedCharges DEF ExecTypeOK
  <2> QED BY <1>0, <1>3, <2>1 DEF Invoke, ExecTypeOK, CallsOK
<1>4. ASSUME NEW c \in Callers, Complete(c) PROVE ExecTypeOK'
  <2>1. call[c] # Idle
    BY <1>4 DEF Complete
  <2>2. artifacts' = Put(artifacts, Result(c), call[c].started + Elapsed(c))
    BY <1>4 DEF Complete, Result
  <2>3. artifacts' \in SUBSET Artifact /\ IsFiniteSet(artifacts')
    BY <2>1, <2>2, ResultIsArtifact, PutTypes
  <2> QED BY <1>0, <1>4, <2>3 DEF Complete, ExecTypeOK, CallsOK
<1>5. ASSUME NEW c \in Callers, NEW k \in FailureClasses, Fail(c, k) PROVE ExecTypeOK'
  <2>1. call[c].run \in Runs /\ call[c].stmt \in Statements
    BY <1>5 DEF Fail, ExecTypeOK, Awaited
  <2> QED BY <1>0, <1>5, <2>1 DEF Fail, ExecTypeOK, CallsOK
<1>6. ASSUME NEW c \in Callers, StoreRefuses(c) PROVE ExecTypeOK'
  BY <1>0, <1>6 DEF StoreRefuses, ExecTypeOK, CallsOK
<1>7. ASSUME NEW r \in Runs, Finalize(r) \/ ReleaseRefused(r) PROVE ExecTypeOK'
  BY <1>0, <1>7 DEF Finalize, ReleaseRefused, ExecTypeOK, CallsOK
<1>8. ASSUME NEW r \in Runs, ReleaseRun(r) PROVE ExecTypeOK'
  <2>1. IsFiniteSet(artifacts') /\ artifacts' \in SUBSET Artifact
    BY <1>8, FS_Subset DEF ReleaseRun, ExecTypeOK
  <2> QED BY <1>0, <1>8, <2>1 DEF ReleaseRun, ExecTypeOK, CallsOK
<1>9. CASE Tick \/ StepBack \/ UNCHANGED vars
  BY <1>0, <1>9 DEF Tick, StepBack, vars, ExecTypeOK, CallsOK
<1> QED BY <1>1, <1>2, <1>3, <1>4, <1>5, <1>6, <1>7, <1>8, <1>9 DEF Next

LEMMA TypeInit == Init => ExecTypeOK /\ Balanced
<1> SUFFICES ASSUME Init PROVE ExecTypeOK /\ Balanced
  OBVIOUS
<1>1. ExecTypeOK
  BY FS_EmptySet DEF Init, ExecTypeOK, Account, NoUsage, Clockwork
<1>2. \A r \in Runs : InFlight(r) = {}
  BY DEF Init, InFlight, Idle
<1> QED BY <1>1, <1>2, FS_EmptySet DEF Balanced, Init, NoUsage

(* Type correctness of the execution, and of its slots.                    *)
THEOREM ExecTypeCorrect == Spec => [](ExecTypeOK /\ Balanced)
BY TypeInit, TypeStep, BalanceStep, PTL DEF Spec
-----------------------------------------------------------------------------
(* The ceilings.  A call was admitted while fewer calls than the slots were *)
(* under way and fewer statements than the ceiling had ended; each call     *)
(* that ends trades a slot for a statement, and at most for an attempt.     *)

RunCeilings == \A r \in Runs :
  /\ account[r].active <= MaxConcurrent
  /\ account[r].executed + account[r].active <= MaxStatements + MaxConcurrent - 1
  /\ attempts[r] + account[r].active <= MaxRepairs + MaxConcurrent - 1

LEMMA CeilingStep == ASSUME ExecTypeOK, Balanced, RunCeilings, [Next]_vars PROVE RunCeilings'
<1> DEFINE Within(n, e, a) == /\ n <= MaxConcurrent
                              /\ e + n <= MaxStatements + MaxConcurrent - 1
                              /\ a + n <= MaxRepairs + MaxConcurrent - 1
<1>1. \A r \in Runs : /\ account[r].active \in Nat /\ account[r].executed \in Nat /\ attempts[r] \in Nat
                      /\ Within(account[r].active, account[r].executed, attempts[r])
  BY DEF ExecTypeOK, Account, RunCeilings
<1>2. CASE Quiet /\ UNCHANGED attempts
  BY <1>2 DEF Quiet, RunCeilings
<1>3. ASSUME NEW c \in Callers, NEW r \in Runs, Starts(c, r), NEW q \in Runs
      PROVE  Within(account'[q].active, account'[q].executed, attempts'[q])
  <2>1. /\ account[r].active < MaxConcurrent /\ account[r].executed + 1 <= MaxStatements
        /\ attempts[r] < MaxRepairs /\ attempts' = attempts
    BY <1>3 DEF Starts
  <2>2. CASE q = r
    <3>1. account'[r].active = account[r].active + 1 /\ account'[r].executed = account[r].executed
      BY <1>3 DEF Starts, ExecTypeOK, Account
    <3> QED BY <1>1, <2>1, <2>2, <3>1, Limits
  <2>3. CASE q # r
    <3>1. account'[q] = account[q]
      BY <1>3, <2>3 DEF Starts, ExecTypeOK
    <3> QED BY <1>1, <2>1, <3>1
  <2> QED BY <2>2, <2>3
<1>4. ASSUME NEW c \in Callers, NEW ms \in Nat, Ends(c, ms), NEW q \in Runs
      PROVE  Within(account'[q].active, account'[q].executed, attempts'[q])
  <2>1. PICK r \in Runs : r = call[c].run
    BY <1>4, InFlightMembers DEF Ends
  <2>2. account[r].active > 0
    BY <1>4, <2>1, SlotIsTaken DEF Ends
  <2>3. CASE q = r
    <3>1. /\ account'[r].active = account[r].active - 1
          /\ account'[r].executed = account[r].executed + 1
      BY <1>4, <2>1 DEF Ends, EndExecution, ExecTypeOK
    <3>2. attempts'[r] = attempts[r] \/ attempts'[r] = attempts[r] + 1
      BY <1>4, <2>1 DEF Ends, ExecTypeOK
    <3> QED BY <1>1, <2>2, <2>3, <3>1, <3>2, Limits
  <2>4. CASE q # r
    <3>1. account'[q] = account[q] /\ attempts'[q] = attempts[q]
      BY <1>4, <2>1, <2>4 DEF Ends, EndExecution, ExecTypeOK
    <3> QED BY <1>1, <3>1
  <2> QED BY <2>3, <2>4
<1>5. ASSUME NEW r \in Runs, Released(r), NEW q \in Runs
      PROVE  Within(account'[q].active, account'[q].executed, attempts'[q])
  <2>1. CASE q = r
    <3>1. account'[r].active = 0 /\ account'[r].executed = 0 /\ attempts'[r] = attempts[r]
          /\ account[r].active = 0
      BY <1>5 DEF Released, NoUsage, ExecTypeOK
    <3> QED BY <1>1, <2>1, <3>1, Limits
  <2>2. CASE q # r
    <3>1. account'[q] = account[q] /\ attempts'[q] = attempts[q]
      BY <1>5, <2>2 DEF Released, ExecTypeOK
    <3> QED BY <1>1, <3>1
  <2> QED BY <2>1, <2>2
<1> QED BY <1>2, <1>3, <1>4, <1>5, StepKinds DEF RunCeilings

(* The store's victim: of the run that stores when it holds something, and *)
(* the oldest of those it is taken from.                                   *)
LEMMA OldestExists ==
  ASSUME NEW S \in SUBSET Artifact, S # {}
  PROVE  Oldest(S) \in S /\ \A b \in S : Oldest(S).at <= b.at
<1> DEFINE Places == {a.at : a \in S}
<1>1. Places \in SUBSET Nat /\ Places # {}
  BY DEF Artifact
<1>2. PICK n \in Places : \A m \in Places : n <= m
  BY <1>1, LeastExists
<1>3. \E a \in S : \A b \in S : a.at <= b.at
  BY <1>2
<1> QED BY <1>3 DEF Oldest

LEMMA VictimIsOldest ==
  ASSUME NEW S \in SUBSET Artifact, S # {}, NEW r
  PROVE  LET own == {a \in S : a.run = r}
         IN  /\ Victim(S, r) \in S
             /\ own # {} => Victim(S, r) \in own /\ \A b \in own : Victim(S, r).at <= b.at
             /\ own = {} => \A b \in S : Victim(S, r).at <= b.at
<1> DEFINE own == {a \in S : a.run = r}
<1>1. own \in SUBSET Artifact /\ own \subseteq S
  OBVIOUS
<1>2. CASE own # {}
  <2>1. Victim(S, r) = Oldest(own)
    BY <1>2 DEF Victim
  <2> HIDE DEF own
  <2>2. Oldest(own) \in own /\ \A b \in own : Oldest(own).at <= b.at
    BY <1>1, <1>2, OldestExists
  <2>3. Victim(S, r) \in S /\ Victim(S, r) \in own /\ \A b \in own : Victim(S, r).at <= b.at
    BY <2>1, <2>2, <1>1
  <2> QED BY <2>3, <1>2 DEF own
<1>3. CASE own = {}
  <2>1. Victim(S, r) = Oldest(S)
    BY <1>3 DEF Victim
  <2> QED BY <2>1, <1>3, OldestExists
<1> QED BY <1>2, <1>3

LEMMA PutKeepsCap ==
  ASSUME ExecTypeOK, Cardinality(artifacts) <= MaxArtifacts, NEW a \in Artifact, NEW now \in Nat
  PROVE  Cardinality(Put(artifacts, a, now)) <= MaxArtifacts
<1> DEFINE swept == {b \in artifacts : ~HasExpired(b, now)}
           room == IF Cardinality(swept) >= MaxArtifacts
                   THEN swept \ {Victim(swept, a.run)} ELSE swept
<1>1. Put(artifacts, a, now) = room \cup {a}
  BY DEF Put
<1>2. /\ IsFiniteSet(swept) /\ swept \in SUBSET Artifact
      /\ Cardinality(swept) \in Nat /\ Cardinality(swept) <= MaxArtifacts
  <2>1. swept \in SUBSET artifacts /\ IsFiniteSet(artifacts) /\ artifacts \in SUBSET Artifact
    BY DEF ExecTypeOK
  <2> HIDE DEF swept
  <2>2. IsFiniteSet(swept) /\ Cardinality(swept) <= Cardinality(artifacts)
    BY <2>1, FS_Subset
  <2>3. Cardinality(swept) \in Nat /\ Cardinality(artifacts) \in Nat
    BY <2>1, <2>2, FS_CardinalityType
  <2> QED BY <2>1, <2>2, <2>3, Limits
<1>3. IsFiniteSet(room) /\ Cardinality(room) \in Nat /\ Cardinality(room) < MaxArtifacts
  <2>1. CASE Cardinality(swept) >= MaxArtifacts
    <3>1. swept # {}
      BY <2>1, FS_EmptySet, Limits
    <3> HIDE DEF swept
    <3>2. Victim(swept, a.run) \in swept
      BY <1>2, <3>1, VictimIsOldest
    <3>3. room = swept \ {Victim(swept, a.run)}
      BY <2>1
    <3>4. IsFiniteSet(room) /\ Cardinality(room) = Cardinality(swept) - 1
      BY <1>2, <3>2, <3>3, FS_RemoveElement
    <3> QED BY <1>2, <2>1, <3>4, Limits
  <2>2. CASE ~(Cardinality(swept) >= MaxArtifacts)
    BY <1>2, <2>2, Limits
  <2> QED BY <2>1, <2>2
<1> HIDE DEF room
<1>4. Cardinality(room \cup {a}) = IF a \in room THEN Cardinality(room) ELSE Cardinality(room) + 1
  BY <1>3, FS_AddElement
<1>5. IsFiniteSet(room \cup {a}) /\ Cardinality(room \cup {a}) \in Nat
  BY <1>3, FS_AddElement, FS_CardinalityType
<1> QED BY <1>1, <1>3, <1>4, <1>5, Limits

StoreCapped == Cardinality(artifacts) <= MaxArtifacts

LEMMA StoreStep ==
  ASSUME ExecTypeOK, StoreCapped, [Next]_vars
  PROVE  StoreCapped'
<1> SUFFICES Cardinality(artifacts') <= MaxArtifacts
  BY DEF StoreCapped
<1>0. Cardinality(artifacts) <= MaxArtifacts
  BY DEF StoreCapped
<1>1. ASSUME NEW c \in Callers, Complete(c) PROVE Cardinality(artifacts') <= MaxArtifacts
  <2>1. artifacts' = Put(artifacts, Result(c), call[c].started + Elapsed(c)) /\ call[c] # Idle
    BY <1>1 DEF Complete, Result
  <2> QED BY <1>0, <2>1, ResultIsArtifact, PutKeepsCap
<1>2. ASSUME NEW r \in Runs, ReleaseRun(r) PROVE Cardinality(artifacts') <= MaxArtifacts
  <2>1. artifacts' \in SUBSET artifacts /\ IsFiniteSet(artifacts)
    BY <1>2 DEF ReleaseRun, ExecTypeOK
  <2>2. IsFiniteSet(artifacts') /\ Cardinality(artifacts') <= Cardinality(artifacts)
    BY <2>1, FS_Subset
  <2>3. Cardinality(artifacts') \in Nat /\ Cardinality(artifacts) \in Nat
    BY <2>1, <2>2, FS_CardinalityType
  <2> QED BY <1>0, <2>2, <2>3, Limits
<1> QED BY <1>0, <1>1, <1>2 DEF Next, DeadlineRefuses, PolicyDenies, Invoke, Fail, StoreRefuses,
       Finalize, ReleaseRefused, Tick, StepBack, vars

(* The ceilings of the policy, the repair ledger and the artifact store,   *)
(* by their exact margins, for every number of callers.                    *)
THEOREM CeilingsAreHeld == Spec => []CeilingsHold
<1>1. Init => RunCeilings /\ StoreCapped
  BY Limits, FS_EmptySet DEF Init, RunCeilings, StoreCapped, NoUsage
<1>2. ExecTypeOK /\ RunCeilings /\ StoreCapped => CeilingsHold
  <2> SUFFICES ASSUME ExecTypeOK, RunCeilings, StoreCapped, NEW r \in Runs
               PROVE  /\ account[r].executed + account[r].active <= MaxStatements + MaxConcurrent - 1
                      /\ attempts[r] <= MaxRepairs + MaxConcurrent - 1
    BY DEF CeilingsHold, StoreCapped
  <2>1. account[r].active \in Nat /\ attempts[r] \in Nat
    BY DEF ExecTypeOK, Account
  <2> QED BY <2>1, Limits DEF RunCeilings
<1> QED BY <1>1, <1>2, CeilingStep, StoreStep, ExecTypeCorrect, PTL DEF Spec

(* A run's slots are its calls in flight, and never more than allowed.     *)
THEOREM SlotsAreBalanced == Spec => []SlotsBalanced
<1>1. Init => RunCeilings
  BY Limits DEF Init, RunCeilings, NoUsage
<1>2. Balanced /\ RunCeilings => SlotsBalanced
  BY DEF Balanced, RunCeilings, SlotsBalanced
<1> QED BY <1>1, <1>2, CeilingStep, ExecTypeCorrect, PTL DEF Spec
-----------------------------------------------------------------------------
(* The release *)

(* The store of a run that is not the one that stores only loses entries.  *)
LEMMA PutForeign ==
  ASSUME NEW a, NEW now, NEW x \in Put(artifacts, a, now), x # a
  PROVE  x \in artifacts
BY DEF Put

LEMMA ReleasedStep ==
  ASSUME ExecTypeOK, Balanced, ReleasedWhole, [Next]_vars
  PROVE  ReleasedWhole'
<1> SUFFICES ASSUME NEW r \in Runs, phase'[r] = "released"
             PROVE  /\ account'[r] = NoUsage /\ InFlight(r)' = {}
                    /\ \A a \in artifacts' : a.run # r
  BY DEF ReleasedWhole
<1>1. ASSUME NEW c \in Callers, NEW q \in Runs, NEW s \in Statements,
             DeadlineRefuses(c, q, s) \/ PolicyDenies(c, q, s)
      PROVE  UNCHANGED <<call, account, artifacts, phase>>
  BY <1>1 DEF DeadlineRefuses, PolicyDenies
<1>2. CASE UNCHANGED <<call, account, artifacts, phase>>
  BY <1>2 DEF ReleasedWhole, InFlight
<1>3. ASSUME NEW c \in Callers, NEW q \in Runs, NEW s \in Statements, Invoke(c, q, s)
      PROVE  /\ account'[r] = NoUsage /\ InFlight(r)' = {}
             /\ \A a \in artifacts' : a.run # r
  <2>1. phase' = phase /\ artifacts' = artifacts /\ q # r
    BY <1>3 DEF Invoke, Reaches
  <2>2. account[r] = NoUsage /\ InFlight(r) = {} /\ \A a \in artifacts : a.run # r
    BY <2>1 DEF ReleasedWhole
  <2>3. account'[r] = account[r]
    BY <1>3, <2>1 DEF Invoke, ExecTypeOK
  <2>4. \A y \in Callers : y # c => call'[y] = call[y]
    BY <1>3 DEF Invoke, ExecTypeOK
  <2>5. call'[c].run = q
    <3>1. PICK d \in Asked(deadline[q]) :
            call' = [call EXCEPT ![c] = [id |-> calls + 1, run |-> q, stmt |-> s,
                          granted |-> Granted(d), started |-> clock]]
      BY <1>3 DEF Invoke
    <3> QED BY <3>1 DEF ExecTypeOK
  <2> QED BY <2>1, <2>2, <2>3, <2>4, <2>5 DEF InFlight
<1>4. ASSUME NEW c \in Callers, NEW ms \in Nat, Ends(c, ms),
             \A a \in artifacts' : a \in artifacts \/ a.run = call[c].run
      PROVE  /\ account'[r] = NoUsage /\ InFlight(r)' = {}
             /\ \A a \in artifacts' : a.run # r
  <2>1. phase' = phase /\ c \in InFlight(call[c].run) /\ call[c].run \in Runs
    BY <1>4, InFlightMembers DEF Ends
  <2>2. account[r] = NoUsage /\ InFlight(r) = {} /\ \A a \in artifacts : a.run # r
    BY <2>1 DEF ReleasedWhole
  <2>3. call[c].run # r
    BY <2>1, <2>2
  <2>4. account'[r] = account[r]
    BY <1>4, <2>1, <2>3 DEF Ends, EndExecution, ExecTypeOK
  <2>5. \A y \in Callers : call'[y] = IF y = c THEN Idle ELSE call[y]
    BY <1>4 DEF Ends, EndExecution, ExecTypeOK
  <2>6. InFlight(r)' = {}
    BY <2>2, <2>5 DEF InFlight, Idle
  <2> QED BY <1>4, <2>2, <2>3, <2>4, <2>6
<1>5. ASSUME NEW c \in Callers, call[c] # Idle PROVE Elapsed(c) \in Nat
  BY <1>5, ResultIsArtifact
<1>6. ASSUME NEW c \in Callers, Complete(c)
      PROVE  /\ Ends(c, Elapsed(c)) /\ Elapsed(c) \in Nat
             /\ \A a \in artifacts' : a \in artifacts \/ a.run = call[c].run
  <2>1. artifacts' = Put(artifacts, Result(c), call[c].started + Elapsed(c)) /\ call[c] # Idle
    BY <1>6 DEF Complete, Result
  <2>2. \A a \in artifacts' : a \in artifacts \/ a = Result(c)
    BY <2>1, PutForeign
  <2>3. Result(c).run = call[c].run
    BY DEF Result
  <2> QED BY <1>5, <1>6, <2>1, <2>2, <2>3 DEF Complete, Ends
<1>7. ASSUME NEW c \in Callers, NEW k \in FailureClasses, Fail(c, k)
      PROVE  Ends(c, Elapsed(c)) /\ Elapsed(c) \in Nat /\ artifacts' = artifacts
  BY <1>5, <1>7 DEF Fail, Ends
<1>8. ASSUME NEW c \in Callers, StoreRefuses(c) PROVE Ends(c, 0) /\ artifacts' = artifacts
  BY <1>8 DEF StoreRefuses, Ends
<1>9. ASSUME NEW q \in Runs, Finalize(q) \/ ReleaseRefused(q)
      PROVE  UNCHANGED <<call, account, artifacts>> /\ phase[r] = "released"
  BY <1>9 DEF Finalize, ReleaseRefused, ExecTypeOK
<1>10. ASSUME NEW q \in Runs, ReleaseRun(q)
       PROVE  /\ account'[r] = NoUsage /\ InFlight(r)' = {}
              /\ \A a \in artifacts' : a.run # r
  <2>1. call' = call /\ artifacts' = {a \in artifacts : a.run # q}
    BY <1>10 DEF ReleaseRun
  <2>2. InFlight(r)' = InFlight(r)
    BY <2>1 DEF InFlight
  <2>3. CASE q = r
    <3>1. account[r].active = 0 /\ account'[r] = NoUsage
      BY <1>10, <2>3 DEF ReleaseRun, ExecTypeOK
    <3>2. IsFiniteSet(InFlight(r)) /\ Cardinality(InFlight(r)) = 0
      BY <3>1 DEF Balanced
    <3>3. InFlight(r) = {}
      BY <3>2, FS_EmptySet
    <3> QED BY <2>1, <2>2, <2>3, <3>1, <3>3
  <2>4. CASE q # r
    <3>1. phase[r] = "released" /\ account'[r] = account[r]
      BY <1>10, <2>4 DEF ReleaseRun, ExecTypeOK
    <3> QED BY <2>1, <2>2, <3>1 DEF ReleasedWhole
  <2> QED BY <2>3, <2>4
<1>11. CASE Tick \/ StepBack \/ UNCHANGED vars
  BY <1>2, <1>11 DEF Tick, StepBack, vars
<1>12. ASSUME UNCHANGED <<call, account, artifacts>>, phase[r] = "released"
       PROVE  /\ account'[r] = NoUsage /\ InFlight(r)' = {}
              /\ \A a \in artifacts' : a.run # r
  BY <1>12 DEF ReleasedWhole, InFlight
<1> QED BY <1>1, <1>2, <1>3, <1>4, <1>6, <1>7, <1>8, <1>9, <1>10, <1>11, <1>12 DEF Next

(* releaseExecutionRun: a released run holds nothing, whatever was racing  *)
(* its end.                                                                *)
THEOREM ReleaseIsWhole == Spec => []ReleasedWhole
<1>1. Init => ReleasedWhole
  BY DEF Init, ReleasedWhole
<1> QED BY <1>1, ReleasedStep, ExecTypeCorrect, PTL DEF Spec

-----------------------------------------------------------------------------
(* The audit trail *)

LEMMA TrailStep ==
  ASSUME ExecTypeOK, TrailFirst, [Next]_vars
  PROVE  TrailFirst'
<1>1. ASSUME NEW c \in Callers, NEW r \in Runs, NEW s \in Statements, Invoke(c, r, s)
      PROVE  TrailFirst'
  <2>1. PICK d \in Asked(deadline[r]) :
          call' = [call EXCEPT ![c] = [id |-> calls + 1, run |-> r, stmt |-> s,
                        granted |-> Granted(d), started |-> clock]]
    BY <1>1 DEF Invoke
  <2>2. /\ call'[c].id = calls + 1
        /\ \A y \in Callers : y # c => call'[y] = call[y]
    BY <2>1 DEF ExecTypeOK
  <2>3. /\ trail' = trail \cup {<<calls + 1, "decision">>} /\ artifacts' = artifacts
        /\ call[c] = Idle
    BY <1>1 DEF Invoke, Reaches
  <2>4. \A y \in Callers : call'[y] # Idle => <<call'[y].id, "decision">> \in trail'
    BY <2>2, <2>3 DEF TrailFirst
  <2>5. ASSUME NEW i \in Ids, <<i, "decision">> \in trail'
        PROVE  <<i, "outcome">> \in trail' \/ \E y \in Callers : call'[y].id = i
    <3>1. CASE i = calls + 1
      BY <3>1, <2>2
    <3>2. CASE i # calls + 1
      <4>1. <<i, "decision">> \in trail
        BY <3>2, <2>3, <2>5
      <4>2. CASE <<i, "outcome">> \in trail
        BY <4>2, <2>3
      <4>3. ASSUME NEW y \in Callers, call[y].id = i PROVE call'[y].id = i
        <5>1. y # c
          BY <4>3, <2>3 DEF Idle, Ids
        <5> QED BY <4>3, <5>1, <2>2
      <4> QED BY <4>1, <4>2, <4>3 DEF TrailFirst
    <3> QED BY <3>1, <3>2
  <2>6. \A a \in artifacts' : <<a.id, "outcome">> \in trail'
    BY <2>3 DEF TrailFirst
  <2> QED BY <2>4, <2>5, <2>6 DEF TrailFirst
<1>2. ASSUME NEW c \in Callers, call[c] # Idle, call' = [call EXCEPT ![c] = Idle],
             trail' = trail \cup {<<call[c].id, "outcome">>},
             \A a \in artifacts' : a \in artifacts \/ a.id = call[c].id
      PROVE  TrailFirst'
  <2>1. \A y \in Callers : call'[y] = IF y = c THEN Idle ELSE call[y]
    BY <1>2 DEF ExecTypeOK
  <2>2. \A y \in Callers : call'[y] # Idle => <<call'[y].id, "decision">> \in trail'
    BY <1>2, <2>1 DEF TrailFirst
  <2>3. ASSUME NEW i \in Ids, <<i, "decision">> \in trail'
        PROVE  <<i, "outcome">> \in trail' \/ \E y \in Callers : call'[y].id = i
    <3>1. <<i, "decision">> \in trail
      BY <1>2, <2>3
    <3>2. CASE <<i, "outcome">> \in trail
      BY <3>2, <1>2
    <3>3. ASSUME NEW y \in Callers, call[y].id = i
          PROVE  <<i, "outcome">> \in trail' \/ call'[y].id = i
      BY <1>2, <2>1, <3>3
    <3> QED BY <3>1, <3>2, <3>3 DEF TrailFirst
  <2>4. \A a \in artifacts' : <<a.id, "outcome">> \in trail'
    BY <1>2 DEF TrailFirst
  <2> QED BY <2>2, <2>3, <2>4 DEF TrailFirst
<1>3. ASSUME NEW c \in Callers, Complete(c) PROVE TrailFirst'
  <2>1. artifacts' = Put(artifacts, Result(c), call[c].started + Elapsed(c))
    BY <1>3 DEF Complete, Result
  <2>2. \A a \in artifacts' : a \in artifacts \/ a = Result(c)
    BY <2>1, PutForeign
  <2>3. Result(c).id = call[c].id
    BY DEF Result
  <2> QED BY <1>2, <1>3, <2>2, <2>3 DEF Complete, EndExecution
<1>4. ASSUME NEW c \in Callers, NEW k \in FailureClasses, Fail(c, k) PROVE TrailFirst'
  BY <1>2, <1>4 DEF Fail, EndExecution
<1>5. ASSUME NEW c \in Callers, StoreRefuses(c) PROVE TrailFirst'
  BY <1>2, <1>5 DEF StoreRefuses, EndExecution
<1>6. ASSUME UNCHANGED <<call, trail>>, artifacts' \subseteq artifacts PROVE TrailFirst'
  BY <1>6 DEF TrailFirst
<1> QED BY <1>1, <1>3, <1>4, <1>5, <1>6 DEF Next, DeadlineRefuses, PolicyDenies, Finalize,
       ReleaseRun, ReleaseRefused, Tick, StepBack, vars

(* executeAuditedOperation: the trail leads and closes every call.         *)
THEOREM TrailLeads == Spec => []TrailFirst
<1>1. Init => TrailFirst
  BY DEF Init, TrailFirst
<1> QED BY <1>1, TrailStep, ExecTypeCorrect, PTL DEF Spec

-----------------------------------------------------------------------------
(* The time of a run *)

LEMMA DeadlineStep ==
  ASSUME ExecTypeOK, [Next]_vars
  PROVE  \/ deadline' = deadline
         \/ \E r \in Runs : \E d \in Asked(deadline[r]) : deadline' = [deadline EXCEPT ![r] = d]
BY DEF Next, DeadlineRefuses, PolicyDenies, Invoke, Complete, Fail, StoreRefuses, Finalize,
       ReleaseRun, ReleaseRefused, Tick, StepBack, vars

LEMMA TimeStep ==
  ASSUME ExecTypeOK, [Next]_vars, NEW q \in Runs
  PROVE  RemainingMs(deadline'[q]) <= RemainingMs(deadline[q])
<1>1. \A x \in Clockwork : RemainingMs(x) \in Nat
  BY Limits DEF RemainingMs, Floor0, Clockwork
<1>2. CASE deadline' = deadline
  BY <1>1, <1>2 DEF ExecTypeOK
<1>3. ASSUME NEW r \in Runs, NEW d \in Asked(deadline[r]), deadline' = [deadline EXCEPT ![r] = d]
      PROVE  RemainingMs(deadline'[q]) <= RemainingMs(deadline[q])
  <2>1. RemainingMs(d) <= RemainingMs(deadline[r])
    BY AskedCharges DEF ExecTypeOK
  <2>2. deadline'[q] = IF q = r THEN d ELSE deadline[q]
    BY <1>3 DEF ExecTypeOK
  <2> QED BY <1>1, <2>1, <2>2 DEF ExecTypeOK
<1> QED BY <1>2, <1>3, DeadlineStep

(* AgentRunDeadline: time charged is never given back, whatever the clock. *)
THEOREM TimeIsSpent == Spec => TimeNeverReturns
<1>1. ExecTypeOK /\ [Next]_vars =>
        [\A r \in Runs : RemainingMs(deadline'[r]) <= RemainingMs(deadline[r])]_vars
  BY TimeStep
<1> QED BY <1>1, ExecTypeCorrect, PTL DEF Spec, TimeNeverReturns

(* While the clock has only moved forward, what a run was charged is the   *)
(* time at which it was last asked.                                        *)
ChargedToNow == backs = 0 => \A r \in Runs :
  deadline[r].elapsed = deadline[r].last /\ deadline[r].last <= clock

LEMMA ChargedAtNow ==
  ASSUME ExecTypeOK, ChargedToNow, backs = 0, NEW r \in Runs, NEW d \in Asked(deadline[r])
  PROVE  /\ d.elapsed = d.last /\ d.last <= clock
         /\ ~d.broken => d.elapsed = clock
<1>1. deadline[r] \in Clockwork /\ clock \in Nat
  BY DEF ExecTypeOK
<1>2. deadline[r].elapsed = deadline[r].last /\ deadline[r].last <= clock
  BY DEF ChargedToNow
<1>3. CASE d = deadline[r] /\ deadline[r].broken
  BY <1>2, <1>3
<1>4. CASE d = Charge(deadline[r])
  <2>1. d.last = clock /\ d.elapsed = deadline[r].elapsed + Floor0(clock - deadline[r].last)
    BY <1>1, <1>4 DEF Charge, Clockwork
  <2> QED BY <1>1, <1>2, <2>1 DEF Floor0, Clockwork
<1>5. CASE d = [deadline[r] EXCEPT !.broken = TRUE]
  <2>1. d.broken = TRUE /\ d.last = deadline[r].last /\ d.elapsed = deadline[r].elapsed
    BY <1>1, <1>5 DEF Clockwork
  <2> QED BY <1>2, <2>1
<1> QED BY <1>3, <1>4, <1>5 DEF Asked

LEMMA ForwardClock ==
  ASSUME ExecTypeOK, [Next]_vars, backs' = 0
  PROVE  backs = 0 /\ clock <= clock' /\ clock \in Nat /\ clock' \in Nat
<1>1. UNCHANGED <<clock, backs>> \/ Tick \/ StepBack
  BY DEF Next, DeadlineRefuses, PolicyDenies, Invoke, Complete, Fail, StoreRefuses, Finalize,
         ReleaseRun, ReleaseRefused, vars
<1>2. clock \in Nat /\ backs \in Nat
  BY DEF ExecTypeOK
<1>3. CASE UNCHANGED <<clock, backs>>
  BY <1>2, <1>3
<1>4. CASE Tick
  BY <1>2, <1>4 DEF Tick
<1>5. CASE StepBack
  <2>1. backs' = backs + 1
    BY <1>5 DEF StepBack
  <2> QED BY <1>2, <2>1
<1> QED BY <1>1, <1>3, <1>4, <1>5

LEMMA ChargedStep == ASSUME ExecTypeOK, ChargedToNow, [Next]_vars PROVE ChargedToNow'
<1> SUFFICES ASSUME backs' = 0, NEW q \in Runs
             PROVE  deadline'[q].elapsed = deadline'[q].last /\ deadline'[q].last <= clock'
  BY DEF ChargedToNow
<1>1. backs = 0 /\ clock <= clock' /\ clock \in Nat /\ clock' \in Nat
  BY ForwardClock
<1>2. deadline[q].elapsed = deadline[q].last /\ deadline[q].last <= clock /\ deadline[q].last \in Nat
  BY <1>1 DEF ChargedToNow, ExecTypeOK, Clockwork
<1>3. CASE deadline' = deadline
  BY <1>1, <1>2, <1>3
<1>4. ASSUME NEW r \in Runs, NEW d \in Asked(deadline[r]), deadline' = [deadline EXCEPT ![r] = d]
      PROVE  deadline'[q].elapsed = deadline'[q].last /\ deadline'[q].last <= clock'
  <2>1. d.elapsed = d.last /\ d.last <= clock
    BY <1>1, ChargedAtNow
  <2>2. d.last \in Nat
    BY AskedCharges DEF ExecTypeOK, Clockwork
  <2>3. deadline'[q] = IF q = r THEN d ELSE deadline[q]
    BY <1>4 DEF ExecTypeOK
  <2> QED BY <1>1, <1>2, <2>1, <2>2, <2>3
<1> QED BY <1>3, <1>4, DeadlineStep

LEMMA GrantStep ==
  ASSUME ExecTypeOK, ChargedToNow, GrantEndsInTime, [Next]_vars
  PROVE  GrantEndsInTime'
<1> SUFFICES ASSUME backs' = 0, NEW x \in Callers, call'[x] # Idle
             PROVE  call'[x].started + call'[x].granted <= TotalMs
  BY DEF GrantEndsInTime
<1>1. backs = 0
  BY ForwardClock
<1>2. CASE call'[x] = call[x]
  BY <1>1, <1>2 DEF GrantEndsInTime
<1>3. ASSUME NEW c \in Callers, NEW r \in Runs, NEW s \in Statements, Invoke(c, r, s)
      PROVE  call'[x].started + call'[x].granted <= TotalMs
  <2>1. PICK d \in Asked(deadline[r]) :
          /\ Granted(d) > 0
          /\ call' = [call EXCEPT ![c] = [id |-> calls + 1, run |-> r, stmt |-> s,
                        granted |-> Granted(d), started |-> clock]]
    BY <1>3 DEF Invoke
  <2>2. CASE x # c
    BY <1>2, <2>1, <2>2 DEF ExecTypeOK
  <2>3. CASE x = c
    <3>1. call'[x].started = clock /\ call'[x].granted = Granted(d)
      BY <2>1, <2>3 DEF ExecTypeOK
    <3>2. /\ RemainingMs(d) \in Nat /\ Granted(d) \in Nat
          /\ Granted(d) <= RemainingMs(d)
      BY AskedCharges DEF ExecTypeOK
    <3>3. RemainingMs(d) # 0
      BY <2>1, <3>2
    <3>4. ~d.broken
      BY <3>3 DEF RemainingMs
    <3>5. d.elapsed = clock
      BY <1>1, <3>4, ChargedAtNow
    <3>6. RemainingMs(d) = Floor0(TotalMs - clock)
      BY <3>4, <3>5 DEF RemainingMs
    <3> QED BY <3>1, <3>2, <3>3, <3>6, Limits DEF Floor0, ExecTypeOK
  <2> QED BY <2>2, <2>3
<1>4. ASSUME NEW c \in Callers, call' = [call EXCEPT ![c] = Idle] PROVE call'[x] = call[x]
  BY <1>4 DEF ExecTypeOK
<1>5. CASE \E c \in Callers : Complete(c) \/ StoreRefuses(c) \/ \E k \in FailureClasses : Fail(c, k)
  BY <1>2, <1>4, <1>5 DEF Complete, StoreRefuses, Fail, EndExecution
<1>6. CASE call' = call
  BY <1>2, <1>6
<1> QED BY <1>3, <1>5, <1>6 DEF Next, DeadlineRefuses, PolicyDenies, Finalize,
         ReleaseRun, ReleaseRefused, Tick, StepBack, vars

(* admit: on a clock that only moves forward no grant passes the deadline. *)
THEOREM GrantsEndInTime == Spec => []GrantEndsInTime
<1>1. Init => ChargedToNow /\ GrantEndsInTime
  BY DEF Init, ChargedToNow, GrantEndsInTime
<1> QED BY <1>1, ChargedStep, GrantStep, ExecTypeCorrect, PTL DEF Spec

-----------------------------------------------------------------------------
(* The eviction *)

LEMMA EvictionStep ==
  ASSUME ExecTypeOK, [Next]_vars, NEW a \in artifacts, NEW c \in Callers,
         NEW now, now = call[c].started + Elapsed(c),
         call[c] # Idle, call'[c] = Idle, a \in Holding(a.run, now) \ artifacts'
  PROVE  /\ call[c].run = a.run \/ Holding(call[c].run, now) = {}
         /\ \A b \in Holding(a.run, now) : a.at <= b.at
<1>1. \E x \in Callers : Complete(x) \/ StoreRefuses(x) \/ \E k \in FailureClasses : Fail(x, k)
  <2>1. ASSUME NEW x \in Callers, NEW r \in Runs, NEW s \in Statements, Invoke(x, r, s) PROVE FALSE
    BY <2>1 DEF Invoke
  <2>2. ~ (call' = call)
    OBVIOUS
  <2> QED BY <2>1, <2>2 DEF Next, DeadlineRefuses, PolicyDenies, Finalize,
       ReleaseRun, ReleaseRefused, Tick, StepBack, vars
<1>2. Complete(c)
  <2>1. PICK x \in Callers : Complete(x)
    BY <1>1 DEF StoreRefuses, Fail
  <2>2. call' = [call EXCEPT ![x] = Idle]
    BY <2>1 DEF Complete, EndExecution
  <2>3. x = c
    BY <2>2 DEF ExecTypeOK
  <2> QED BY <2>1, <2>3
<1> DEFINE swept == {b \in artifacts : ~HasExpired(b, now)}
<1>3. artifacts' = Put(artifacts, Result(c), now) /\ Result(c).run = call[c].run
  BY <1>2 DEF Complete, Result
<1>4. a \in swept
  BY DEF Holding
<1>5. a = Victim(swept, call[c].run)
  BY <1>3, <1>4 DEF Put
<1>6. swept \in SUBSET Artifact /\ swept # {}
  BY <1>4 DEF ExecTypeOK
<1>7. \A r : Holding(r, now) = {b \in swept : b.run = r}
  BY DEF Holding
<1> HIDE DEF swept
<1>8. LET own == {b \in swept : b.run = call[c].run}
      IN  \/ own # {} /\ a \in own /\ \A b \in own : a.at <= b.at
          \/ own = {} /\ \A b \in swept : a.at <= b.at
  BY <1>5, <1>6, VictimIsOldest
<1> QED BY <1>7, <1>8

(* evictOldestOf: a store at its cap takes from the run that is storing.   *)
THEOREM EvictionIsOwn == Spec => EvictsOwnOldest
<1>1. ExecTypeOK /\ [Next]_vars =>
        [\A a \in artifacts, c \in Callers :
           LET now == call[c].started + Elapsed(c)
           IN  /\ call[c] # Idle /\ call'[c] = Idle
               /\ a \in Holding(a.run, now) \ artifacts'
               => /\ call[c].run = a.run \/ Holding(call[c].run, now) = {}
                  /\ \A b \in Holding(a.run, now) : a.at <= b.at]_vars
  BY EvictionStep
<1> QED BY <1>1, ExecTypeCorrect, PTL DEF Spec, EvictsOwnOldest

=============================================================================
