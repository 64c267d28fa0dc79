-------------------------- MODULE AgentLedgerProofs --------------------------
(* What the fold of AgentLedger computes, for every ledger. *)
EXTENDS AgentLedger, TLAPS, WellFoundedInduction

(* A nonempty set of positions has a last one. *)
LEMMA BoundedMax ==
  ASSUME NEW n \in Nat, NEW S \in SUBSET (1 .. n), S # {}
  PROVE  \E m \in S : \A k \in S : m >= k
<1> DEFINE T == {n - i : i \in S}
<1>1. \A i \in S : n - i \in Nat
  OBVIOUS
<1>2. T \subseteq Nat /\ T # {}
  BY <1>1, Zenon
<1> DEFINE R == OpToRel(<, Nat)
<1>3. IsWellFoundedOn(R, Nat)
  BY NatLessThanWellFounded
<1> HIDE DEF R
<1>4. PICK x \in T : \A y \in T : <<y, x>> \notin R
  BY <1>2, <1>3, WFMin
<1>5. \A y \in T : ~ (y < x)
  BY <1>2, <1>4 DEF R, OpToRel
<1>6. PICK m \in S : x = n - m
  OBVIOUS
<1>7. \A k \in S : m >= k
  <2> TAKE k \in S
  <2>1. n - k \in T
    OBVIOUS
  <2>2. ~ (n - k < n - m)
    BY <1>5, <1>6, <2>1
  <2> QED BY <2>2
<1> QED BY <1>7

(* The position the fold takes the status from: a lifecycle entry behind   *)
(* which there is no other.                                                *)
LEMMA LastLifecycle ==
  ASSUME NEW l \in Seq(LedgerEntry), Lifecycle(l) # {}
  PROVE  /\ Max(Lifecycle(l)) \in Lifecycle(l)
         /\ \A k \in Lifecycle(l) : k <= Max(Lifecycle(l))
<1>1. Lifecycle(l) \in SUBSET (1 .. Len(l)) /\ Len(l) \in Nat
  BY DEF Lifecycle
<1>2. \E m \in Lifecycle(l) : \A k \in Lifecycle(l) : m >= k
  BY <1>1, BoundedMax
<1>3. Lifecycle(l) \subseteq Nat
  BY <1>1
<1> QED BY <1>2, <1>3 DEF Max

(* foldLedger yields one of the five statuses. *)
LEMMA StatusType ==
  ASSUME NEW l \in Seq(LedgerEntry)
  PROVE  RunStatus(l) \in {"queued", "running"} \cup Terminals
<1>1. CASE Lifecycle(l) = {}
  BY <1>1 DEF RunStatus
<1>2. CASE Lifecycle(l) # {}
  <2>1. PICK m \in Lifecycle(l) : m = Max(Lifecycle(l))
    BY <1>2, LastLifecycle
  <2>2. l[m] \in LedgerEntry /\ l[m].kind \in {"run-started", "run-finished"}
    BY <2>1 DEF Lifecycle
  <2>3. l[m].kind = "run-started" \/ l[m].of \in Terminals
    BY <2>2 DEF LedgerEntry, Terminals
  <2> QED BY <1>2, <2>1, <2>3 DEF RunStatus
<1> QED BY <1>1, <1>2

(* A run with an ending on its ledger reads ended, unless a run-started    *)
(* was written behind the ending.                                          *)
LEMMA FinishedIsTerminal ==
  ASSUME NEW l \in Seq(LedgerEntry), Finished(l), ~Resurrected(l)
  PROVE  Terminal(l)
<1>1. PICK i \in DOMAIN l : l[i].kind = "run-finished"
  BY DEF Finished, Has
<1>2. i \in Lifecycle(l)
  BY <1>1 DEF Lifecycle
<1>3. PICK m \in Lifecycle(l) : m = Max(Lifecycle(l)) /\ i <= m
  BY <1>2, LastLifecycle
<1>4. m \in DOMAIN l /\ i \in Nat /\ m \in Nat /\ l[m] \in LedgerEntry
  BY <1>3 DEF Lifecycle
<1>5. l[m].kind # "run-started"
  <2> SUFFICES ASSUME l[m].kind = "run-started" PROVE FALSE
    OBVIOUS
  <2>1. i < m
    BY <1>1, <1>3, <1>4
  <2> QED BY <1>1, <1>4, <2>1 DEF Resurrected
<1>6. l[m].kind = "run-finished"
  BY <1>3, <1>5 DEF Lifecycle
<1>7. l[m].of \in Terminals
  BY <1>4, <1>6 DEF LedgerEntry
<1> QED BY <1>2, <1>3, <1>5, <1>7 DEF Terminal, RunStatus

(* The five statuses are told apart. *)
LEMMA RunningIsNotTerminal ==
  ASSUME NEW l, RunStatus(l) = "running" \/ RunStatus(l) = "queued"
  PROVE  ~Terminal(l)
BY DEF Terminal, Terminals

(* Appending an entry keeps what the ledger already shows. *)
LEMMA AppendKeeps ==
  ASSUME NEW l \in Seq(LedgerEntry), NEW e \in LedgerEntry
  PROVE  /\ Append(l, e) \in Seq(LedgerEntry)
         /\ \A k : Has(l, k) => Has(Append(l, e), k)
         /\ \A s : Invoked(l, s) => Invoked(Append(l, e), s)
         /\ Resurrected(l) => Resurrected(Append(l, e))
<1> DEFINE m == Append(l, e)
<1>1. m \in Seq(LedgerEntry) /\ \A i \in DOMAIN l : i \in DOMAIN m /\ m[i] = l[i]
  OBVIOUS
<1>2. ASSUME NEW k, Has(l, k) PROVE Has(m, k)
  BY <1>1, <1>2 DEF Has
<1>3. ASSUME NEW s, Invoked(l, s) PROVE Invoked(m, s)
  BY <1>1, <1>3 DEF Invoked
<1>4. ASSUME Resurrected(l) PROVE Resurrected(m)
  BY <1>1, <1>4, Zenon DEF Resurrected
<1> QED BY <1>1, <1>2, <1>3, <1>4

(* The appended entry is there. *)
LEMMA AppendShows ==
  ASSUME NEW l \in Seq(LedgerEntry), NEW e \in LedgerEntry
  PROVE  /\ Has(Append(l, e), e.kind)
         /\ \A s : e = Entry("tool-invoked", s) => Invoked(Append(l, e), s)
<1>1. Len(l) + 1 \in DOMAIN Append(l, e) /\ Append(l, e)[Len(l) + 1] = e
  OBVIOUS
<1> QED BY <1>1 DEF Has, Invoked

(* Only an ending finishes a run, and only a start behind an ending opens  *)
(* it again.                                                               *)
LEMMA AppendAdds ==
  ASSUME NEW l \in Seq(LedgerEntry), NEW e \in LedgerEntry
  PROVE  /\ Finished(Append(l, e)) => Finished(l) \/ e.kind = "run-finished"
         /\ Resurrected(Append(l, e)) => Resurrected(l) \/ (e.kind = "run-started" /\ Finished(l))
<1> DEFINE m == Append(l, e)
<1>1. /\ Len(l) \in Nat /\ DOMAIN l = 1 .. Len(l) /\ DOMAIN m = 1 .. (Len(l) + 1)
      /\ m[Len(l) + 1] = e /\ \A i \in 1 .. Len(l) : m[i] = l[i]
  OBVIOUS
<1> HIDE DEF m
<1>2. ASSUME NEW i \in DOMAIN m PROVE i = Len(l) + 1 \/ i \in DOMAIN l
  BY <1>1
<1>3. ASSUME Finished(m) PROVE Finished(l) \/ e.kind = "run-finished"
  <2>1. PICK i \in DOMAIN m : m[i].kind = "run-finished"
    BY <1>3 DEF Finished, Has
  <2> QED BY <1>1, <1>2, <2>1 DEF Finished, Has
<1>4. ASSUME Resurrected(m) PROVE Resurrected(l) \/ (e.kind = "run-started" /\ Finished(l))
  <2>1. PICK i \in DOMAIN m, j \in DOMAIN m :
          i < j /\ m[i].kind = "run-finished" /\ m[j].kind = "run-started"
    BY <1>4 DEF Resurrected
  <2>2. i \in DOMAIN l /\ l[i].kind = "run-finished"
    BY <1>1, <2>1
  <2>3. Finished(l)
    BY <2>2 DEF Finished, Has
  <2>4. CASE j = Len(l) + 1
    BY <1>1, <2>1, <2>3, <2>4
  <2>5. CASE j \in DOMAIN l
    BY <1>1, <2>1, <2>2, <2>5 DEF Resurrected
  <2> QED BY <1>2, <2>4, <2>5
<1> QED BY <1>3, <1>4 DEF m

(* A run that reads ended has an ending on its ledger.                     *)
LEMMA TerminalIsFinished ==
  ASSUME NEW l \in Seq(LedgerEntry), Terminal(l)
  PROVE  Finished(l)
<1>1. Lifecycle(l) # {}
  BY DEF Terminal, RunStatus, Terminals
<1>2. PICK m \in Lifecycle(l) : m = Max(Lifecycle(l))
  BY <1>1, LastLifecycle
<1>3. m \in DOMAIN l /\ l[m].kind \in {"run-started", "run-finished"}
  BY <1>2 DEF Lifecycle
<1>4. l[m].kind # "run-started"
  BY <1>1, <1>2 DEF Terminal, RunStatus, Terminals
<1> QED BY <1>3, <1>4 DEF Finished, Has

(* Entries that neither start nor end a run leave its status as it is ...   *)
LEMMA AppendKeepsStatus ==
  ASSUME NEW l \in Seq(LedgerEntry), NEW e \in LedgerEntry,
         e.kind \notin {"run-started", "run-finished"}
  PROVE  RunStatus(Append(l, e)) = RunStatus(l)
<1> DEFINE m == Append(l, e)
<1>1. /\ DOMAIN l = 1 .. Len(l) /\ Len(l) \in Nat /\ DOMAIN m = 1 .. (Len(l) + 1)
      /\ m[Len(l) + 1] = e /\ \A i \in 1 .. Len(l) : m[i] = l[i]
  OBVIOUS
<1> HIDE DEF m
<1>2. Lifecycle(m) = Lifecycle(l)
  <2>1. \A i \in DOMAIN m : i = Len(l) + 1 \/ i \in DOMAIN l
    BY <1>1
  <2>2. \A i \in DOMAIN l : i \in DOMAIN m /\ m[i] = l[i]
    BY <1>1
  <2> QED BY <1>1, <2>1, <2>2 DEF Lifecycle
<1>3. CASE Lifecycle(l) = {}
  BY <1>2, <1>3 DEF RunStatus, m
<1>4. CASE Lifecycle(l) # {}
  <2>1. Max(Lifecycle(l)) \in DOMAIN l
    BY <1>4, LastLifecycle DEF Lifecycle
  <2>2. m[Max(Lifecycle(l))] = l[Max(Lifecycle(l))]
    BY <1>1, <2>1
  <2> QED BY <1>2, <1>4, <2>2 DEF RunStatus, m
<1> QED BY <1>3, <1>4

(* ... and a start or an ending decides it.                                *)
LEMMA AppendDecidesStatus ==
  ASSUME NEW l \in Seq(LedgerEntry), NEW e \in LedgerEntry,
         e.kind \in {"run-started", "run-finished"}
  PROVE  RunStatus(Append(l, e)) = IF e.kind = "run-started" THEN "running" ELSE e.of
<1> DEFINE m == Append(l, e)
           n == Len(l) + 1
<1>1. m \in Seq(LedgerEntry) /\ DOMAIN m = 1 .. n /\ n \in Nat /\ n \in DOMAIN m /\ m[n] = e
  OBVIOUS
<1> HIDE DEF m, n
<1>2. n \in Lifecycle(m)
  BY <1>1 DEF Lifecycle
<1>3. PICK x \in Lifecycle(m) : x = Max(Lifecycle(m)) /\ n <= x
  BY <1>1, <1>2, LastLifecycle
<1>4. x = n
  BY <1>1, <1>3 DEF Lifecycle
<1> QED BY <1>1, <1>2, <1>3, <1>4 DEF RunStatus, m

(* A run that has been started and has no ending reads running.            *)
LEMMA StartedIsRunning ==
  ASSUME NEW l \in Seq(LedgerEntry), Has(l, "run-started"), ~Finished(l)
  PROVE  RunStatus(l) = "running"
<1>1. PICK i \in DOMAIN l : l[i].kind = "run-started"
  BY DEF Has
<1>2. i \in Lifecycle(l)
  BY <1>1 DEF Lifecycle
<1>3. PICK m \in Lifecycle(l) : m = Max(Lifecycle(l))
  BY <1>2, LastLifecycle
<1>4. l[m].kind = "run-started"
  BY <1>3 DEF Lifecycle, Finished, Has
<1> QED BY <1>2, <1>3, <1>4 DEF RunStatus

(* A run that reads running has been started.                              *)
LEMMA RunningIsStarted ==
  ASSUME NEW l \in Seq(LedgerEntry), RunStatus(l) = "running"
  PROVE  Has(l, "run-started")
<1>1. Lifecycle(l) # {}
  BY DEF RunStatus
<1>2. PICK m \in Lifecycle(l) : m = Max(Lifecycle(l))
  BY <1>1, LastLifecycle
<1>3. m \in DOMAIN l /\ l[m] \in LedgerEntry /\ l[m].kind \in {"run-started", "run-finished"}
  BY <1>2 DEF Lifecycle
<1>4. l[m].kind = "run-started"
  <2> SUFFICES ASSUME l[m].kind = "run-finished" PROVE FALSE
    BY <1>3
  <2>1. l[m].of \in Terminals
    BY <1>3 DEF LedgerEntry
  <2>2. RunStatus(l) = l[m].of
    BY <1>1, <1>2 DEF RunStatus
  <2> QED BY <2>1, <2>2 DEF Terminals
<1> QED BY <1>3, <1>4 DEF Has

=============================================================================
