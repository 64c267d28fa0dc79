--------------------------- MODULE RateLimitProofs ---------------------------
(* The limiter's bucket for every set of keys and every limit: its types,  *)
(* its cap, and that it implements a limiter of its own for every key.     *)
EXTENDS RateLimit, FiniteSetTheorems, SequenceTheorems, TLAPS

(* Every set of naturals that is not empty has a least member.             *)
LEMMA LeastExists ==
  ASSUME NEW T \in SUBSET Nat, T # {}
  PROVE  \E m \in T : \A n \in T : m <= n
<1> DEFINE R == OpToRel(<, Nat)
<1>1. IsWellFoundedOn(R, Nat)
  BY NatLessThanWellFounded
<1>2. PICK m \in T : \A n \in T : ~ (<<n, m>> \in R)
  BY <1>1, WFMin
<1>3. \A n \in T : ~ (n < m)
  BY <1>2 DEF OpToRel
<1> QED BY <1>3

(* Every variable stays within its type, and no entry outlasts one window. *)
LimitTypeOK ==
  /\ store \in [DOMAIN store -> Counter] /\ DOMAIN store \subseteq Keys
  /\ \A k \in DOMAIN store : store[k].resetAt <= now + Window /\ store[k].stamp < stamps
  /\ now \in 0..MaxNow /\ stamps \in Nat
  /\ hits \in [Keys -> Seq(Nat)] /\ trips \in [Keys -> Nat]

-----------------------------------------------------------------------------
(* Making room *)

(* A bucket that holds something has a victim, and it does the least work. *)
LEMMA VictimIsLeast ==
  ASSUME NEW s, s \in [DOMAIN s -> Counter], DOMAIN s # {}
  PROVE  /\ Victim(s) \in DOMAIN s
         /\ \A m \in DOMAIN s : s[Victim(s)].count <= s[m].count
<1> DEFINE Counts == {s[k].count : k \in DOMAIN s}
<1>1. \A k \in DOMAIN s : s[k].count \in Nat /\ s[k].stamp \in Nat
  BY DEF Counter
<1>2. PICK c \in Counts : \A n \in Counts : c <= n
  <2>1. Counts \in SUBSET Nat /\ Counts # {}
    BY <1>1
  <2> QED BY <2>1, LeastExists
<1> DEFINE Tied == {k \in DOMAIN s : s[k].count = c}
           Stamps == {s[k].stamp : k \in Tied}
<1>3. PICK t \in Stamps : \A n \in Stamps : t <= n
  <2>1. Stamps \in SUBSET Nat /\ Stamps # {}
    BY <1>1, <1>2
  <2> QED BY <2>1, LeastExists
<1>4. PICK v \in Tied : s[v].stamp = t
  BY <1>3
<1> DEFINE Works(k) == \A m \in DOMAIN s :
             \/ s[k].count < s[m].count
             \/ s[k].count = s[m].count /\ s[k].stamp <= s[m].stamp
<1>5. v \in DOMAIN s /\ Works(v)
  <2> SUFFICES ASSUME NEW m \in DOMAIN s
               PROVE  \/ s[v].count < s[m].count
                      \/ s[v].count = s[m].count /\ s[v].stamp <= s[m].stamp
    BY <1>4
  <2>1. c <= s[m].count /\ s[v].count = c
    BY <1>2, <1>4
  <2>2. CASE s[m].count = c
    BY <2>1, <2>2, <1>3, <1>4
  <2>3. CASE s[m].count # c
    BY <2>1, <2>3, <1>1, <1>2
  <2> QED BY <2>2, <2>3
<1>6. Victim(s) \in DOMAIN s /\ Works(Victim(s))
  BY <1>5 DEF Victim
<1>7. \A m \in DOMAIN s : s[Victim(s)].count <= s[m].count
  BY <1>6, <1>1
<1> QED BY <1>6, <1>7

(* Pruning only takes entries away, and of the live ones at most one.      *)
LEMMA PruneKeeps ==
  ASSUME LimitTypeOK
  PROVE  LET p == PruneIfAtCapacity(store)
         IN  /\ DOMAIN p \subseteq DOMAIN store
             /\ p = [k \in DOMAIN p |-> store[k]]
             /\ \/ Unexpired(store) \subseteq DOMAIN p
                \/ \E g \in Unexpired(store) :
                     /\ DOMAIN p = Unexpired(store) \ {g}
                     /\ \A m \in Unexpired(store) : store[g].count <= store[m].count
<1> DEFINE kept == Only(store, Unexpired(store))
           p == PruneIfAtCapacity(store)
<1>1. /\ DOMAIN kept = Unexpired(store) /\ Unexpired(store) \subseteq DOMAIN store
      /\ \A k \in DOMAIN kept : kept[k] = store[k]
  BY DEF Only, Unexpired
<1>2. CASE Cardinality(DOMAIN store) < Capacity
  <2>1. p = store
    BY <1>2 DEF PruneIfAtCapacity
  <2> QED BY <2>1, <1>1 DEF LimitTypeOK
<1>3. CASE ~(Cardinality(DOMAIN store) < Capacity) /\ Cardinality(DOMAIN kept) < Capacity
  <2>1. p = kept
    BY <1>3 DEF PruneIfAtCapacity
  <2> QED BY <2>1, <1>1 DEF Only
<1>4. CASE ~(Cardinality(DOMAIN store) < Capacity) /\ ~(Cardinality(DOMAIN kept) < Capacity)
  <2>1. p = Only(kept, DOMAIN kept \ {Victim(kept)})
    BY <1>4 DEF PruneIfAtCapacity
  <2>2. kept \in [DOMAIN kept -> Counter]
    BY <1>1 DEF LimitTypeOK, Only
  <2>3. DOMAIN kept # {}
    <3>1. SUFFICES ASSUME DOMAIN kept = {} PROVE FALSE
      OBVIOUS
    <3>2. Cardinality(DOMAIN kept) = 0
      BY <3>1, FS_EmptySet
    <3> QED BY <3>2, <1>4, LimitAssumption
  <2>4. /\ Victim(kept) \in Unexpired(store)
        /\ \A m \in Unexpired(store) : store[Victim(kept)].count <= store[m].count
    BY <2>2, <2>3, <1>1, VictimIsLeast
  <2>5. DOMAIN p = Unexpired(store) \ {Victim(kept)} /\ \A k \in DOMAIN p : p[k] = store[k]
    BY <2>1, <1>1 DEF Only
  <2>6. p = [k \in DOMAIN p |-> p[k]]
    BY <2>1 DEF Only
  <2> QED BY <2>4, <2>5, <2>6, <1>1
<1> QED BY <1>2, <1>3, <1>4

(* After pruning a bucket within its cap has room for one more.            *)
LEMMA PruneMakesRoom ==
  ASSUME LimitTypeOK, WithinCap
  PROVE  /\ IsFiniteSet(DOMAIN PruneIfAtCapacity(store))
         /\ Cardinality(DOMAIN PruneIfAtCapacity(store)) < Capacity
<1> DEFINE kept == Only(store, Unexpired(store))
           p == PruneIfAtCapacity(store)
<1>1. IsFiniteSet(DOMAIN store) /\ IsFiniteSet(DOMAIN p) /\ IsFiniteSet(Unexpired(store))
  <2>1. /\ DOMAIN store \in SUBSET Keys /\ DOMAIN p \in SUBSET DOMAIN store
        /\ Unexpired(store) \in SUBSET DOMAIN store
    BY PruneKeeps DEF LimitTypeOK, Unexpired
  <2>2. IsFiniteSet(DOMAIN store)
    BY <2>1, FS_Subset, LimitAssumption
  <2> QED BY <2>1, <2>2, FS_Subset
<1>2. DOMAIN kept = Unexpired(store)
  BY DEF Only
<1>3. CASE Cardinality(DOMAIN store) < Capacity
  BY <1>1, <1>3 DEF PruneIfAtCapacity
<1>4. CASE ~(Cardinality(DOMAIN store) < Capacity) /\ Cardinality(DOMAIN kept) < Capacity
  BY <1>1, <1>4 DEF PruneIfAtCapacity
<1>5. CASE ~(Cardinality(DOMAIN store) < Capacity) /\ ~(Cardinality(DOMAIN kept) < Capacity)
  <2>1. p = Only(kept, DOMAIN kept \ {Victim(kept)})
    BY <1>5 DEF PruneIfAtCapacity
  <2>2. DOMAIN kept # {}
    BY <1>5, FS_EmptySet, LimitAssumption
  <2>3. kept \in [DOMAIN kept -> Counter]
    BY DEF LimitTypeOK, Only, Unexpired
  <2>4. Victim(kept) \in Unexpired(store)
    BY <2>2, <2>3, <1>2, VictimIsLeast
  <2>5. DOMAIN p = Unexpired(store) \ {Victim(kept)}
    BY <2>1, <1>2 DEF Only
  <2>6. /\ Cardinality(Unexpired(store)) \in Nat
        /\ Cardinality(Unexpired(store)) <= Cardinality(DOMAIN store)
        /\ Cardinality(DOMAIN p) = Cardinality(Unexpired(store)) - 1
    <3>1. Unexpired(store) \in SUBSET DOMAIN store
      BY DEF Unexpired
    <3> QED BY <3>1, <2>4, <2>5, <1>1, FS_Subset, FS_RemoveElement, FS_CardinalityType
  <2>7. Cardinality(DOMAIN store) \in Nat /\ Cardinality(DOMAIN store) <= Capacity /\ Capacity \in Nat
    BY <1>1, FS_CardinalityType, LimitAssumption DEF WithinCap
  <2> QED BY <1>1, <2>6, <2>7
<1> QED BY <1>3, <1>4, <1>5
-----------------------------------------------------------------------------
(* One call *)

(* The counter a call decides by is a counter, and its window is not over. *)
LEMMA EntryIsLive ==
  ASSUME LimitTypeOK, NEW k \in Keys
  PROVE  /\ EntryFor(k) \in Counter
         /\ now < EntryFor(k).resetAt /\ EntryFor(k).resetAt <= now + Window
         /\ EntryFor(k).stamp <= stamps
         /\ Live(store, k) => EntryFor(k) = store[k] /\ EntryFor(k).stamp < stamps
<1> DEFINE p == PruneIfAtCapacity(store)
<1>1. now \in Nat /\ stamps \in Nat /\ Window \in Nat \ {0}
  BY LimitAssumption DEF LimitTypeOK
<1>2. CASE Live(store, k)
  <2>1. k \in DOMAIN store /\ EntryFor(k) = store[k] /\ now < store[k].resetAt
    BY <1>2 DEF EntryFor, Live
  <2>2. store[k] \in Counter /\ store[k].stamp < stamps /\ store[k].resetAt <= now + Window
    BY <2>1 DEF LimitTypeOK
  <2> QED BY <1>1, <1>2, <2>1, <2>2 DEF Counter
<1>3. CASE ~Live(store, k)
  <2>1. EntryFor(k) = [count |-> 0, resetAt |-> now + Window, notified |-> FALSE,
                       stamp |-> IF k \in DOMAIN p THEN p[k].stamp ELSE stamps]
    BY <1>3 DEF EntryFor, Fresh
  <2>2. k \in DOMAIN p => p[k].stamp \in Nat /\ p[k].stamp < stamps
    BY PruneKeeps DEF LimitTypeOK, Counter
  <2>3. (IF k \in DOMAIN p THEN p[k].stamp ELSE stamps) \in 0..stamps
    BY <1>1, <2>2
  <2> QED BY <1>1, <1>3, <2>1, <2>3 DEF Counter
<1> QED BY <1>2, <1>3

(* What a call leaves of the bucket: its own entry and the others' as they *)
(* were; at most one live key is missing, and only if k had no window.     *)
LEMMA RoomForOne ==
  ASSUME LimitTypeOK, NEW k \in Keys
  PROVE  LET s == WithEntry(k)
         IN  /\ s \in [DOMAIN s -> Counter] /\ DOMAIN s \subseteq Keys
             /\ k \in DOMAIN s /\ s[k] = EntryFor(k)
             /\ \A m \in DOMAIN s \ {k} : m \in DOMAIN store /\ s[m] = store[m]
             /\ \E g \in Keys :
                  /\ Live(store, k) => g = k
                  /\ \A m \in Unexpired(store) : m # g => m \in DOMAIN s
                  /\ g # k => /\ g \in Unexpired(store) /\ g \notin DOMAIN s
                              /\ \A m \in DOMAIN s \ {k} : m \in Unexpired(store)
                              /\ \A m \in Unexpired(store) : store[g].count <= store[m].count
                              /\ EntryFor(k).stamp = stamps
<1> DEFINE p == PruneIfAtCapacity(store)
           s == WithEntry(k)
<1>1. EntryFor(k) \in Counter
  BY EntryIsLive
<1>2. CASE Live(store, k)
  <2>1. s = store /\ k \in DOMAIN store
    BY <1>2 DEF WithEntry, Live
  <2>2. \A m \in Unexpired(store) : m \in DOMAIN s
    BY <2>1 DEF Unexpired
  <2> QED BY <2>1, <2>2, <1>2, EntryIsLive DEF LimitTypeOK
<1>3. CASE ~Live(store, k)
  <2>1. /\ DOMAIN s = DOMAIN p \cup {k} /\ s[k] = EntryFor(k)
        /\ \A m \in DOMAIN p \ {k} : s[m] = p[m]
        /\ s = [m \in DOMAIN s |-> s[m]]
    BY <1>3 DEF WithEntry, Inserted, EntryFor
  <2>2. /\ DOMAIN p \subseteq DOMAIN store /\ DOMAIN store \subseteq Keys
        /\ \A m \in DOMAIN p : p[m] = store[m] /\ p[m] \in Counter
    BY PruneKeeps DEF LimitTypeOK
  <2>3. \A m \in DOMAIN s : s[m] \in Counter
    BY <2>1, <2>2, <1>1
  <2>4. k \notin Unexpired(store)
    BY <1>3 DEF Unexpired
  <2>5. CASE Unexpired(store) \subseteq DOMAIN p
    BY <1>3, <2>1, <2>2, <2>3, <2>5
  <2>6. CASE \E g \in Unexpired(store) :
               /\ DOMAIN p = Unexpired(store) \ {g}
               /\ \A m \in Unexpired(store) : store[g].count <= store[m].count
    <3>1. PICK g \in Unexpired(store) :
               /\ DOMAIN p = Unexpired(store) \ {g}
               /\ \A m \in Unexpired(store) : store[g].count <= store[m].count
      BY <2>6
    <3>2. g \in Keys /\ g # k /\ g \notin DOMAIN s /\ k \notin DOMAIN p
      BY <3>1, <2>1, <2>2, <2>4 DEF Unexpired
    <3>3. EntryFor(k).stamp = stamps
      BY <3>2, <1>3 DEF EntryFor, Fresh
    <3>4. \A m \in Unexpired(store) : m # g => m \in DOMAIN s
      BY <3>1, <2>1
    <3>5. \A m \in DOMAIN s \ {k} : m \in Unexpired(store)
      BY <3>1, <2>1
    <3>6. \E h \in Keys :
            /\ Live(store, k) => h = k
            /\ \A m \in Unexpired(store) : m # h => m \in DOMAIN s
            /\ h # k => /\ h \in Unexpired(store) /\ h \notin DOMAIN s
                        /\ \A m \in DOMAIN s \ {k} : m \in Unexpired(store)
                        /\ \A m \in Unexpired(store) : store[h].count <= store[m].count
                        /\ EntryFor(k).stamp = stamps
      BY <3>1, <3>2, <3>3, <3>4, <3>5, <1>3
    <3> QED BY <2>1, <2>2, <2>3, <3>6
  <2> QED BY <2>5, <2>6, PruneKeeps
<1> QED BY <1>2, <1>3

(* What a call leaves in k's entry: the counter it decided by, one spent   *)
(* or the trip noted.                                                      *)
Left(k) == {Spend(EntryFor(k), TRUE), EntryFor(k), [EntryFor(k) EXCEPT !.notified = TRUE]}

LEMMA Amended ==
  ASSUME NEW c \in Counter, NEW n \in Nat
  PROVE  /\ [c EXCEPT !.count = n] \in Counter
         /\ [c EXCEPT !.count = n].resetAt = c.resetAt
         /\ [c EXCEPT !.count = n].stamp = c.stamp
         /\ [c EXCEPT !.notified = TRUE] \in Counter
         /\ [c EXCEPT !.notified = TRUE].resetAt = c.resetAt
         /\ [c EXCEPT !.notified = TRUE].stamp = c.stamp
BY DEF Counter

LEMMA LeftIsCounter ==
  ASSUME LimitTypeOK, NEW k \in Keys, NEW e \in Left(k)
  PROVE  /\ e \in Counter /\ e.resetAt = EntryFor(k).resetAt /\ e.stamp = EntryFor(k).stamp
<1>1. EntryFor(k) \in Counter
  BY EntryIsLive
<1>2. CASE e = EntryFor(k)
  BY <1>1, <1>2
<1>3. CASE e = [EntryFor(k) EXCEPT !.count = @ + 1]
  <2>1. EntryFor(k).count + 1 \in Nat
    BY <1>1 DEF Counter
  <2> QED BY <1>1, <1>3, <2>1, Amended
<1>4. CASE e = [EntryFor(k) EXCEPT !.notified = TRUE]
  BY <1>1, <1>4, Amended
<1> QED BY <1>2, <1>3, <1>4, Zenon DEF Left, Spend

-----------------------------------------------------------------------------
(* Type correctness *)

LEMMA CallTypes ==
  ASSUME LimitTypeOK, NEW k \in Keys, NEW e \in Left(k), NEW spent \in BOOLEAN,
         NEW trip \in BOOLEAN, store' = [WithEntry(k) EXCEPT ![k] = e],
         Observe(k, WithEntry(k), spent, trip), now' = now
  PROVE  LimitTypeOK'
<1> DEFINE s == WithEntry(k)
<1>1. /\ s \in [DOMAIN s -> Counter] /\ DOMAIN s \subseteq Keys
      /\ k \in DOMAIN s
      /\ \A m \in DOMAIN s \ {k} : m \in DOMAIN store /\ s[m] = store[m]
  BY RoomForOne
<1>2. e \in Counter /\ e.resetAt <= now + Window /\ e.stamp <= stamps
      /\ (Live(store, k) => e.stamp < stamps)
  BY EntryIsLive, LeftIsCounter
<1>3. DOMAIN store' = DOMAIN s /\ store' \in [DOMAIN s -> Counter]
  BY <1>1, <1>2
<1>4. stamps' \in Nat /\ stamps <= stamps' /\ (~Live(store, k) => stamps < stamps')
  BY DEF Observe, LimitTypeOK
<1>5. \A m \in DOMAIN store' : store'[m].resetAt <= now' + Window /\ store'[m].stamp < stamps'
  <2> SUFFICES ASSUME NEW m \in DOMAIN store'
               PROVE  store'[m].resetAt <= now' + Window /\ store'[m].stamp < stamps'
    OBVIOUS
  <2>1. CASE m = k
    <3>1. store'[m] = e
      BY <2>1, <1>1, <1>3
    <3> QED BY <3>1, <1>2, <1>4 DEF Counter, LimitTypeOK
  <2>2. CASE m # k
    <3>1. store'[m] = store[m] /\ m \in DOMAIN store
      BY <2>2, <1>1, <1>3
    <3>2. store[m].resetAt <= now + Window /\ store[m].stamp < stamps /\ store[m].stamp \in Nat
      BY <3>1 DEF LimitTypeOK, Counter
    <3> QED BY <3>1, <3>2, <1>4 DEF LimitTypeOK
  <2> QED BY <2>1, <2>2
<1>6. hits' \in [Keys -> Seq(Nat)]
  <2>1. \A h \in Seq(Nat) : Append(h, now) \in Seq(Nat)
    BY DEF LimitTypeOK
  <2>2. <<>> \in Seq(Nat) /\ \A m \in Keys : hits[m] \in Seq(Nat)
    BY DEF LimitTypeOK
  <2> QED BY <2>1, <2>2 DEF Observe
<1>7. trips' \in [Keys -> Nat]
  BY DEF Observe, LimitTypeOK
<1>8. now' \in 0..MaxNow
  BY DEF LimitTypeOK
<1> QED BY <1>1, <1>3, <1>4, <1>5, <1>6, <1>7, <1>8 DEF LimitTypeOK

(* Every step of a call for k is of that shape.                            *)
LEMMA AllowLeaves ==
  ASSUME NEW k \in Keys, NEW consume \in BOOLEAN, Allow(k, consume)
  PROVE  \E e \in Left(k) : /\ store' = [WithEntry(k) EXCEPT ![k] = e]
                            /\ Observe(k, WithEntry(k), consume, FALSE)
                            /\ now' = now
<1>1. Spend(EntryFor(k), consume) \in Left(k)
  BY DEF Spend, Left
<1> QED BY <1>1 DEF Allow

LEMMA DenyLeaves ==
  ASSUME NEW k \in Keys, Deny(k)
  PROVE  \E e \in Left(k) : /\ store' = [WithEntry(k) EXCEPT ![k] = e]
                            /\ Observe(k, WithEntry(k), FALSE, ~EntryFor(k).notified)
                            /\ now' = now
BY DEF Deny, Left

LEMMA TypeStep == ASSUME LimitTypeOK, [Next]_vars PROVE LimitTypeOK'
<1>1. ASSUME NEW k \in Keys, NEW consume \in BOOLEAN, Allow(k, consume) PROVE LimitTypeOK'
  BY <1>1, AllowLeaves, CallTypes
<1>2. ASSUME NEW k \in Keys, Deny(k) PROVE LimitTypeOK'
  <2>1. (~EntryFor(k).notified) \in BOOLEAN
    OBVIOUS
  <2> QED BY <2>1, <1>2, DenyLeaves, CallTypes
<1>3. ASSUME NEW k \in Keys, ResetRateLimit(k) PROVE LimitTypeOK'
  BY <1>3 DEF LimitTypeOK, ResetRateLimit, Only
<1>4. CASE Tick
  <2>1. \A m \in DOMAIN store : store[m].resetAt \in Nat
    BY DEF LimitTypeOK, Counter
  <2> QED BY <1>4, <2>1, LimitAssumption DEF LimitTypeOK, Tick
<1>5. CASE UNCHANGED vars
  BY <1>5 DEF LimitTypeOK, vars
<1> QED BY <1>1, <1>2, <1>3, <1>4, <1>5 DEF Next

LEMMA TypeInit == Init => LimitTypeOK
BY LimitAssumption DEF Init, LimitTypeOK

(* Type correctness of the limiter.                                        *)
THEOREM LimitTypeCorrect == Spec => []LimitTypeOK
BY TypeInit, TypeStep, PTL DEF Spec
-----------------------------------------------------------------------------
(* The cap *)

LEMMA CapStep == ASSUME LimitTypeOK, WithinCap, [Next]_vars PROVE WithinCap'
<1>1. ASSUME NEW k \in Keys, NEW e \in Left(k), store' = [WithEntry(k) EXCEPT ![k] = e]
      PROVE  WithinCap'
  <2> DEFINE p == PruneIfAtCapacity(store)
  <2>1. DOMAIN store' = DOMAIN WithEntry(k)
    BY <1>1, RoomForOne
  <2>2. CASE Live(store, k)
    <3>1. DOMAIN store' = DOMAIN store
      BY <2>1, <2>2 DEF WithEntry
    <3> QED BY <3>1 DEF WithinCap
  <2>3. CASE ~Live(store, k)
    <3>1. DOMAIN store' = DOMAIN p \cup {k}
      BY <2>1, <2>3 DEF WithEntry, Inserted
    <3> DEFINE d == DOMAIN p
    <3>2. IsFiniteSet(d) /\ Cardinality(d) < Capacity
      BY PruneMakesRoom
    <3>3. Cardinality(d) \in Nat
      BY <3>2, FS_CardinalityType
    <3>4. Cardinality(d \cup {k}) = IF k \in d THEN Cardinality(d) ELSE Cardinality(d) + 1
      <4> HIDE DEF d
      <4> QED BY <3>2, FS_AddElement
    <3>5. Cardinality(d \cup {k}) <= Capacity
      BY <3>2, <3>3, <3>4, LimitAssumption
    <3> QED BY <3>1, <3>5 DEF WithinCap
  <2> QED BY <2>2, <2>3
<1>2. ASSUME NEW k \in Keys, NEW consume \in BOOLEAN, Allow(k, consume) PROVE WithinCap'
  BY <1>1, <1>2, AllowLeaves
<1>3. ASSUME NEW k \in Keys, Deny(k) PROVE WithinCap'
  BY <1>1, <1>3, DenyLeaves
<1>4. ASSUME NEW k \in Keys, ResetRateLimit(k) PROVE WithinCap'
  <2>1. DOMAIN store' = DOMAIN store \ {k}
    BY <1>4 DEF ResetRateLimit, Only
  <2>2. IsFiniteSet(DOMAIN store)
    BY FS_Subset, LimitAssumption DEF LimitTypeOK
  <2>3. Cardinality(DOMAIN store') <= Cardinality(DOMAIN store)
    BY <2>1, <2>2, FS_Subset
  <2>4. Cardinality(DOMAIN store') \in Nat /\ Cardinality(DOMAIN store) \in Nat
    BY <2>1, <2>2, FS_Subset, FS_CardinalityType
  <2> QED BY <2>3, <2>4, LimitAssumption DEF WithinCap
<1>5. CASE Tick \/ UNCHANGED vars
  BY <1>5 DEF Tick, vars, WithinCap
<1> QED BY <1>2, <1>3, <1>4, <1>5 DEF Next

(* pruneIfAtCapacity: however many keys arrive, and whatever their counts, *)
(* the bucket stays within its cap.                                        *)
THEOREM CapHolds == Spec => []WithinCap
<1>1. Init => WithinCap
  BY FS_EmptySet, LimitAssumption DEF Init, WithinCap
<1> QED BY <1>1, CapStep, LimitTypeCorrect, PTL DEF Spec

-----------------------------------------------------------------------------
(* The refinement *)

(* In force are the live entries, and nothing else looks like one.         *)
LEMMA InForceIsLive ==
  ASSUME LimitTypeOK, NEW k \in Keys
  PROVE  /\ InForce[k] = PerKey!Closed <=> ~Live(store, k)
         /\ PerKey!Current(k) = [count |-> EntryFor(k).count, until |-> EntryFor(k).resetAt,
                                 told |-> EntryFor(k).notified]
<1>1. now \in Nat
  BY DEF LimitTypeOK
<1>2. Live(store, k) => store[k].resetAt \in Nat /\ now < store[k].resetAt
  BY DEF Live, LimitTypeOK, Counter
<1>3. InForce[k] = PerKey!Closed <=> ~Live(store, k)
  BY <1>1, <1>2 DEF InForce, PerKey!Closed
<1>4. CASE Live(store, k)
  BY <1>3, <1>4 DEF InForce, PerKey!Current, EntryFor
<1>5. CASE ~Live(store, k)
  BY <1>3, <1>5 DEF PerKey!Current, EntryFor, Fresh
<1> QED BY <1>3, <1>4, <1>5

(* A call for k makes k's window what its entry now says.                  *)
LEMMA CallBecomes ==
  ASSUME LimitTypeOK, NEW k \in Keys, NEW e \in Left(k),
         store' = [WithEntry(k) EXCEPT ![k] = e], now' = now
  PROVE  PerKey!Becomes(k, [count |-> e.count, until |-> e.resetAt, told |-> e.notified])
<1> DEFINE s == WithEntry(k)
           w == [count |-> e.count, until |-> e.resetAt, told |-> e.notified]
<1>1. /\ k \in DOMAIN s /\ s \in [DOMAIN s -> Counter]
      /\ \A m \in DOMAIN s \ {k} : m \in DOMAIN store /\ s[m] = store[m]
  BY RoomForOne
<1>2. PICK g \in Keys :
        /\ Live(store, k) => g = k
        /\ \A m \in Unexpired(store) : m # g => m \in DOMAIN s
        /\ g # k => g \notin DOMAIN s
  BY RoomForOne
<1>3. DOMAIN store' = DOMAIN s /\ store'[k] = e /\ \A m \in DOMAIN s \ {k} : store'[m] = store[m]
  BY <1>1
<1>4. now < e.resetAt
  BY EntryIsLive, LeftIsCounter
<1>5. InForce' = [m \in Keys |-> InForce'[m]]
  BY DEF InForce
<1>6. InForce'[k] = w
  BY <1>1, <1>3, <1>4 DEF InForce, Live
<1>7. ASSUME NEW m \in Keys, m # k, m # g PROVE InForce'[m] = InForce[m]
  <2>1. CASE m \in DOMAIN s
    BY <2>1, <1>1, <1>3, <1>7 DEF InForce, Live
  <2>2. CASE m \notin DOMAIN s
    <3>1. ~Live(store, m)
      BY <2>2, <1>2, <1>7 DEF Unexpired, Live
    <3>2. m \notin DOMAIN store'
      BY <2>2, <1>3
    <3> QED BY <3>1, <3>2, <1>7 DEF InForce, Live
  <2> QED BY <2>1, <2>2
<1>8. g # k => InForce'[g] = PerKey!Closed
  BY <1>2, <1>3 DEF InForce, Live, PerKey!Closed
<1>9. InForce[k] # PerKey!Closed => g = k
  BY <1>2, InForceIsLive
<1>10. InForce' = [m \in Keys |-> IF m = k THEN w
                                  ELSE IF m = g THEN PerKey!Closed ELSE InForce[m]]
  BY <1>5, <1>6, <1>7, <1>8
<1> QED BY <1>9, <1>10 DEF PerKey!Becomes
LEMMA AllowMaps ==
  ASSUME LimitTypeOK, NEW k \in Keys, NEW consume \in BOOLEAN, Allow(k, consume)
  PROVE  PerKey!Next
<1> DEFINE e == Spend(EntryFor(k), consume)
<1>1. e \in Left(k) /\ store' = [WithEntry(k) EXCEPT ![k] = e] /\ now' = now
  BY DEF Allow, Spend, Left
<1>2. PerKey!Becomes(k, [count |-> e.count, until |-> e.resetAt, told |-> e.notified])
  BY <1>1, CallBecomes
<1>3. PerKey!Current(k).count < MaxHits
  BY InForceIsLive DEF Allow, Allowed
<1>4. trips' = trips
  BY DEF Allow, Observe
<1>5. EntryFor(k) \in Counter
  BY EntryIsLive
<1>6. CASE consume
  <2>1. [count |-> e.count, until |-> e.resetAt, told |-> e.notified]
          = [PerKey!Current(k) EXCEPT !.count = @ + 1]
    BY <1>5, <1>6, InForceIsLive DEF Spend, Counter
  <2> QED BY <1>1, <1>2, <1>3, <1>4, <2>1 DEF PerKey!Next, PerKey!Consume
<1>7. CASE ~consume
  <2>1. [count |-> e.count, until |-> e.resetAt, told |-> e.notified] = PerKey!Current(k)
    BY <1>7, InForceIsLive DEF Spend
  <2> QED BY <1>1, <1>2, <1>3, <1>4, <2>1 DEF PerKey!Next, PerKey!Peek
<1> QED BY <1>6, <1>7

LEMMA DenyMaps ==
  ASSUME LimitTypeOK, NEW k \in Keys, Deny(k)
  PROVE  PerKey!Next
<1> DEFINE e == [EntryFor(k) EXCEPT !.notified = TRUE]
<1>1. e \in Left(k) /\ store' = [WithEntry(k) EXCEPT ![k] = e] /\ now' = now
  BY DEF Deny, Left
<1>2. PerKey!Becomes(k, [count |-> e.count, until |-> e.resetAt, told |-> e.notified])
  BY <1>1, CallBecomes
<1>3. EntryFor(k) \in Counter /\ MaxHits \in Nat
  BY EntryIsLive, LimitAssumption
<1>4. PerKey!Current(k).count >= MaxHits
  BY <1>3, InForceIsLive DEF Deny, Allowed, Counter
<1>5. trips' = IF PerKey!Current(k).told THEN trips ELSE [trips EXCEPT ![k] = @ + 1]
  BY InForceIsLive DEF Deny, Observe
<1>6. [count |-> e.count, until |-> e.resetAt, told |-> e.notified]
        = [PerKey!Current(k) EXCEPT !.told = TRUE]
  <2>1. e.count = EntryFor(k).count /\ e.resetAt = EntryFor(k).resetAt /\ e.notified = TRUE
    BY <1>3 DEF Counter
  <2>2. [PerKey!Current(k) EXCEPT !.told = TRUE]
          = [count |-> EntryFor(k).count, until |-> EntryFor(k).resetAt, told |-> TRUE]
    <3>1. PerKey!Current(k) \in [count : Nat, until : Nat, told : BOOLEAN]
      BY <1>3, InForceIsLive DEF Counter
    <3>2. \A c \in [count : Nat, until : Nat, told : BOOLEAN] :
            [c EXCEPT !.told = TRUE] = [count |-> c.count, until |-> c.until, told |-> TRUE]
      <4> TAKE c \in [count : Nat, until : Nat, told : BOOLEAN]
      <4> DEFINE d == [c EXCEPT !.told = TRUE]
      <4>1. d \in [count : Nat, until : Nat, told : BOOLEAN]
        OBVIOUS
      <4>2. d.count = c.count /\ d.until = c.until
        OBVIOUS
      <4>3. d.told = TRUE
        OBVIOUS
      <4>4. d = [count |-> d.count, until |-> d.until, told |-> d.told]
        <5> HIDE DEF d
        <5> QED BY <4>1
      <4> QED BY <4>2, <4>3, <4>4, Zenon
    <3>3. PerKey!Current(k).count = EntryFor(k).count /\ PerKey!Current(k).until = EntryFor(k).resetAt
      BY InForceIsLive
    <3> QED BY <3>1, <3>2, <3>3
  <2> QED BY <2>1, <2>2
<1> QED BY <1>1, <1>2, <1>4, <1>5, <1>6 DEF PerKey!Next, PerKey!Refuse

LEMMA ResetMaps ==
  ASSUME LimitTypeOK, NEW k \in Keys, ResetRateLimit(k)
  PROVE  PerKey!Next
<1>1. InForce' = [InForce EXCEPT ![k] = PerKey!Closed]
  BY DEF ResetRateLimit, Only, InForce, Live, PerKey!Closed
<1>2. UNCHANGED <<now, trips>>
  BY DEF ResetRateLimit
<1> QED BY <1>1, <1>2 DEF PerKey!Next, PerKey!Reset

LEMMA TickMaps ==
  ASSUME LimitTypeOK, Tick
  PROVE  PerKey!Next
<1>1. now \in Nat /\ now' = now + 1 /\ store' = store /\ trips' = trips
  BY DEF Tick, LimitTypeOK
<1>2. \A k \in DOMAIN store : store[k].resetAt \in Nat
  BY DEF LimitTypeOK, Counter
<1>3. InForce' = [k \in Keys |-> IF InForce[k].until <= now' THEN PerKey!Closed ELSE InForce[k]]
  BY <1>1, <1>2 DEF InForce, Live, PerKey!Closed
<1> QED BY <1>1, <1>3 DEF PerKey!Next, PerKey!Tick

(* decide() with its one Map implements a limiter of its own for each key. *)
THEOREM Implements == Spec => KeysApart
<1>1. Init => PerKey!Init
  BY DEF Init, PerKey!Init, InForce, Live, PerKey!Closed
<1>2. LimitTypeOK /\ [Next]_vars => [PerKey!Next]_(PerKey!vars)
  <2> SUFFICES ASSUME LimitTypeOK, [Next]_vars PROVE PerKey!Next \/ UNCHANGED PerKey!vars
    BY DEF PerKey!vars
  <2>1. CASE UNCHANGED vars
    BY <2>1 DEF vars, PerKey!vars, InForce, Live
  <2>2. CASE Next
    BY <2>2, AllowMaps, DenyMaps, ResetMaps, TickMaps DEF Next
  <2> QED BY <2>1, <2>2
<1> QED BY <1>1, <1>2, LimitTypeCorrect, PTL DEF Spec, KeysApart, PerKey!Spec
-----------------------------------------------------------------------------
(* What a call does to the other keys *)

(* A call that lets nothing through adds no hit to any key, and one that   *)
(* does adds it to its own.                                                *)
LEMMA HitsOfCall ==
  ASSUME LimitTypeOK, NEW k \in Keys, NEW spent \in BOOLEAN, NEW trip \in BOOLEAN,
         Observe(k, WithEntry(k), spent, trip),
         NEW m \in Keys, Len(hits'[m]) > Len(hits[m])
  PROVE  m = k /\ spent
<1> DEFINE s == WithEntry(k)
           gone == {h \in DOMAIN store : Live(store, h) /\ h \notin DOMAIN s}
<1>1. hits[m] \in Seq(Nat) /\ Len(hits[m]) \in Nat
  BY DEF LimitTypeOK
<1>2. hits'[m] = IF m \in gone THEN <<>>
                 ELSE IF m = k /\ spent THEN Append(hits[m], now) ELSE hits[m]
  BY DEF Observe
<1>3. Len(<<>>) = 0
  OBVIOUS
<1> QED BY <1>1, <1>2, <1>3

LEMMA ArrivalStep ==
  ASSUME LimitTypeOK, [Next]_vars, NEW m \in Keys, Len(hits'[m]) > Len(hits[m])
  PROVE  m \in DOMAIN store' /\ store'[m].count > 0
<1>1. hits[m] \in Seq(Nat) /\ Len(hits[m]) \in Nat
  BY DEF LimitTypeOK
<1>2. ASSUME NEW k \in Keys, NEW consume \in BOOLEAN, Allow(k, consume)
      PROVE  m \in DOMAIN store' /\ store'[m].count > 0
  <2>1. m = k /\ consume
    BY <1>2, HitsOfCall DEF Allow
  <2>2. k \in DOMAIN WithEntry(k) /\ EntryFor(k) \in Counter
    BY RoomForOne, EntryIsLive
  <2>3. store' = [WithEntry(k) EXCEPT ![k] = [EntryFor(k) EXCEPT !.count = @ + 1]]
    BY <1>2, <2>1 DEF Allow, Spend
  <2>4. m \in DOMAIN store' /\ store'[m] = [EntryFor(k) EXCEPT !.count = @ + 1]
    BY <2>1, <2>2, <2>3
  <2>5. [EntryFor(k) EXCEPT !.count = @ + 1].count = EntryFor(k).count + 1 /\ EntryFor(k).count \in Nat
    BY <2>2 DEF Counter
  <2> QED BY <2>4, <2>5
<1>3. ASSUME NEW k \in Keys, Deny(k) PROVE FALSE
  <2>1. (~EntryFor(k).notified) \in BOOLEAN
    OBVIOUS
  <2> QED BY <2>1, <1>3, HitsOfCall DEF Deny
<1>4. ASSUME NEW k \in Keys, ResetRateLimit(k) PROVE FALSE
  <2>1. hits'[m] = hits[m] \/ hits'[m] = <<>>
    BY <1>4 DEF ResetRateLimit, LimitTypeOK
  <2> QED BY <1>1, <2>1
<1>5. CASE Tick \/ UNCHANGED vars
  BY <1>1, <1>5 DEF Tick, vars
<1> QED BY <1>2, <1>3, <1>4, <1>5 DEF Next

(* Making room never costs the arrival its own entry.                      *)
THEOREM ArrivalIsKept == Spec => ArrivalKept
<1>1. LimitTypeOK /\ [Next]_vars =>
        [\A k \in Keys : Len(hits'[k]) > Len(hits[k]) =>
            k \in DOMAIN store' /\ store'[k].count > 0]_vars
  BY ArrivalStep
<1> QED BY <1>1, LimitTypeCorrect, PTL DEF Spec, ArrivalKept

LEMMA LeastStep ==
  ASSUME LimitTypeOK, [Next]_vars, NEW h \in Unexpired(store), NEW m \in DOMAIN store,
         stamps' > stamps, h \notin DOMAIN store', m \in DOMAIN store',
         store'[m].stamp = store[m].stamp
  PROVE  Live(store, m) /\ store[h].count <= store[m].count
<1>1. ASSUME NEW k \in Keys, NEW e \in Left(k), store' = [WithEntry(k) EXCEPT ![k] = e]
      PROVE  Live(store, m) /\ store[h].count <= store[m].count
  <2> DEFINE s == WithEntry(k)
  <2>1. /\ DOMAIN store' = DOMAIN s /\ k \in DOMAIN s /\ store'[k] = e
        /\ e.stamp = EntryFor(k).stamp
    BY <1>1, RoomForOne, LeftIsCounter
  <2>2. PICK g \in Keys :
          /\ \A u \in Unexpired(store) : u # g => u \in DOMAIN s
          /\ g # k => /\ g \in Unexpired(store) /\ g \notin DOMAIN s
                      /\ \A u \in DOMAIN s \ {k} : u \in Unexpired(store)
                      /\ \A u \in Unexpired(store) : store[g].count <= store[u].count
                      /\ EntryFor(k).stamp = stamps
    BY RoomForOne
  <2>3. h = g /\ g # k
    BY <2>1, <2>2
  <2>4. m # k
    <3>1. store[m].stamp < stamps /\ store[m].stamp \in Nat /\ stamps \in Nat
      BY DEF LimitTypeOK, Counter
    <3> QED BY <3>1, <2>1, <2>2, <2>3
  <2>5. m \in Unexpired(store)
    BY <2>1, <2>2, <2>3, <2>4
  <2> QED BY <2>2, <2>3, <2>5 DEF Unexpired
<1>2. ASSUME NEW k \in Keys, NEW consume \in BOOLEAN, Allow(k, consume)
      PROVE  Live(store, m) /\ store[h].count <= store[m].count
  BY <1>1, <1>2, AllowLeaves
<1>3. ASSUME NEW k \in Keys, Deny(k) PROVE Live(store, m) /\ store[h].count <= store[m].count
  BY <1>1, <1>3, DenyLeaves
<1>4. ASSUME stamps' = stamps PROVE FALSE
  BY <1>4 DEF LimitTypeOK
<1> QED BY <1>2, <1>3, <1>4 DEF Next, ResetRateLimit, Tick, vars

(* pruneIfAtCapacity gives up the entry that does the least work.          *)
THEOREM LeastWorkIsEvicted == Spec => LeastWorkGoes
<1>1. LimitTypeOK /\ [Next]_vars =>
        [\A k \in Unexpired(store), m \in DOMAIN store :
           /\ stamps' > stamps /\ k \notin DOMAIN store'
           /\ m \in DOMAIN store' /\ store'[m].stamp = store[m].stamp
           => Live(store, m) /\ store[k].count <= store[m].count]_vars
  BY LeastStep
<1> QED BY <1>1, LimitTypeCorrect, PTL DEF Spec, LeastWorkGoes

-----------------------------------------------------------------------------
(* Two windows at most *)

(* u says of the consumptions of k when the window that counted each ends:  *)
(* a window counts at most MaxHits of them, the next opens after it is      *)
(* over, and the last count of them are in the window that is open.         *)
CountedBy(k, u) ==
  /\ \A i \in DOMAIN hits[k] :
       /\ u[i] - Window <= hits[k][i] /\ hits[k][i] < u[i]
       /\ i + MaxHits \in DOMAIN hits[k] => u[i] <= u[i + MaxHits] - Window
       /\ ~Live(store, k) => u[i] <= now
  /\ Live(store, k) =>
       /\ store[k].count <= MaxHits /\ store[k].count <= Len(hits[k])
       /\ \A i \in DOMAIN hits[k] :
            IF i <= Len(hits[k]) - store[k].count
            THEN u[i] <= store[k].resetAt - Window ELSE u[i] = store[k].resetAt

Counted(k) == \E u \in [DOMAIN hits[k] -> Int] : CountedBy(k, u)

(* Nothing is appended to the consumptions of a key but by a call for it.   *)
LEMMA CountedKept ==
  ASSUME LimitTypeOK, NEW k \in Keys, Counted(k), hits'[k] = hits[k], now' = now,
         Live(store, k)' <=> Live(store, k),
         Live(store, k) => /\ store'[k].count = store[k].count
                           /\ store'[k].resetAt = store[k].resetAt
  PROVE  Counted(k)'
<1>1. PICK u \in [DOMAIN hits[k] -> Int] : CountedBy(k, u)
  BY DEF Counted
<1>2. CountedBy(k, u)'
  BY <1>1 DEF CountedBy
<1> QED BY <1>1, <1>2 DEF Counted

LEMMA CountedAnew == ASSUME NEW k \in Keys, hits'[k] = <<>>, ~Live(store, k)' PROVE Counted(k)'
<1>1. DOMAIN hits'[k] = {}
  OBVIOUS
<1>2. \A u : CountedBy(k, u)'
  BY <1>1 DEF CountedBy
<1>3. [i \in {} |-> 0] \in [DOMAIN hits'[k] -> Int]
  BY <1>1
<1> QED BY <1>2, <1>3 DEF Counted

(* The key of a call: a window that is open has counted its consumptions    *)
(* last, and one that is opened comes after all of them.                    *)
LEMMA CountedOfCall ==
  ASSUME LimitTypeOK, NEW k \in Keys, Counted(k), NEW e \in Left(k), NEW spent \in BOOLEAN,
         store' = [WithEntry(k) EXCEPT ![k] = e], now' = now,
         hits'[k] = IF spent THEN Append(hits[k], now) ELSE hits[k],
         e.count = IF spent THEN EntryFor(k).count + 1 ELSE EntryFor(k).count,
         spent => EntryFor(k).count < MaxHits
  PROVE  Counted(k)'
<1> DEFINE h == hits[k]
           c == EntryFor(k).count
           at == EntryFor(k).resetAt
<1>1. PICK u \in [DOMAIN h -> Int] : CountedBy(k, u)
  BY DEF Counted
<1>2. /\ h \in Seq(Nat) /\ Len(h) \in Nat /\ DOMAIN h = 1..Len(h) /\ now \in Nat
      /\ MaxHits \in Nat \ {0} /\ Window \in Nat \ {0} /\ c \in Nat /\ at \in Nat
      /\ now < at /\ at <= now + Window
  <2>1. EntryFor(k) \in Counter /\ now < at /\ at <= now + Window
    BY EntryIsLive
  <2>2. c \in Nat /\ at \in Nat
    BY <2>1 DEF Counter
  <2>3. h \in Seq(Nat) /\ now \in Nat
    BY DEF LimitTypeOK
  <2>4. Len(h) \in Nat /\ DOMAIN h = 1..Len(h)
    BY <2>3
  <2>5. MaxHits \in Nat \ {0} /\ Window \in Nat \ {0}
    BY LimitAssumption
  <2> QED BY <2>1, <2>2, <2>3, <2>4, <2>5
<1>3. /\ c <= MaxHits /\ c <= Len(h)
      /\ \A i \in DOMAIN h : IF i <= Len(h) - c THEN u[i] <= at - Window ELSE u[i] = at
  <2>1. CASE Live(store, k)
    BY <2>1, <1>1, EntryIsLive DEF CountedBy
  <2>2. CASE ~Live(store, k)
    <3>1. c = 0 /\ at = now + Window
      BY <2>2 DEF EntryFor, Fresh
    <3>2. \A i \in DOMAIN h : i <= Len(h) - c /\ u[i] <= at - Window
      BY <2>2, <3>1, <1>1, <1>2 DEF CountedBy
    <3> QED BY <3>1, <3>2, <1>2
  <2> QED BY <2>1, <2>2
<1>4. Live(store, k)' /\ store'[k] = e /\ e.resetAt = at
  <2>1. k \in DOMAIN WithEntry(k) /\ e.resetAt = at
    BY RoomForOne, LeftIsCounter
  <2>2. k \in DOMAIN store' /\ store'[k] = e
    BY <2>1
  <2> QED BY <2>1, <2>2, <1>2 DEF Live
<1>5. CASE ~spent
  <2>1. CountedBy(k, u)'
    BY <1>1, <1>2, <1>3, <1>4, <1>5 DEF CountedBy
  <2> QED BY <2>1, <1>5 DEF Counted
<1>6. CASE spent
  <2> DEFINE g == Append(h, now)
    <2>1. /\ hits'[k] = g /\ DOMAIN g = 1..(Len(h) + 1) /\ Len(g) = Len(h) + 1
        /\ g[Len(h) + 1] = now /\ \A i \in 1..Len(h) : g[i] = h[i]
    BY <1>2, <1>6
  <2>2. PICK v \in [DOMAIN g -> Int] : v[Len(h) + 1] = at /\ \A i \in 1..Len(h) : v[i] = u[i]
    <3> DEFINE w == [i \in DOMAIN g |-> IF i <= Len(h) THEN u[i] ELSE at]
    <3>1. w \in [DOMAIN g -> Int] /\ w[Len(h) + 1] = at /\ \A i \in 1..Len(h) : w[i] = u[i]
      BY <1>2, <2>1
    <3> QED BY <3>1
  <2> HIDE DEF g
  <2>3. \A i \in DOMAIN g : v[i] - Window <= g[i] /\ g[i] < v[i]
    <3> SUFFICES ASSUME NEW i \in DOMAIN g PROVE v[i] - Window <= g[i] /\ g[i] < v[i]
      OBVIOUS
    <3>1. CASE i = Len(h) + 1
      BY <3>1, <2>1, <2>2, <1>2
    <3>2. CASE i # Len(h) + 1
      <4>1. i \in DOMAIN h
        BY <3>2, <2>1, <1>2
      <4>2. u[i] - Window <= h[i] /\ h[i] < u[i]
        BY <4>1, <1>1 DEF CountedBy
      <4> QED BY <4>1, <4>2, <2>1, <2>2, <1>2
    <3> QED BY <3>1, <3>2
  <2>4. \A i \in DOMAIN g : i + MaxHits \in DOMAIN g => v[i] <= v[i + MaxHits] - Window
    <3> SUFFICES ASSUME NEW i \in DOMAIN g, i + MaxHits \in DOMAIN g
                 PROVE  v[i] <= v[i + MaxHits] - Window
      OBVIOUS
    <3>1. i \in DOMAIN h
      <4>1. DOMAIN g = 1..(Len(h) + 1)
        BY <2>1
      <4>2. Len(h) \in Nat /\ MaxHits \in Nat \ {0} /\ DOMAIN h = 1..Len(h)
        BY <1>2
      <4>3. i \in 1..(Len(h) + 1) /\ i + MaxHits \in 1..(Len(h) + 1)
        BY <4>1
      <4>4. i \in 1..Len(h)
        BY <4>2, <4>3
      <4> QED BY <4>2, <4>4
    <3>2. CASE i + MaxHits = Len(h) + 1
      <4>1. i <= Len(h) - c
        <5>1. c < MaxHits
          BY <1>6
        <5>2. c \in Nat /\ MaxHits \in Nat /\ Len(h) \in Nat /\ i \in Nat
          BY <3>1, <1>2
        <5> HIDE DEF c, h
        <5> QED BY <5>1, <5>2, <3>2
      <4>2. u[i] <= at - Window
        BY <3>1, <4>1, <1>3
      <4>3. v[i] = u[i] /\ v[i + MaxHits] = at
        BY <3>1, <3>2, <2>2, <1>2
      <4> QED BY <4>2, <4>3
    <3>3. CASE i + MaxHits # Len(h) + 1
      <4>1. i + MaxHits \in DOMAIN h
        <5>1. i + MaxHits \in Nat /\ 1 <= i + MaxHits /\ i + MaxHits <= Len(h) + 1
          BY <3>1, <2>1, <1>2
        <5> QED BY <5>1, <3>3, <1>2
      <4>2. u[i] <= u[i + MaxHits] - Window
        BY <3>1, <4>1, <1>1 DEF CountedBy
      <4> QED BY <3>1, <4>1, <4>2, <2>2, <1>2
    <3> QED BY <3>2, <3>3
  <2>5. \A i \in DOMAIN g : IF i <= Len(g) - (c + 1) THEN v[i] <= at - Window ELSE v[i] = at
    <3> SUFFICES ASSUME NEW i \in DOMAIN g
                 PROVE  IF i <= Len(g) - (c + 1) THEN v[i] <= at - Window ELSE v[i] = at
      OBVIOUS
    <3>1. CASE i = Len(h) + 1
      BY <3>1, <2>1, <2>2, <1>2
    <3>2. CASE i # Len(h) + 1
      <4>1. i \in DOMAIN h
        BY <3>2, <2>1, <1>2
      <4>2. v[i] = u[i]
        BY <4>1, <2>2, <1>2
      <4>3. IF i <= Len(h) - c THEN u[i] <= at - Window ELSE u[i] = at
        BY <4>1, <1>3
      <4>4. Len(g) - (c + 1) = Len(h) - c
        BY <2>1, <1>2
      <4> QED BY <4>2, <4>3, <4>4
    <3> QED BY <3>1, <3>2
  <2>6. CountedBy(k, v)'
    <3>1. c + 1 <= MaxHits /\ c + 1 <= Len(g)
      BY <1>2, <1>3, <1>6, <2>1
    <3> QED BY <3>1, <2>1, <2>3, <2>4, <2>5, <1>4, <1>6 DEF CountedBy
  <2> QED BY <2>1, <2>2, <2>6 DEF Counted
<1> QED BY <1>5, <1>6

(* A call leaves the others counted: their windows are as they were, or     *)
(* have been given up with the consumptions they counted.                   *)
LEMMA CountedOfOthers ==
  ASSUME LimitTypeOK, NEW k \in Keys, NEW e \in Left(k), NEW spent, NEW trip,
         store' = [WithEntry(k) EXCEPT ![k] = e], Observe(k, WithEntry(k), spent, trip), now' = now,
         NEW m \in Keys, m # k, Counted(m)
  PROVE  Counted(m)'
<1> DEFINE s == WithEntry(k)
<1>1. /\ DOMAIN store' = DOMAIN s
      /\ \A n \in DOMAIN s \ {k} : n \in DOMAIN store /\ store'[n] = store[n]
  BY RoomForOne
<1>2. CASE m \in DOMAIN s
  <2>1. hits'[m] = hits[m]
    BY <1>2 DEF Observe
  <2>2. store'[m] = store[m] /\ m \in DOMAIN store /\ m \in DOMAIN store'
    BY <1>1, <1>2
  <2>3. Live(store, m)' <=> Live(store, m)
    BY <2>2 DEF Live
  <2> QED BY <2>1, <2>2, <2>3, CountedKept
<1>3. CASE m \notin DOMAIN s
  <2>1. ~Live(store, m)'
    BY <1>1, <1>3 DEF Live
  <2>2. CASE Live(store, m)
    <3>1. hits'[m] = <<>>
      BY <1>3, <2>2 DEF Observe, Live
    <3> QED BY <3>1, <2>1, CountedAnew
  <2>3. CASE ~Live(store, m)
    <3>1. hits'[m] = hits[m]
      BY <2>3 DEF Observe
    <3> QED BY <3>1, <2>1, <2>3, CountedKept
  <2> QED BY <2>2, <2>3
<1> QED BY <1>2, <1>3

LEMMA CountedStep ==
  ASSUME LimitTypeOK, [Next]_vars, \A k \in Keys : Counted(k)
  PROVE  \A k \in Keys : Counted(k)'
<1>1. ASSUME NEW k \in Keys, NEW consume \in BOOLEAN, Allow(k, consume), NEW m \in Keys
      PROVE  Counted(m)'
  <2> DEFINE e == Spend(EntryFor(k), consume)
  <2>1. /\ e \in Left(k) /\ store' = [WithEntry(k) EXCEPT ![k] = e] /\ now' = now
        /\ Observe(k, WithEntry(k), consume, FALSE)
    BY <1>1 DEF Allow, Spend, Left
  <2>2. EntryFor(k).count < MaxHits
    BY <1>1 DEF Allow, Allowed
  <2>3. e.count = IF consume THEN EntryFor(k).count + 1 ELSE EntryFor(k).count
    BY EntryIsLive DEF Spend, Counter
  <2>4. hits'[k] = IF consume THEN Append(hits[k], now) ELSE hits[k]
    BY <2>1, RoomForOne DEF Observe
  <2> HIDE DEF e
  <2>5. CASE m = k
    BY <2>1, <2>2, <2>3, <2>4, <2>5, CountedOfCall
  <2>6. CASE m # k
    BY <2>1, <2>6, CountedOfOthers
  <2> QED BY <2>5, <2>6
<1>2. ASSUME NEW k \in Keys, Deny(k), NEW m \in Keys PROVE Counted(m)'
  <2> DEFINE e == [EntryFor(k) EXCEPT !.notified = TRUE]
  <2>1. /\ e \in Left(k) /\ store' = [WithEntry(k) EXCEPT ![k] = e] /\ now' = now
        /\ Observe(k, WithEntry(k), FALSE, ~EntryFor(k).notified)
    BY <1>2 DEF Deny, Left
  <2>2. e.count = EntryFor(k).count
    BY EntryIsLive DEF Counter
  <2>3. hits'[k] = hits[k]
    BY <2>1, RoomForOne DEF Observe
  <2> HIDE DEF e
  <2>4. CASE m = k
    BY <2>1, <2>2, <2>3, <2>4, CountedOfCall
  <2>5. CASE m # k
    BY <2>1, <2>5, CountedOfOthers
  <2> QED BY <2>4, <2>5
<1>3. ASSUME NEW k \in Keys, ResetRateLimit(k), NEW m \in Keys PROVE Counted(m)'
  <2>1. CASE m = k
    <3>1. hits'[m] = <<>> /\ ~Live(store, m)'
      BY <1>3, <2>1 DEF ResetRateLimit, LimitTypeOK, Only, Live
    <3> QED BY <3>1, CountedAnew
  <2>2. CASE m # k
    <3>1. hits'[m] = hits[m] /\ now' = now
      BY <1>3, <2>2 DEF ResetRateLimit
    <3>2. Live(store, m)' <=> Live(store, m)
      BY <1>3, <2>2 DEF ResetRateLimit, Only, Live
    <3>3. Live(store, m) => store'[m] = store[m]
      BY <1>3, <2>2 DEF ResetRateLimit, Only, Live
    <3> QED BY <3>1, <3>2, <3>3, CountedKept
  <2> QED BY <2>1, <2>2
<1>4. ASSUME Tick, NEW m \in Keys PROVE Counted(m)'
  <2>1. PICK u \in [DOMAIN hits[m] -> Int] : CountedBy(m, u)
    BY DEF Counted
  <2>2. now \in Nat /\ now' = now + 1 /\ hits' = hits /\ store' = store
    BY <1>4 DEF Tick, LimitTypeOK
  <2>3. m \in DOMAIN store => /\ store[m].resetAt \in Nat /\ store[m].count \in Nat
    BY DEF LimitTypeOK, Counter
  <2>4. Live(store, m)' => Live(store, m)
    BY <2>2, <2>3 DEF Live
  <2>5. Live(store, m) /\ ~Live(store, m)' => store[m].resetAt <= now'
    BY <2>2, <2>3 DEF Live
  <2>6. ASSUME NEW i \in DOMAIN hits[m], ~Live(store, m)' PROVE u[i] <= now'
    <3>1. CASE Live(store, m)
      <4>1. u[i] <= store[m].resetAt
        BY <3>1, <2>1, <2>3, LimitAssumption DEF CountedBy, Live
      <4>2. u[i] \in Int
        BY <2>1
      <4> QED BY <4>1, <4>2, <3>1, <2>5, <2>6, <2>3, <2>2 DEF Live
    <3>2. CASE ~Live(store, m)
      BY <3>2, <2>1, <2>2 DEF CountedBy
    <3> QED BY <3>1, <3>2
  <2>7. CountedBy(m, u)'
    BY <2>1, <2>2, <2>4, <2>6 DEF CountedBy
  <2> QED BY <2>2, <2>7 DEF Counted
<1>5. ASSUME UNCHANGED vars, NEW m \in Keys PROVE Counted(m)'
  BY <1>5, CountedKept DEF vars, Live
<1> QED BY <1>1, <1>2, <1>3, <1>4, <1>5 DEF Next

(* Of 2 * MaxHits + 1 consumptions in a row the last is in a window that    *)
(* opened a whole window after the first one's was over.                    *)
LEMMA CountedTwice ==
  ASSUME LimitTypeOK, \A k \in Keys : Counted(k)
  PROVE  TwoWindowsAtMost
<1> SUFFICES ASSUME NEW k \in Keys, NEW i \in DOMAIN hits[k], i + 2 * MaxHits \in DOMAIN hits[k]
             PROVE  hits[k][i + 2 * MaxHits] >= hits[k][i] + Window
  BY DEF TwoWindowsAtMost
<1> DEFINE j == i + MaxHits
           m == i + 2 * MaxHits
<1>1. PICK u \in [DOMAIN hits[k] -> Int] : CountedBy(k, u)
  BY DEF Counted
<1>2. hits[k] \in Seq(Nat) /\ DOMAIN hits[k] = 1..Len(hits[k]) /\ MaxHits \in Nat \ {0} /\ Window \in Nat
  BY LimitAssumption DEF LimitTypeOK
<1>3. i \in Nat /\ j \in DOMAIN hits[k] /\ m = j + MaxHits
  <2>1. /\ Len(hits[k]) \in Nat /\ MaxHits \in Nat
        /\ i \in 1..Len(hits[k]) /\ i + 2 * MaxHits \in 1..Len(hits[k])
    BY <1>2
  <2>2. i + MaxHits \in 1..Len(hits[k]) /\ i + 2 * MaxHits = (i + MaxHits) + MaxHits
    BY <2>1
  <2> QED BY <1>2, <2>1, <2>2
<1>4. hits[k][i] < u[i] /\ u[i] <= u[j] - Window
  BY <1>1, <1>3 DEF CountedBy
<1>5. u[j] <= u[m] - Window /\ u[m] - Window <= hits[k][m]
  BY <1>1, <1>3 DEF CountedBy
<1> HIDE DEF j, m
<1>6. m \in DOMAIN hits[k]
  BY DEF m
<1>7. u[i] \in Int /\ u[j] \in Int /\ u[m] \in Int
  BY <1>1, <1>3, <1>6
<1>8. hits[k][i] \in Nat /\ hits[k][m] \in Nat
  BY <1>2, <1>6, ElementOfSeq
<1>9. hits[k][m] >= hits[k][i] + Window
  <2> DEFINE a == hits[k][i]  b == hits[k][m]  x == u[i]  y == u[j]  z == u[m]
  <2>1. a < x /\ x <= y - Window /\ y <= z - Window /\ z - Window <= b
    BY <1>4, <1>5
  <2>2. a \in Nat /\ b \in Nat /\ x \in Int /\ y \in Int /\ z \in Int /\ Window \in Nat
    BY <1>2, <1>7, <1>8
  <2> HIDE DEF a, b, x, y, z
  <2>3. b >= a + Window
    BY <2>1, <2>2
  <2> QED BY <2>3 DEF a, b
<1> QED BY <1>9 DEF m

(* Whatever keys share the bucket and however the calls fall, a key that is *)
(* neither reset nor evicted consumes at most two budgets in a window.      *)
THEOREM TwoWindows == Spec => []TwoWindowsAtMost
<1>1. Init => \A k \in Keys : Counted(k)
  <2> SUFFICES ASSUME Init, NEW k \in Keys PROVE Counted(k)
    OBVIOUS
  <2>1. DOMAIN hits[k] = {} /\ ~Live(store, k)
    BY DEF Init, Live
  <2>2. [i \in {} |-> 0] \in [DOMAIN hits[k] -> Int] /\ \A u : CountedBy(k, u)
    BY <2>1 DEF CountedBy
  <2> QED BY <2>2 DEF Counted
<1>2. LimitTypeOK /\ (\A k \in Keys : Counted(k)) /\ [Next]_vars => (\A k \in Keys : Counted(k))'
  BY CountedStep
<1> QED BY <1>1, <1>2, CountedTwice, LimitTypeCorrect, PTL DEF Spec

=============================================================================
