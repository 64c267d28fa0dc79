------------------------------ MODULE RateLimit ------------------------------
(***************************************************************************)
(* One bucket of the fixed-window limiter in src/lib/api/rate-limit.ts: a   *)
(* Map from keys to counters with a cap on its entries.  decide() runs      *)
(* without an await, so every call is one action.  The Map's insertion      *)
(* order, which settles ties between victims, is a stamp on each entry.     *)
(* Keys are what truncatedKey makes of them.  A bucket whose maximum is 0   *)
(* decides nothing and is left out.                                         *)
(***************************************************************************)
EXTENDS Integers, FiniteSets, Sequences

CONSTANTS Keys,
          MaxHits, Window,        \* limit.max, limit.windowSeconds
          Capacity,               \* MAX_ENTRIES_PER_BUCKET
          MaxNow, MaxStamps       \* bounds of the exploration

ASSUME LimitAssumption ==
  /\ IsFiniteSet(Keys)
  /\ MaxHits \in Nat \ {0} /\ Window \in Nat \ {0} /\ Capacity \in Nat \ {0}
  /\ MaxNow \in Nat /\ MaxStamps \in Nat

VARIABLES
  store,     \* bucketStores[bucket]
  now, stamps,
  hits,      \* key -> the times its consumptions were allowed, in order, since
             \* it was last reset or evicted
  trips      \* key -> trips reported (decision.tripped), which the routes audit

vars == <<store, now, stamps, hits, trips>>

Counter == [count : Nat, resetAt : Nat, notified : BOOLEAN, stamp : Nat]

Init ==
  /\ store = [k \in {} |-> 0] /\ now = 0 /\ stamps = 0
  /\ hits = [k \in Keys |-> <<>>]
  /\ trips = [k \in Keys |-> 0]

Live(s, k) == k \in DOMAIN s /\ now < s[k].resetAt

Only(s, ks) == [k \in ks |-> s[k]]

Unexpired(s) == {k \in DOMAIN s : Live(s, k)}

(* Mutation: the victim is the oldest entry, not the one doing least work. *)
Victim_oldest(s) ==
  CHOOSE k \in DOMAIN s : \A m \in DOMAIN s : s[k].stamp <= s[m].stamp

(* The entry with the lowest count, of those the one inserted first. *)
Victim(s) ==
  CHOOSE k \in DOMAIN s : \A m \in DOMAIN s :
    \/ s[k].count < s[m].count
    \/ s[k].count = s[m].count /\ s[k].stamp <= s[m].stamp

(* Mutation: room is made one entry too late. *)
PruneIfAtCapacity_late(s) ==
  IF Cardinality(DOMAIN s) <= Capacity THEN s
  ELSE LET kept == Only(s, Unexpired(s))
       IN IF Cardinality(DOMAIN kept) <= Capacity THEN kept
          ELSE Only(kept, DOMAIN kept \ {Victim(kept)})

(* At capacity the expired entries go, and if none has the victim does. *)
PruneIfAtCapacity(s) ==
  IF Cardinality(DOMAIN s) < Capacity THEN s
  ELSE LET kept == Only(s, Unexpired(s))
       IN IF Cardinality(DOMAIN kept) < Capacity THEN kept
          ELSE Only(kept, DOMAIN kept \ {Victim(kept)})

(* A key that is in the Map keeps its place when its entry is replaced. *)
Fresh(k, s) == [count |-> 0, resetAt |-> now + Window, notified |-> FALSE,
                stamp |-> IF k \in DOMAIN s THEN s[k].stamp ELSE stamps]

Inserted(s, k) == [m \in DOMAIN s \cup {k} |-> IF m = k THEN Fresh(k, s) ELSE s[m]]

(* Mutation: the bucket is pruned after the entry has been inserted. *)
WithEntry_pruneAfter(k) ==
  IF Live(store, k) THEN store ELSE PruneIfAtCapacity_late(Inserted(store, k))

(* The bucket with a live entry for k, room made before it is inserted. *)
WithEntry(k) ==
  IF Live(store, k) THEN store ELSE Inserted(PruneIfAtCapacity(store), k)

(* The counter the call decides by. *)
EntryFor(k) ==
  IF Live(store, k) THEN store[k] ELSE Fresh(k, PruneIfAtCapacity(store))

(* Mutation: one more than the maximum is let through. *)
Allowed_offByOne(entry) == entry.count <= MaxHits

Allowed(entry) == entry.count < MaxHits

(* What a call for k that leaves the bucket as s lets through and reports. *)
Observe(k, s, spent, trip) ==
  LET gone == {m \in DOMAIN store : Live(store, m) /\ m \notin DOMAIN s}
  IN  /\ hits' = [m \in Keys |-> IF m \in gone THEN <<>>
                   ELSE IF m = k /\ spent THEN Append(hits[m], now) ELSE hits[m]]
      /\ trips' = IF trip THEN [trips EXCEPT ![k] = @ + 1] ELSE trips
      /\ stamps' = IF Live(store, k) THEN stamps ELSE stamps + 1

Spend(entry, consume) == IF consume THEN [entry EXCEPT !.count = @ + 1] ELSE entry

(* consumeRateLimit (consume) and peekRateLimit: the budget allows it. *)
Allow(k, consume) ==
  /\ stamps < MaxStamps
  /\ Allowed(EntryFor(k))
  /\ store' = [WithEntry(k) EXCEPT ![k] = Spend(EntryFor(k), consume)]
  /\ Observe(k, WithEntry(k), consume, FALSE)
  /\ UNCHANGED now

(* Mutation: the notice is not latched. *)
Deny_everyTime(k) ==
  /\ stamps < MaxStamps
  /\ ~Allowed(EntryFor(k))
  /\ store' = WithEntry(k)
  /\ Observe(k, WithEntry(k), FALSE, ~EntryFor(k).notified)
  /\ UNCHANGED now

(* The budget is spent: the first refusal of a window reports the trip, a   *)
(* peek's as much as a consumption's.                                       *)
Deny(k) ==
  /\ stamps < MaxStamps
  /\ ~Allowed(EntryFor(k))
  /\ store' = [WithEntry(k) EXCEPT ![k] = [EntryFor(k) EXCEPT !.notified = TRUE]]
  /\ Observe(k, WithEntry(k), FALSE, ~EntryFor(k).notified)
  /\ UNCHANGED now

ResetRateLimit(k) ==
  /\ store' = Only(store, DOMAIN store \ {k})
  /\ hits' = [hits EXCEPT ![k] = <<>>]
  /\ UNCHANGED <<now, stamps, trips>>

(* Date.now moves on. *)
Tick == now < MaxNow /\ now' = now + 1 /\ UNCHANGED <<store, stamps, hits, trips>>

Next ==
  \/ \E k \in Keys, consume \in BOOLEAN : Allow(k, consume)
  \/ \E k \in Keys : Deny(k)
  \/ \E k \in Keys : ResetRateLimit(k)
  \/ Tick

Spec == Init /\ [][Next]_vars

-----------------------------------------------------------------------------
(* Properties *)

(* However many keys arrive, the bucket never holds more than its cap.      *)
WithinCap == Cardinality(DOMAIN store) <= Capacity

(* What a fixed window promises of any span of time as long as a window: it *)
(* can straddle two of them, and lets through at most twice the maximum,    *)
(* as long as the key is neither reset nor evicted.  Of any 2 * MaxHits + 1 *)
(* consumptions in a row the last is a whole window after the first.        *)
TwoWindowsAtMost ==
  \A k \in Keys : \A i \in DOMAIN hits[k] :
    i + 2 * MaxHits \in DOMAIN hits[k] => hits[k][i + 2 * MaxHits] >= hits[k][i] + Window

(* What is let through is counted: making room never costs the arrival its  *)
(* own entry, which would leave it unlimited and the established ones immune. *)
ArrivalKept ==
  [][\A k \in Keys : Len(hits'[k]) > Len(hits[k]) =>
       k \in DOMAIN store' /\ store'[k].count > 0]_vars

(* An entry that still counts is given up only for room, and never one that *)
(* has counted more than an entry the bucket keeps.                         *)
LeastWorkGoes ==
  [][\A k \in Unexpired(store), m \in DOMAIN store :
       /\ stamps' > stamps /\ k \notin DOMAIN store'
       /\ m \in DOMAIN store' /\ store'[m].stamp = store[m].stamp
       => Live(store, m) /\ store[k].count <= store[m].count]_vars

(* The windows the calls of now are decided by: an expired entry counts as  *)
(* none, whether it has been pruned or not.                                 *)
InForce == [k \in Keys |->
  IF Live(store, k)
  THEN [count |-> store[k].count, until |-> store[k].resetAt, told |-> store[k].notified]
  ELSE [count |-> 0, until |-> 0, told |-> FALSE]]

PerKey == INSTANCE Windows WITH window <- InForce

(* The shared Map keeps what a limiter promises each key by itself: calls   *)
(* for other keys can make the bucket forget a key, never miscount it; the  *)
(* arrival keeps its own entry; and a window reports one trip, to whichever *)
(* call meets it first.                                                     *)
KeysApart == PerKey!Spec

=============================================================================
