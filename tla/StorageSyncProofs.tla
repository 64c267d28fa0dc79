-------------------------- MODULE StorageSyncProofs --------------------------
(* The write-through cache of a browser, for every set of collections and   *)
(* every bound.                                                             *)
EXTENDS StorageSync, SequenceTheorems, TLAPS

Version == 0..(MaxEdits + 1)

(* A push: what it carries, and how each of its collections has fared.      *)
Flight == [own : BOOLEAN,
           data : UNION {[S -> Version] : S \in SUBSET Cols},
           st : UNION {[S -> {"sent", "ok", "failed"}] : S \in SUBSET Cols}]

Fetch == [own : Versions \cup {None}, stray : Versions \cup {None}]

(* Every variable stays within its type, and a push says how every          *)
(* collection it carries has fared.                                         *)
TypeInv ==
  /\ local \in Versions /\ server \in Versions /\ heard \in Versions /\ acked \in Versions
  /\ edits \in 1..(MaxEdits + 1) /\ mounts \in Nat /\ losses \in Nat
  /\ phase \in {"config", "migrate", "pull", "pulling", "ready", "gone"}
  /\ pending \subseteq Cols
  /\ flights \in Seq(Flight)
  /\ \A i \in DOMAIN flights : DOMAIN flights[i].st = DOMAIN flights[i].data
  /\ posts \in Fetch /\ pulls \in Fetch

LEMMA VersionsAreNaturals ==
  /\ MaxEdits \in Nat /\ Version \subseteq Nat /\ Versions = [Cols -> Version]
BY SyncBounds DEF Version, Versions

(* What settling one collection of one push changes.                        *)
LEMMA SettleEffect ==
  ASSUME TypeInv, NEW i, NEW c, NEW how \in {"ok", "failed"}, Sent(i, c), Settle(i, c, how)
  PROVE  /\ flights' \in Seq(Flight) /\ DOMAIN flights' = DOMAIN flights
         /\ \A j \in DOMAIN flights :
              /\ flights'[j].own = flights[j].own /\ flights'[j].data = flights[j].data
              /\ DOMAIN flights'[j].st = DOMAIN flights[j].st
              /\ \A d \in DOMAIN flights[j].st :
                   flights'[j].st[d] = IF j = i /\ d = c THEN how ELSE flights[j].st[d]
<1> DEFINE f == flights[i]
           g == [f EXCEPT !.st = [f.st EXCEPT ![c] = how]]
<1>1. i \in DOMAIN flights /\ c \in DOMAIN f.st /\ f \in Flight /\ flights \in Seq(Flight)
  BY DEF Sent, TypeInv
<1>2. flights' = [flights EXCEPT ![i] = g]
  BY DEF Settle
<1>3. [f.st EXCEPT ![c] = how] \in UNION {[S -> {"sent", "ok", "failed"}] : S \in SUBSET Cols}
  BY <1>1 DEF Flight
<1>4. g \in Flight /\ g.own = f.own /\ g.data = f.data /\ g.st = [f.st EXCEPT ![c] = how]
  <2>1. f.own \in BOOLEAN /\ f.data \in UNION {[S -> Version] : S \in SUBSET Cols}
    BY <1>1 DEF Flight
  <2>2. DOMAIN f = {"own", "data", "st"}
    BY <1>1 DEF Flight
  <2> DEFINE t == [f.st EXCEPT ![c] = how]
  <2>3. t \in UNION {[S -> {"sent", "ok", "failed"}] : S \in SUBSET Cols}
    BY <1>3
  <2> HIDE DEF t
  <2>4. [f EXCEPT !.st = t] \in Flight
    BY <1>1, <2>3 DEF Flight
  <2>5. [f EXCEPT !.st = t].own = f.own /\ [f EXCEPT !.st = t].data = f.data /\ [f EXCEPT !.st = t].st = t
    BY <2>2
  <2> QED BY <2>4, <2>5 DEF t
<1>5. DOMAIN g.st = DOMAIN f.st /\ \A d \in DOMAIN f.st : g.st[d] = IF d = c THEN how ELSE f.st[d]
  BY <1>1, <1>4 DEF Flight
<1> HIDE DEF g
<1>6. flights' \in Seq(Flight) /\ DOMAIN flights' = DOMAIN flights
      /\ \A j \in DOMAIN flights : flights'[j] = IF j = i THEN g ELSE flights[j]
  BY <1>1, <1>2, <1>4
<1> QED BY <1>4, <1>5, <1>6

(* Taking a push out of the list keeps the others.                          *)
LEMMA DropEffect ==
  ASSUME TypeInv, NEW i \in DOMAIN flights
  PROVE  /\ Drop(i) \in Seq(Flight)
         /\ \A j \in DOMAIN Drop(i) : \E k \in DOMAIN flights : Drop(i)[j] = flights[k]
         /\ \A k \in DOMAIN flights \ {i} : \E j \in DOMAIN Drop(i) : Drop(i)[j] = flights[k]
         /\ \A j, l \in DOMAIN Drop(i) : j < l =>
              \E k, m \in DOMAIN flights :
                 k < m /\ Drop(i)[j] = flights[k] /\ Drop(i)[l] = flights[m]
<1> DEFINE a == SubSeq(flights, 1, i - 1)
           b == SubSeq(flights, i + 1, Len(flights))
           n == Len(flights)
<1>1. flights \in Seq(Flight) /\ n \in Nat /\ DOMAIN flights = 1..n /\ i \in 1..n
  BY DEF TypeInv
<1>2. a \in Seq(Flight) /\ Len(a) = i - 1 /\ \A j \in 1..(i - 1) : a[j] = flights[j]
  BY <1>1
<1>3. b \in Seq(Flight) /\ Len(b) = n - i /\ \A j \in 1..(n - i) : b[j] = flights[i + j]
  BY <1>1
<1>4. Drop(i) = a \o b
  BY DEF Drop
<1> HIDE DEF a, b, n
<1>5. /\ a \o b \in Seq(Flight) /\ Len(a \o b) = n - 1
      /\ \A j \in 1..(n - 1) : (a \o b)[j] = IF j <= i - 1 THEN a[j] ELSE b[j - (i - 1)]
  <2>1. Len(a) + Len(b) = n - 1
    BY <1>1, <1>2, <1>3
  <2>2. /\ a \o b \in Seq(Flight) /\ Len(a \o b) = Len(a) + Len(b)
        /\ \A j \in 1..(Len(a) + Len(b)) : (a \o b)[j] = IF j <= Len(a) THEN a[j] ELSE b[j - Len(a)]
    BY <1>2, <1>3, ConcatProperties
  <2>3. Len(a) = i - 1
    BY <1>2
  <2> QED BY ONLY <2>1, <2>2, <2>3
<1>6. \A j \in 1..(n - 1) : (a \o b)[j] = IF j <= i - 1 THEN flights[j] ELSE flights[j + 1]
  <2> SUFFICES ASSUME NEW j \in 1..(n - 1)
               PROVE  (a \o b)[j] = IF j <= i - 1 THEN flights[j] ELSE flights[j + 1]
    OBVIOUS
  <2>1. CASE j <= i - 1
    <3>1. j \in 1..(i - 1)
      BY <1>1, <2>1
    <3> QED BY <1>2, <1>5, <2>1, <3>1
  <2>2. CASE ~(j <= i - 1)
    <3>1. j - (i - 1) \in 1..(n - i) /\ i + (j - (i - 1)) = j + 1
      BY <1>1, <2>2
    <3> QED BY <1>3, <1>5, <2>2, <3>1
  <2> QED BY <2>1, <2>2
<1>7. \A k \in (1..n) \ {i} : \E j \in 1..(n - 1) : (a \o b)[j] = flights[k]
  <2> SUFFICES ASSUME NEW k \in (1..n) \ {i} PROVE \E j \in 1..(n - 1) : (a \o b)[j] = flights[k]
    OBVIOUS
  <2>1. CASE k < i
    <3>1. k \in 1..(n - 1) /\ k <= i - 1
      BY <1>1, <2>1
    <3> QED BY <1>6, <3>1
  <2>2. CASE k > i
    <3>1. k - 1 \in 1..(n - 1) /\ ~(k - 1 <= i - 1) /\ (k - 1) + 1 = k
      BY <1>1, <2>2
    <3>2. (a \o b)[k - 1] = flights[(k - 1) + 1]
      BY <1>6, <3>1
    <3>3. (a \o b)[k - 1] = flights[k]
      BY <3>1, <3>2
    <3> QED BY <3>1, <3>3
  <2>3. k < i \/ k > i
    BY <1>1
  <2> QED BY <2>1, <2>2, <2>3
<1>8. \A j \in 1..(n - 1) : \E k \in 1..n : (a \o b)[j] = flights[k]
  <2> SUFFICES ASSUME NEW j \in 1..(n - 1) PROVE \E k \in 1..n : (a \o b)[j] = flights[k]
    OBVIOUS
  <2>1. j \in 1..n /\ j + 1 \in 1..n
    BY <1>1
  <2> QED BY <1>6, <2>1
<1>9. DOMAIN (a \o b) = 1..(n - 1)
  BY <1>1, <1>5
<1>10. \A j, l \in 1..(n - 1) : j < l =>
         \E k, m \in 1..n : k < m /\ (a \o b)[j] = flights[k] /\ (a \o b)[l] = flights[m]
  <2> SUFFICES ASSUME NEW j \in 1..(n - 1), NEW l \in 1..(n - 1), j < l
               PROVE  \E k, m \in 1..n :
                        k < m /\ (a \o b)[j] = flights[k] /\ (a \o b)[l] = flights[m]
    OBVIOUS
  <2>1. PICK k, m : /\ k = IF j <= i - 1 THEN j ELSE j + 1
                    /\ m = IF l <= i - 1 THEN l ELSE l + 1
    OBVIOUS
  <2>2. k \in 1..n /\ m \in 1..n /\ k < m
    BY <1>1, <2>1
  <2>3. (a \o b)[j] = flights[k] /\ (a \o b)[l] = flights[m]
    BY <1>6, <2>1
  <2> QED BY <2>2, <2>3
<1>11. \A j, l \in DOMAIN Drop(i) : j < l =>
         \E k, m \in DOMAIN flights : k < m /\ Drop(i)[j] = flights[k] /\ Drop(i)[l] = flights[m]
  <2>1. DOMAIN Drop(i) = 1..(n - 1) /\ DOMAIN flights = 1..n
    BY <1>1, <1>4, <1>9
  <2> SUFFICES ASSUME NEW j \in 1..(n - 1), NEW l \in 1..(n - 1), j < l
               PROVE  \E k, m \in 1..n :
                        k < m /\ Drop(i)[j] = flights[k] /\ Drop(i)[l] = flights[m]
    BY <2>1
  <2>2. PICK k \in 1..n, m \in 1..n :
          k < m /\ (a \o b)[j] = flights[k] /\ (a \o b)[l] = flights[m]
    BY <1>10
  <2> QED BY <1>4, <2>2
<1>12. /\ Drop(i) \in Seq(Flight)
       /\ \A j \in DOMAIN Drop(i) : \E k \in DOMAIN flights : Drop(i)[j] = flights[k]
       /\ \A k \in DOMAIN flights \ {i} : \E j \in DOMAIN Drop(i) : Drop(i)[j] = flights[k]
  BY <1>1, <1>4, <1>5, <1>7, <1>8, <1>9
<1> QED BY <1>11, <1>12

-----------------------------------------------------------------------------
(* Type correctness *)

LEMMA FlightFacts ==
  ASSUME TypeInv, NEW i \in DOMAIN flights
  PROVE  /\ flights[i] \in Flight /\ flights[i].own \in BOOLEAN
         /\ DOMAIN flights[i].st \subseteq Cols /\ DOMAIN flights[i].st = DOMAIN flights[i].data
         /\ \A c \in DOMAIN flights[i].st : flights[i].data[c] \in Version
<1>1. flights[i] \in Flight /\ DOMAIN flights[i].st = DOMAIN flights[i].data
  BY DEF TypeInv
<1>2. flights[i].data \in UNION {[S -> Version] : S \in SUBSET Cols}
  BY <1>1 DEF Flight
<1>3. PICK S \in SUBSET Cols : flights[i].data \in [S -> Version]
  BY <1>2
<1>4. flights[i].own \in BOOLEAN
  BY <1>1 DEF Flight
<1> QED BY <1>1, <1>3, <1>4

(* What a request that fails, or an answer, leaves of the fetches.          *)
LEMMA FetchFacts ==
  ASSUME NEW f \in Fetch, NEW w \in {"own", "stray"}
  PROVE  /\ f[w] \in Versions \cup {None}
         /\ [f EXCEPT ![w] = None] \in Fetch
         /\ \A v \in Versions : [f EXCEPT !.own = v] \in Fetch
         /\ [own |-> None, stray |-> f.own] \in Fetch
BY DEF Fetch

Pushes ==
  /\ flights \in Seq(Flight)
  /\ \A i \in DOMAIN flights : DOMAIN flights[i].st = DOMAIN flights[i].data

LEMMA FlushTypes ==
  ASSUME TypeInv, Flush
  PROVE  Pushes'
<1> DEFINE f == [own |-> TRUE, data |-> [c \in pending |-> local[c]],
                 st |-> [c \in pending |-> "sent"]]
<1>1. flights \in Seq(Flight) /\ pending \subseteq Cols /\ local \in [Cols -> Version]
  BY VersionsAreNaturals DEF TypeInv
<1>2. [c \in pending |-> local[c]] \in [pending -> Version]
  BY <1>1
<1>3. [c \in pending |-> "sent"] \in [pending -> {"sent", "ok", "failed"}]
  OBVIOUS
<1>4. f \in Flight
  <2> DEFINE d == [c \in pending |-> local[c]]
             t == [c \in pending |-> "sent"]
  <2>1. d \in UNION {[S -> Version] : S \in SUBSET Cols}
    BY <1>1, <1>2
  <2>2. t \in UNION {[S -> {"sent", "ok", "failed"}] : S \in SUBSET Cols}
    BY <1>1, <1>3
  <2> HIDE DEF d, t
  <2>3. [own |-> TRUE, data |-> d, st |-> t] \in Flight
    BY <2>1, <2>2 DEF Flight
  <2> QED BY <2>3 DEF d, t
<1>5. DOMAIN f.st = DOMAIN f.data
  OBVIOUS
<1> HIDE DEF f
<1>6. flights' = flights \/ flights' = Append(flights, f)
  BY DEF Flush, f
<1>7. flights \in Seq(Flight) /\ \A i \in DOMAIN flights : DOMAIN flights[i].st = DOMAIN flights[i].data
  BY DEF TypeInv
<1>8. CASE flights' = flights
  BY <1>7, <1>8 DEF Pushes
<1>9. CASE flights' = Append(flights, f)
  <2>1. Append(flights, f) \in Seq(Flight)
    BY <1>4, <1>7
  <2>2. \A i \in DOMAIN Append(flights, f) : Append(flights, f)[i] = f \/ (i \in DOMAIN flights /\ Append(flights, f)[i] = flights[i])
    BY <1>4, <1>7
  <2> QED BY <1>5, <1>7, <1>9, <2>1, <2>2 DEF Pushes
<1> QED BY <1>6, <1>8, <1>9

LEMMA SettleTypes ==
  ASSUME TypeInv, NEW i, NEW c, NEW how \in {"ok", "failed"}, Sent(i, c), Settle(i, c, how)
  PROVE  Pushes'
BY SettleEffect DEF Pushes, TypeInv

LEMMA DropTypes ==
  ASSUME TypeInv, NEW i \in DOMAIN flights, flights' = Drop(i)
  PROVE  Pushes'
<1>1. \A j \in DOMAIN flights' : DOMAIN flights'[j].st = DOMAIN flights'[j].data
  <2> SUFFICES ASSUME NEW j \in DOMAIN flights' PROVE DOMAIN flights'[j].st = DOMAIN flights'[j].data
    OBVIOUS
  <2>1. PICK k \in DOMAIN flights : flights'[j] = flights[k]
    BY DropEffect
  <2> QED BY <2>1 DEF TypeInv
<1> QED BY <1>1, DropEffect DEF Pushes

LEMMA HandleTypes ==
  ASSUME TypeInv, NEW i, NEW c, Sent(i, c), Handle(i, c)
  PROVE  server' \in Versions /\ flights[i].data[c] \in Version /\ c \in Cols
<1>1. i \in DOMAIN flights /\ c \in DOMAIN flights[i].st
  BY DEF Sent
<1>2. flights[i].data[c] \in Version /\ c \in Cols
  BY <1>1, FlightFacts
<1>3. server' = [server EXCEPT ![c] = flights[i].data[c]]
  BY DEF Handle
<1> QED BY <1>2, <1>3, VersionsAreNaturals DEF TypeInv

LEMMA SyncTypeStep == ASSUME TypeInv, [Next]_vars PROVE TypeInv'
<1> DEFINE Rest == /\ local \in Versions /\ server \in Versions /\ heard \in Versions
                   /\ acked \in Versions /\ edits \in 1..(MaxEdits + 1)
                   /\ mounts \in Nat /\ losses \in Nat
                   /\ phase \in {"config", "migrate", "pull", "pulling", "ready", "gone"}
                   /\ pending \subseteq Cols /\ posts \in Fetch /\ pulls \in Fetch
<1>0. Rest /\ Pushes
  BY DEF TypeInv, Pushes
<1>a. (Rest /\ Pushes)' => TypeInv'
  BY DEF TypeInv, Pushes
<1>1. ASSUME NEW c \in Cols, Edit(c) PROVE (Rest /\ Pushes)'
  <2>1. edits + 1 \in Version /\ edits + 1 \in 1..(MaxEdits + 1)
    BY <1>0, <1>1, SyncBounds DEF Edit, Version
  <2>2. local' \in Versions /\ heard' \in Versions
    BY <1>0, <1>1, <2>1, VersionsAreNaturals DEF Edit
  <2> QED BY <1>0, <1>1, <2>1, <2>2 DEF Edit, Pushes
<1>2. ASSUME DebounceFires \/ RetryFires PROVE (Rest /\ Pushes)'
  BY <1>0, <1>2, FlushTypes DEF DebounceFires, RetryFires, Flush, ghosts
<1>3. ASSUME NEW i \in 1..MaxFlights, NEW c \in Cols, PutAnswered(i, c) PROVE (Rest /\ Pushes)'
  <2>1. server' \in Versions /\ flights[i].data[c] \in Version /\ Pushes'
    BY <1>3, HandleTypes, SettleTypes DEF PutAnswered
  <2>2. acked' \in Versions
    BY <1>0, <1>3, <2>1, VersionsAreNaturals DEF PutAnswered
  <2> QED BY <1>0, <1>3, <2>1, <2>2 DEF PutAnswered, hook
<1>4. ASSUME NEW i \in 1..MaxFlights, NEW c \in Cols, PutAnswerLost(i, c) PROVE (Rest /\ Pushes)'
  <2>1. server' \in Versions /\ Pushes'
    BY <1>4, HandleTypes, SettleTypes DEF PutAnswerLost
  <2> QED BY <1>0, <1>4, <2>1 DEF PutAnswerLost, Lose, hook
<1>5. ASSUME NEW i \in 1..MaxFlights, NEW c \in Cols, PutLost(i, c) PROVE (Rest /\ Pushes)'
  <2>1. Pushes'
    BY <1>5, SettleTypes DEF PutLost
  <2> QED BY <1>0, <1>5, <2>1 DEF PutLost, Lose, hook, ghosts
<1>6. ASSUME NEW i \in 1..MaxFlights, FlushDone(i) PROVE (Rest /\ Pushes)'
  <2>1. Pushes' /\ FailedCols(i) \subseteq Cols
    BY <1>6, DropTypes, FlightFacts DEF FlushDone, Landed, FailedCols
  <2> QED BY <1>0, <1>6, <2>1 DEF FlushDone
<1>7. ASSUME NEW i \in 1..MaxFlights, FlushDoneLate(i) PROVE (Rest /\ Pushes)'
  <2>1. Pushes'
    BY <1>7, DropTypes DEF FlushDoneLate, Landed
  <2> QED BY <1>0, <1>7, <2>1 DEF FlushDoneLate, hook
<1>8. ASSUME ConfigAnswered PROVE (Rest /\ Pushes)'
  <2>1. local \in Versions /\ posts \in Fetch
    BY <1>0
  <2>2. posts' \in Fetch
    <3>1. [posts EXCEPT !.own = local] \in Fetch
      BY <2>1, FetchFacts
    <3> QED BY <1>8, <2>1, <3>1 DEF ConfigAnswered
  <2>3. phase' \in {"pull", "migrate"}
    BY <1>8 DEF ConfigAnswered
  <2> QED BY <1>0, <1>8, <2>2, <2>3 DEF ConfigAnswered, Pushes
<1>9. ASSUME ConfigLost PROVE (Rest /\ Pushes)'
  BY <1>0, <1>9 DEF ConfigLost, Lose, Pushes, ghosts
<1>10. ASSUME NEW w \in {"own", "stray"}, Migrated(w) PROVE (Rest /\ Pushes)'
  <2>1. posts[w] \in Versions /\ posts' \in Fetch
    BY <1>0, <1>10, FetchFacts DEF Migrated, Posted
  <2>2. server' = [c \in Cols |-> IF posts[w][c] = 0 THEN server[c] ELSE posts[w][c]]
    BY <1>10 DEF Migrated
  <2>3. server' \in Versions
    BY <1>0, <2>1, <2>2, VersionsAreNaturals
  <2> QED BY <1>0, <1>10, <2>1, <2>3 DEF Migrated, AfterPost, Pushes
<1>11. ASSUME NEW w \in {"own", "stray"}, MigrationLost(w) PROVE (Rest /\ Pushes)'
  <2>1. posts' \in Fetch
    BY <1>0, <1>11, FetchFacts DEF MigrationLost, Posted
  <2> QED BY <1>0, <1>11, <2>1 DEF MigrationLost, AfterPost, Lose, Pushes, ghosts
<1>12. ASSUME PullAsked PROVE (Rest /\ Pushes)'
  BY <1>0, <1>12, FetchFacts DEF PullAsked, Pushes, ghosts
<1>13. ASSUME NEW w \in {"own", "stray"}, PullAnswered(w) PROVE (Rest /\ Pushes)'
  <2>1. pulls[w] \in Versions /\ pulls' \in Fetch
    BY <1>0, <1>13, FetchFacts DEF PullAnswered, Pulled
  <2>2. /\ local' = [c \in Cols |-> IF pulls[w][c] = 0 THEN local[c] ELSE pulls[w][c]]
        /\ heard' = [c \in Cols |-> IF pulls[w][c] = 0 THEN heard[c] ELSE 0]
    BY <1>13 DEF PullAnswered
  <2>3. 0 \in Version
    BY SyncBounds DEF Version
  <2>4. local' \in Versions /\ heard' \in Versions
    BY <1>0, <2>1, <2>2, <2>3, VersionsAreNaturals
  <2> QED BY <1>0, <1>13, <2>1, <2>4 DEF PullAnswered, AfterPull, Pushes
<1>14. ASSUME NEW w \in {"own", "stray"}, PullLost(w) PROVE (Rest /\ Pushes)'
  <2>1. pulls' \in Fetch
    BY <1>0, <1>14, FetchFacts DEF PullLost, Pulled
  <2> QED BY <1>0, <1>14, <2>1 DEF PullLost, AfterPull, Lose, Pushes, ghosts
<1>15. ASSUME Unmount PROVE (Rest /\ Pushes)'
  <2> DEFINE Adrift(f) == [f EXCEPT !.own = FALSE]
  <2>1. flights' = [i \in DOMAIN flights |-> Adrift(flights[i])]
    BY <1>15 DEF Unmount
  <2>2. ASSUME NEW i \in DOMAIN flights
        PROVE  /\ Adrift(flights[i]) \in Flight
               /\ Adrift(flights[i]).st = flights[i].st /\ Adrift(flights[i]).data = flights[i].data
    <3>1. flights[i] \in Flight
      BY FlightFacts
    <3> QED BY <3>1 DEF Flight
  <2> HIDE DEF Adrift
  <2>3. Pushes'
    BY <1>0, <2>1, <2>2 DEF Pushes
  <2>4. 0 \in Version
    BY SyncBounds DEF Version
  <2>5. Absent \in Versions
    BY <2>4, VersionsAreNaturals DEF Absent
  <2> QED BY <1>0, <1>15, <2>3, <2>5, FetchFacts DEF Unmount
<1>16. ASSUME Mount PROVE (Rest /\ Pushes)'
  BY <1>0, <1>16 DEF Mount, Pushes, ghosts
<1>17. ASSUME UNCHANGED vars PROVE (Rest /\ Pushes)'
  BY <1>0, <1>17 DEF vars, hook, ghosts, Pushes
<1> QED BY <1>a, <1>1, <1>2, <1>3, <1>4, <1>5, <1>6, <1>7, <1>8, <1>9, <1>10, <1>11, <1>12,
       <1>13, <1>14, <1>15, <1>16, <1>17 DEF Next

LEMMA SyncTypeInit == Init => TypeInv
<1> SUFFICES ASSUME Init PROVE TypeInv
  OBVIOUS
<1>1. 0 \in Version /\ 1 \in Version /\ 1 \in 1..(MaxEdits + 1)
  BY SyncBounds DEF Version
<1>2. Absent \in Versions
  BY <1>1, VersionsAreNaturals DEF Absent
<1>3. server \in Versions
  BY <1>1, VersionsAreNaturals DEF Init
<1>4. flights \in Seq(Flight) /\ DOMAIN flights = {}
  BY DEF Init
<1>5. NoFetch \in Fetch
  BY DEF NoFetch, Fetch
<1> QED BY <1>1, <1>2, <1>3, <1>4, <1>5 DEF Init, TypeInv

-----------------------------------------------------------------------------
(* The teardown *)

(* A hook that is not mounted has no listener, queue or timer, and no push  *)
(* of its own that could fill them again.                                   *)
TornDown == ~Mounted =>
  /\ pending = {} /\ ~listening /\ ~debounce /\ ~retry
  /\ \A i \in DOMAIN flights : ~flights[i].own

LEMMA TornDownStep == ASSUME TypeInv, TornDown, [Next]_vars PROVE TornDown'
<1> USE DEF TornDown, Mounted
<1>1. ASSUME NEW c \in Cols, Edit(c) PROVE TornDown'
  BY <1>1 DEF Edit
<1>2. ASSUME DebounceFires \/ RetryFires PROVE TornDown'
  BY <1>2 DEF DebounceFires, RetryFires, Flush, ghosts
<1>3. ASSUME NEW i \in 1..MaxFlights, NEW c \in Cols,
             PutAnswered(i, c) \/ PutAnswerLost(i, c) \/ PutLost(i, c)
      PROVE  TornDown'
  <2>1. PICK how \in {"ok", "failed"} : Sent(i, c) /\ Settle(i, c, how) /\ UNCHANGED hook
    BY <1>3 DEF PutAnswered, PutAnswerLost, PutLost
  <2>2. \A j \in DOMAIN flights' : j \in DOMAIN flights /\ flights'[j].own = flights[j].own
    BY <2>1, SettleEffect
  <2> QED BY <2>1, <2>2 DEF hook
<1>4. ASSUME NEW i \in 1..MaxFlights, FlushDone(i) PROVE TornDown'
  BY <1>4 DEF FlushDone, Landed
<1>5. ASSUME NEW i \in 1..MaxFlights, FlushDoneLate(i) PROVE TornDown'
  <2>1. \A j \in DOMAIN flights' : \E k \in DOMAIN flights : flights'[j] = flights[k]
    BY <1>5, DropEffect DEF FlushDoneLate, Landed
  <2> QED BY <1>5, <2>1 DEF FlushDoneLate, hook
<1>6. ASSUME Unmount PROVE TornDown'
  <2> SUFFICES ASSUME NEW i \in DOMAIN flights' PROVE ~flights'[i].own
    BY <1>6 DEF Unmount
  <2>1. flights'[i] = [flights[i] EXCEPT !.own = FALSE] /\ flights[i] \in Flight
    BY <1>6, FlightFacts DEF Unmount
  <2>2. DOMAIN flights[i] = {"own", "data", "st"}
    BY <2>1 DEF Flight
  <2>3. flights'[i].own = FALSE
    BY <2>1, <2>2
  <2> QED BY <2>3
<1>7. ASSUME ConfigAnswered \/ ConfigLost \/ PullAsked \/ Mount PROVE TornDown'
  BY <1>7 DEF ConfigAnswered, ConfigLost, PullAsked, Mount, ghosts
<1>8. ASSUME NEW w \in {"own", "stray"},
             Migrated(w) \/ MigrationLost(w) \/ PullAnswered(w) \/ PullLost(w)
      PROVE  TornDown'
  <2>1. phase' = "gone" => phase = "gone"
    BY <1>8 DEF Migrated, MigrationLost, PullAnswered, PullLost, AfterPost, AfterPull
  <2>2. UNCHANGED <<pending, listening, debounce, retry, flights>>
    BY <1>8 DEF Migrated, MigrationLost, PullAnswered, PullLost, ghosts
  <2> QED BY <2>1, <2>2
<1>9. ASSUME UNCHANGED vars PROVE TornDown'
  BY <1>9 DEF vars, hook
<1> QED BY <1>1, <1>2, <1>3, <1>4, <1>5, <1>6, <1>7, <1>8, <1>9 DEF Next

(* The teardown of the hook leaves nothing behind that nothing could clear. *)
THEOREM SyncTypeCorrect == Spec => []SyncTypeOK
<1>1. Init => TypeInv /\ TornDown
  BY SyncTypeInit DEF Init, TornDown, Mounted
<1>2. TypeInv /\ TornDown => SyncTypeOK
  <2> SUFFICES ASSUME TypeInv, TornDown PROVE SyncTypeOK
    OBVIOUS
  <2>1. \A i \in DOMAIN flights : DOMAIN flights[i].st \subseteq Cols
    BY FlightFacts
  <2> QED BY <2>1 DEF TypeInv, TornDown, SyncTypeOK
<1> QED BY <1>1, <1>2, SyncTypeStep, TornDownStep, PTL DEF Spec

-----------------------------------------------------------------------------
(* The queue *)

(* Whatever is queued has a timer that will take it.                        *)
QueueHasTimer == pending # {} => debounce \/ retry

LEMMA QueueStep == ASSUME TypeInv, QueueHasTimer, [Next]_vars PROVE QueueHasTimer'
<1> USE DEF QueueHasTimer
<1>1. ASSUME NEW c \in Cols, Edit(c) PROVE QueueHasTimer'
  BY <1>1 DEF Edit
<1>2. ASSUME DebounceFires \/ RetryFires \/ Unmount PROVE QueueHasTimer'
  BY <1>2 DEF DebounceFires, RetryFires, Flush, Unmount
<1>3. ASSUME NEW i \in 1..MaxFlights, FlushDone(i) PROVE QueueHasTimer'
  BY <1>3 DEF FlushDone
<1>4. ASSUME UNCHANGED <<pending, debounce, retry>> PROVE QueueHasTimer'
  BY <1>4
<1> QED BY <1>1, <1>2, <1>3, <1>4 DEF Next, PutAnswered, PutAnswerLost, PutLost, FlushDoneLate,
       ConfigAnswered, ConfigLost, Migrated, MigrationLost, PullAsked, PullAnswered, PullLost,
       Mount, vars, hook

-----------------------------------------------------------------------------
(* Edits on their way *)

(* Push i still has to bring c to the server, as new as the hook heard it.  *)
Carries(i, c) ==
  /\ flights[i].own /\ c \in DOMAIN flights[i].st
  /\ flights[i].st[c] # "ok" /\ heard[c] <= flights[i].data[c]

(* While no push carrying what was heard, or newer, is answered, one that   *)
(* does is queued or under way.                                             *)
Carried ==
  /\ \A c \in Cols : heard[c] <= local[c] /\ heard[c] <= edits
  /\ \A c \in Cols : heard[c] > acked[c] /\ c \notin pending =>
       \E i \in DOMAIN flights : Carries(i, c)

LEMMA VersionFacts ==
  ASSUME TypeInv, NEW c \in Cols
  PROVE  local[c] \in Nat /\ heard[c] \in Nat /\ acked[c] \in Nat /\ edits \in Nat
<1>1. /\ local \in [Cols -> Version] /\ heard \in [Cols -> Version] /\ acked \in [Cols -> Version]
      /\ Version \subseteq Nat
  BY VersionsAreNaturals DEF TypeInv
<1>2. edits \in Nat
  BY DEF TypeInv
<1> QED BY <1>1, <1>2

LEMMA EditCarried == ASSUME TypeInv, Carried, NEW c \in Cols, Edit(c) PROVE Carried'
<1>1. /\ local' = [local EXCEPT ![c] = edits + 1] /\ edits' = edits + 1
      /\ acked' = acked /\ flights' = flights
  BY DEF Edit
<1>2. ASSUME NEW d \in Cols PROVE heard'[d] <= local'[d] /\ heard'[d] <= edits'
  BY <1>1, VersionFacts, VersionsAreNaturals DEF Carried, Edit, TypeInv
<1>3. ASSUME NEW d \in Cols, heard'[d] > acked'[d], d \notin pending'
      PROVE  \E i \in DOMAIN flights' : Carries(i, d)'
  <2>1. heard'[d] = heard[d] /\ d \notin pending
    BY <1>3, VersionsAreNaturals DEF Edit, TypeInv
  <2> QED BY <1>1, <1>3, <2>1 DEF Carried, Carries
<1> QED BY <1>2, <1>3 DEF Carried

LEMMA FlushCarried == ASSUME TypeInv, Carried, Flush, UNCHANGED heard PROVE Carried'
<1> DEFINE f == [own |-> TRUE, data |-> [c \in pending |-> local[c]],
                 st |-> [c \in pending |-> "sent"]]
<1>1. /\ flights' = IF pending = {} THEN flights ELSE Append(flights, f)
      /\ UNCHANGED <<local, edits, acked, heard>>
  BY DEF Flush, ghosts
<1>2. f.own = TRUE /\ DOMAIN f.st = pending /\ \A c \in pending : f.st[c] = "sent" /\ f.data[c] = local[c]
  OBVIOUS
<1> HIDE DEF f
<1>3. ASSUME NEW c \in Cols, heard[c] > acked[c], c \in pending
      PROVE  \E i \in DOMAIN flights' : Carries(i, c)'
  <2>1. flights' = Append(flights, f) /\ flights \in Seq(Flight)
    BY <1>1, <1>3 DEF TypeInv
  <2>2. PICK n : n = Len(flights) + 1
    OBVIOUS
  <2>3. n \in DOMAIN flights' /\ flights'[n] = f
    BY <2>1, <2>2
  <2>4. heard[c] <= local[c]
    BY DEF Carried
  <2>5. Carries(n, c)'
    BY <1>1, <1>2, <1>3, <2>3, <2>4 DEF Carries
  <2> QED BY <2>3, <2>5
<1>4. ASSUME NEW c \in Cols, heard[c] > acked[c], c \notin pending
      PROVE  \E i \in DOMAIN flights' : Carries(i, c)'
  <2>1. PICK i \in DOMAIN flights : Carries(i, c)
    BY <1>4 DEF Carried
  <2>2. i \in DOMAIN flights' /\ flights'[i] = flights[i]
    BY <1>1 DEF TypeInv
  <2> QED BY <1>1, <2>1, <2>2 DEF Carries
<1> QED BY <1>1, <1>3, <1>4 DEF Carried

LEMMA SettleCarried ==
  ASSUME TypeInv, Carried, NEW i, NEW c, NEW how \in {"ok", "failed"}, Sent(i, c), Settle(i, c, how),
         UNCHANGED <<hook, local, edits, heard>>,
         acked' = IF how = "ok" /\ flights[i].data[c] > acked[c]
                  THEN [acked EXCEPT ![c] = flights[i].data[c]] ELSE acked
  PROVE  Carried'
<1>1. i \in DOMAIN flights /\ flights[i].data[c] \in Nat /\ c \in Cols
  BY FlightFacts, VersionsAreNaturals DEF Sent
<1>2. ASSUME NEW d \in Cols, heard[d] > acked'[d], d \notin pending
      PROVE  \E j \in DOMAIN flights' : Carries(j, d)'
  <2>1. heard[d] > acked[d]
    BY <1>1, <1>2, VersionFacts, VersionsAreNaturals DEF TypeInv
  <2>2. PICK j \in DOMAIN flights : Carries(j, d)
    BY <1>2, <2>1 DEF Carried
  <2>3. ~(j = i /\ d = c /\ how = "ok")
    <3> SUFFICES ASSUME j = i, d = c, how = "ok" PROVE FALSE
      OBVIOUS
    <3>1. heard[c] <= flights[i].data[c]
      BY <2>2 DEF Carries
    <3>2. acked'[c] >= flights[i].data[c]
      BY <1>1, VersionFacts, VersionsAreNaturals DEF TypeInv
    <3>3. acked'[c] \in Nat
      BY <1>1, VersionFacts, VersionsAreNaturals DEF TypeInv
    <3> QED BY <1>1, <1>2, <3>1, <3>2, <3>3, VersionFacts
  <2>4. /\ j \in DOMAIN flights' /\ flights'[j].own = flights[j].own
        /\ flights'[j].data = flights[j].data /\ DOMAIN flights'[j].st = DOMAIN flights[j].st
        /\ flights'[j].st[d] = IF j = i /\ d = c THEN how ELSE flights[j].st[d]
    <3>1. d \in DOMAIN flights[j].st
      BY <2>2 DEF Carries
    <3> QED BY <3>1, SettleEffect
  <2> QED BY <2>2, <2>3, <2>4 DEF Carries
<1> QED BY <1>2 DEF Carried, hook

LEMMA DropCarried ==
  ASSUME TypeInv, Carried, NEW i \in DOMAIN flights, Landed(i), flights' = Drop(i),
         UNCHANGED <<local, edits, heard, acked>>,
         pending' = IF flights[i].own THEN pending \cup FailedCols(i) ELSE pending
  PROVE  Carried'
<1>1. ASSUME NEW d \in Cols, heard[d] > acked[d], d \notin pending'
      PROVE  \E j \in DOMAIN flights' : Carries(j, d)'
  <2>1. PICK k \in DOMAIN flights : Carries(k, d)
    BY <1>1 DEF Carried
  <2>2. k # i
    <3> SUFFICES ASSUME k = i PROVE FALSE
      OBVIOUS
    <3>1. flights[i].own /\ d \in DOMAIN flights[i].st /\ flights[i].st[d] # "ok"
      BY <2>1 DEF Carries
    <3>2. flights[i].st[d] # "sent"
      BY <3>1 DEF Landed
    <3>3. flights[i].st \in UNION {[S -> {"sent", "ok", "failed"}] : S \in SUBSET Cols}
      BY FlightFacts DEF Flight
    <3>4. flights[i].st[d] \in {"sent", "ok", "failed"}
      BY <3>1, <3>3
    <3> QED BY <1>1, <3>1, <3>2, <3>4 DEF FailedCols
  <2>3. PICK j \in DOMAIN Drop(i) : Drop(i)[j] = flights[k]
    BY <2>2, DropEffect
  <2> QED BY <2>1, <2>3 DEF Carries
<1> QED BY <1>1 DEF Carried

LEMMA CarriedStep == ASSUME TypeInv, Carried, [Next]_vars PROVE Carried'
<1>1. ASSUME NEW c \in Cols, Edit(c) PROVE Carried'
  BY <1>1, EditCarried
<1>2. ASSUME DebounceFires \/ RetryFires PROVE Carried'
  BY <1>2, FlushCarried DEF DebounceFires, RetryFires, Flush, ghosts
<1>3. ASSUME NEW i \in 1..MaxFlights, NEW c \in Cols, PutAnswered(i, c) PROVE Carried'
  <2>1. /\ Sent(i, c) /\ Settle(i, c, "ok") /\ UNCHANGED <<hook, local, edits, heard>>
        /\ acked' = IF flights[i].data[c] > acked[c]
                    THEN [acked EXCEPT ![c] = flights[i].data[c]] ELSE acked
    BY <1>3 DEF PutAnswered
  <2> QED BY <2>1, SettleCarried
<1>4. ASSUME NEW i \in 1..MaxFlights, NEW c \in Cols, PutAnswerLost(i, c) \/ PutLost(i, c)
      PROVE  Carried'
  <2>1. /\ Sent(i, c) /\ Settle(i, c, "failed") /\ UNCHANGED <<hook, local, edits, heard, acked>>
    BY <1>4 DEF PutAnswerLost, PutLost, ghosts
  <2> QED BY <2>1, SettleCarried
<1>5. ASSUME NEW i \in 1..MaxFlights, FlushDone(i) \/ FlushDoneLate(i) PROVE Carried'
  <2>1. /\ i \in DOMAIN flights /\ Landed(i) /\ flights' = Drop(i)
        /\ UNCHANGED <<local, edits, heard, acked>>
        /\ pending' = IF flights[i].own THEN pending \cup FailedCols(i) ELSE pending
    BY <1>5 DEF FlushDone, FlushDoneLate, Landed, hook
  <2> QED BY <2>1, DropCarried
<1>6. ASSUME Unmount PROVE Carried'
  <2>1. \A c \in Cols : heard'[c] = 0
    BY <1>6 DEF Unmount, Absent
  <2>2. UNCHANGED <<local, edits, acked>>
    BY <1>6 DEF Unmount
  <2> QED BY <2>1, <2>2, VersionFacts DEF Carried
<1>7. ASSUME NEW w \in {"own", "stray"}, PullAnswered(w) PROVE Carried'
  <2>1. /\ UNCHANGED <<pending, flights, edits, acked>>
        /\ local' = [c \in Cols |-> IF pulls[w][c] = 0 THEN local[c] ELSE pulls[w][c]]
        /\ heard' = [c \in Cols |-> IF pulls[w][c] = 0 THEN heard[c] ELSE 0]
    BY <1>7 DEF PullAnswered
  <2>2. pulls[w] \in Versions
    BY <1>7, FetchFacts DEF PullAnswered, Pulled, TypeInv
  <2>3. ASSUME NEW c \in Cols
        PROVE  /\ heard'[c] <= local'[c] /\ heard'[c] <= edits
               /\ heard'[c] > acked[c] => heard'[c] = heard[c]
    <3>1. pulls[w][c] \in Nat
      BY <2>2, VersionsAreNaturals
    <3> QED BY <2>1, <3>1, VersionFacts DEF Carried
  <2> QED BY <2>1, <2>3 DEF Carried, Carries
<1>8. ASSUME UNCHANGED <<local, edits, heard, acked, pending, flights>> PROVE Carried'
  BY <1>8 DEF Carried, Carries
<1> QED BY <1>1, <1>2, <1>3, <1>4, <1>5, <1>6, <1>7, <1>8 DEF Next, ConfigAnswered, ConfigLost,
       Migrated, MigrationLost, PullAsked, PullLost, Mount, vars, hook, ghosts

-----------------------------------------------------------------------------
(* Versions *)

(* Nothing anywhere is newer than the last edit.                            *)
Bounded ==
  /\ \A c \in Cols : local[c] <= edits /\ server[c] <= edits
  /\ \A w \in {"own", "stray"}, c \in Cols :
       /\ posts[w] # None => posts[w][c] <= edits
       /\ pulls[w] # None => pulls[w][c] <= edits
  /\ \A i \in DOMAIN flights : \A c \in DOMAIN flights[i].st : flights[i].data[c] <= edits

LEMMA FetchMoves ==
  ASSUME NEW f \in Fetch, NEW w \in {"own", "stray"}, NEW x \in {"own", "stray"}
  PROVE  /\ [f EXCEPT ![w] = None][x] \in {f[x], None}
         /\ \A v : [f EXCEPT !.own = v][x] = IF x = "own" THEN v ELSE f[x]
         /\ [own |-> None, stray |-> f.own][x] \in {f.own, None}
         /\ [own |-> None, stray |-> f.own][x] # None => f.own # None
BY DEF Fetch

LEMMA BoundedStep == ASSUME TypeInv, Bounded, [Next]_vars PROVE Bounded'
<1>0. \A c \in Cols : local[c] \in Nat /\ server[c] \in Nat /\ edits \in Nat
  BY VersionsAreNaturals, VersionFacts DEF TypeInv
<1>1. ASSUME NEW c \in Cols, Edit(c) PROVE Bounded'
  <2>1. /\ local' = [local EXCEPT ![c] = edits + 1] /\ edits' = edits + 1 /\ edits \in Nat
        /\ UNCHANGED <<server, posts, pulls, flights>>
    BY <1>1 DEF Edit, TypeInv
  <2>2. \A d \in Cols : local'[d] <= edits' /\ server'[d] <= edits'
    BY <1>0, <2>1 DEF Bounded, TypeInv, Versions
  <2>3. ASSUME NEW w \in {"own", "stray"}, NEW d \in Cols
        PROVE  /\ posts[w] # None => posts[w][d] <= edits'
               /\ pulls[w] # None => pulls[w][d] <= edits'
    <3>1. posts[w] \in Versions \cup {None} /\ pulls[w] \in Versions \cup {None}
      BY FetchFacts DEF TypeInv
    <3>2. posts[w] # None => posts[w][d] \in Nat
      BY <3>1, VersionsAreNaturals
    <3>3. pulls[w] # None => pulls[w][d] \in Nat
      BY <3>1, VersionsAreNaturals
    <3>4. /\ posts[w] # None => posts[w][d] <= edits
          /\ pulls[w] # None => pulls[w][d] <= edits
      BY DEF Bounded
    <3> QED BY <2>1, <3>2, <3>3, <3>4
  <2>4. ASSUME NEW i \in DOMAIN flights, NEW d \in DOMAIN flights[i].st
        PROVE  flights[i].data[d] <= edits'
    <3>1. flights[i].data[d] \in Nat
      BY FlightFacts, VersionsAreNaturals
    <3> QED BY <2>1, <3>1 DEF Bounded
  <2> QED BY <2>1, <2>2, <2>3, <2>4 DEF Bounded
<1>2. ASSUME DebounceFires \/ RetryFires PROVE Bounded'
  <2>1. Flush /\ UNCHANGED <<local, server, edits, posts, pulls>>
    BY <1>2 DEF DebounceFires, RetryFires, Flush, ghosts
  <2> DEFINE f == [own |-> TRUE, data |-> [c \in pending |-> local[c]],
                   st |-> [c \in pending |-> "sent"]]
  <2>2. flights' = flights \/ flights' = Append(flights, f)
    BY <2>1 DEF Flush
  <2>3. \A c \in DOMAIN f.st : c \in Cols /\ f.data[c] = local[c]
    BY DEF TypeInv
  <2> HIDE DEF f
  <2>4. \A j \in DOMAIN flights' : (j \in DOMAIN flights /\ flights'[j] = flights[j]) \/ flights'[j] = f
    BY <2>2 DEF TypeInv
  <2>5. \A c \in DOMAIN f.st : f.data[c] <= edits
    BY <2>3 DEF Bounded
  <2>6. ASSUME NEW j \in DOMAIN flights', NEW c \in DOMAIN flights'[j].st
        PROVE  flights'[j].data[c] <= edits
    <3>1. CASE flights'[j] = f
      BY <3>1, <2>5
    <3>2. CASE j \in DOMAIN flights /\ flights'[j] = flights[j]
      BY <3>2 DEF Bounded
    <3> QED BY <2>4, <3>1, <3>2
  <2> QED BY <2>1, <2>6 DEF Bounded
<1>3. ASSUME NEW i \in 1..MaxFlights, NEW c \in Cols,
             PutAnswered(i, c) \/ PutAnswerLost(i, c) \/ PutLost(i, c)
      PROVE  Bounded'
  <2>1. PICK how \in {"ok", "failed"} : Sent(i, c) /\ Settle(i, c, how)
    BY <1>3 DEF PutAnswered, PutAnswerLost, PutLost
  <2>2. /\ UNCHANGED <<local, edits, posts, pulls>>
        /\ server' = server \/ server' = [server EXCEPT ![c] = flights[i].data[c]]
    BY <1>3 DEF PutAnswered, PutAnswerLost, PutLost, Handle, ghosts
  <2>3. flights[i].data[c] <= edits
    BY <2>1 DEF Sent, Bounded
  <2>4. \A d \in Cols : server'[d] <= edits
    BY <2>2, <2>3 DEF Bounded, TypeInv, Versions
  <2>5. \A j \in DOMAIN flights' :
          /\ j \in DOMAIN flights /\ flights'[j].data = flights[j].data
          /\ DOMAIN flights'[j].st = DOMAIN flights[j].st
    BY <2>1, SettleEffect
  <2> QED BY <2>2, <2>4, <2>5 DEF Bounded
<1>4. ASSUME NEW i \in 1..MaxFlights, FlushDone(i) \/ FlushDoneLate(i) PROVE Bounded'
  <2>1. /\ i \in DOMAIN flights /\ flights' = Drop(i)
        /\ UNCHANGED <<local, server, edits, posts, pulls>>
    BY <1>4 DEF FlushDone, FlushDoneLate, Landed
  <2>2. \A j \in DOMAIN flights' : \E k \in DOMAIN flights : flights'[j] = flights[k]
    BY <2>1, DropEffect
  <2> QED BY <2>1, <2>2 DEF Bounded
<1>5. ASSUME Unmount PROVE Bounded'
  <2>1. /\ flights' = [i \in DOMAIN flights |-> [flights[i] EXCEPT !.own = FALSE]]
        /\ UNCHANGED <<local, server, edits>>
    BY <1>5 DEF Unmount
  <2>2. ASSUME NEW j \in DOMAIN flights'
        PROVE  /\ j \in DOMAIN flights /\ flights'[j].data = flights[j].data
               /\ flights'[j].st = flights[j].st
    <3>1. flights'[j] = [flights[j] EXCEPT !.own = FALSE] /\ j \in DOMAIN flights
      BY <2>1
    <3>2. DOMAIN flights[j] = {"own", "data", "st"}
      BY <3>1, FlightFacts DEF Flight
    <3> QED BY <3>1, <3>2
  <2>3. ASSUME NEW w \in {"own", "stray"}, NEW c \in Cols
        PROVE  /\ posts'[w] # None => posts'[w][c] <= edits
               /\ pulls'[w] # None => pulls'[w][c] <= edits
    <3>1. posts'[w] \in {posts[w], posts["own"], None} /\ pulls'[w] \in {pulls[w], pulls["own"], None}
      BY <1>5, FetchMoves DEF Unmount, TypeInv
    <3> QED BY <3>1 DEF Bounded
  <2> QED BY <2>1, <2>2, <2>3 DEF Bounded
<1>6. ASSUME ConfigAnswered PROVE Bounded'
  <2>1. /\ posts' = posts \/ posts' = [posts EXCEPT !.own = local]
        /\ UNCHANGED <<local, server, edits, pulls, flights>>
    BY <1>6 DEF ConfigAnswered
  <2>2. \A w \in {"own", "stray"} : posts'[w] = posts[w] \/ posts'[w] = local
    <3>1. DOMAIN posts = {"own", "stray"}
      BY DEF TypeInv, Fetch
    <3> QED BY <2>1, <3>1
  <2> QED BY <2>1, <2>2 DEF Bounded
<1>7. ASSUME PullAsked PROVE Bounded'
  <2>1. pulls' = [pulls EXCEPT !.own = server] /\ UNCHANGED <<local, server, edits, posts, flights>>
    BY <1>7 DEF PullAsked, ghosts
  <2>2. \A w \in {"own", "stray"} : pulls'[w] = pulls[w] \/ pulls'[w] = server
    <3>1. DOMAIN pulls = {"own", "stray"}
      BY DEF TypeInv, Fetch
    <3> QED BY <2>1, <3>1
  <2> QED BY <2>1, <2>2 DEF Bounded
<1>8. ASSUME NEW w \in {"own", "stray"}, Migrated(w) \/ MigrationLost(w) PROVE Bounded'
  <2>1. /\ posts[w] # None /\ posts' = [posts EXCEPT ![w] = None]
        /\ UNCHANGED <<local, edits, pulls, flights>>
        /\ \/ server' = server
           \/ server' = [c \in Cols |-> IF posts[w][c] = 0 THEN server[c] ELSE posts[w][c]]
    BY <1>8 DEF Migrated, MigrationLost, Posted, ghosts
  <2>2. \A c \in Cols : server'[c] <= edits
    BY <2>1 DEF Bounded
  <2>3. \A x \in {"own", "stray"} : posts'[x] \in {posts[x], None}
    BY <2>1, FetchMoves DEF TypeInv
  <2> QED BY <2>1, <2>2, <2>3 DEF Bounded
<1>9. ASSUME NEW w \in {"own", "stray"}, PullAnswered(w) \/ PullLost(w) PROVE Bounded'
  <2>1. /\ pulls[w] # None /\ pulls' = [pulls EXCEPT ![w] = None]
        /\ UNCHANGED <<server, edits, posts, flights>>
        /\ \/ local' = local
           \/ local' = [c \in Cols |-> IF pulls[w][c] = 0 THEN local[c] ELSE pulls[w][c]]
    BY <1>9 DEF PullAnswered, PullLost, Pulled, ghosts
  <2>2. \A c \in Cols : local'[c] <= edits
    BY <2>1 DEF Bounded
  <2>3. \A x \in {"own", "stray"} : pulls'[x] \in {pulls[x], None}
    BY <2>1, FetchMoves DEF TypeInv
  <2> QED BY <2>1, <2>2, <2>3 DEF Bounded
<1>10. ASSUME UNCHANGED <<local, server, edits, posts, pulls, flights>> PROVE Bounded'
  BY <1>10 DEF Bounded
<1> QED BY <1>1, <1>2, <1>3, <1>4, <1>5, <1>6, <1>7, <1>8, <1>9, <1>10 DEF Next, ConfigLost, Mount,
       vars, ghosts

-----------------------------------------------------------------------------
(***************************************************************************)
(* Edits that have arrived                                                 *)
(*                                                                         *)
(* That the server holds an edit once it has answered is not inductive: a  *)
(* push that carries something older may still be under way.  What is:     *)
(* nothing of a collection is newer than the edit heard last, and behind a *)
(* push that carries that edit every push does.                            *)
(***************************************************************************)

Newest(c) ==
  /\ listening /\ heard[c] = local[c] /\ acked[c] <= heard[c]
  /\ \A w \in {"own", "stray"} : posts[w] # None => posts[w][c] <= heard[c]
  /\ \A i \in DOMAIN flights : c \in DOMAIN flights[i].st => flights[i].data[c] <= heard[c]

InOrder(c) == \A i, j \in DOMAIN flights :
  /\ i < j /\ c \in DOMAIN flights[i].st /\ c \in DOMAIN flights[j].st
  /\ flights[i].data[c] = heard[c]
  => flights[j].data[c] = heard[c]

Arrived(c) == heard[c] <= acked[c] /\ ~reordered =>
  /\ server[c] = heard[c]
  /\ \A i \in DOMAIN flights : Sent(i, c) => flights[i].data[c] = heard[c]

Ordered ==
  /\ \A c \in Cols : acked[c] <= edits
  /\ \A c \in Cols : heard[c] # 0 => Newest(c) /\ InOrder(c) /\ Arrived(c)

LEMMA EditOrdered == ASSUME TypeInv, Bounded, Ordered, NEW d \in Cols, Edit(d) PROVE Ordered'
<1>1. /\ local' = [local EXCEPT ![d] = edits + 1] /\ edits' = edits + 1 /\ edits \in Nat
      /\ heard' = IF listening THEN [heard EXCEPT ![d] = edits + 1] ELSE heard
      /\ UNCHANGED <<server, listening, flights, posts, acked, reordered>>
  BY DEF Edit, TypeInv
<1>2. \A c \in Cols : acked'[c] <= edits'
  BY <1>1, VersionFacts DEF Ordered
<1>3. ASSUME NEW c \in Cols, heard'[c] # 0, heard'[c] = heard[c], local'[c] = local[c]
      PROVE  (Newest(c) /\ InOrder(c) /\ Arrived(c))'
  BY <1>1, <1>3 DEF Ordered, Newest, InOrder, Arrived, Sent
<1>4. ASSUME heard'[d] # 0 PROVE (Newest(d) /\ InOrder(d) /\ Arrived(d))'
  <2>1. listening
    BY <1>1, <1>4 DEF Ordered, Newest
  <2>2. heard'[d] = edits + 1 /\ local'[d] = edits + 1
    BY <1>1, <2>1 DEF TypeInv, Versions
  <2>3. acked[d] \in Nat /\ acked[d] <= edits
    BY VersionFacts DEF Ordered
  <2>4. ASSUME NEW w \in {"own", "stray"}, posts[w] # None PROVE posts[w][d] <= edits + 1
    <3>1. posts[w] \in Versions
      BY <2>4, FetchFacts DEF TypeInv
    <3>2. posts[w][d] \in Nat /\ posts[w][d] <= edits
      BY <2>4, <3>1, VersionsAreNaturals DEF Bounded
    <3> QED BY <1>1, <3>2
  <2>5. ASSUME NEW i \in DOMAIN flights, d \in DOMAIN flights[i].st
        PROVE  flights[i].data[d] <= edits + 1 /\ flights[i].data[d] # edits + 1
    <3>1. flights[i].data[d] \in Nat /\ flights[i].data[d] <= edits
      BY <2>5, FlightFacts, VersionsAreNaturals DEF Bounded
    <3> QED BY <1>1, <3>1
  <2>6. Newest(d)'
    BY <1>1, <2>1, <2>2, <2>3, <2>4, <2>5 DEF Newest
  <2>7. InOrder(d)'
    BY <1>1, <2>2, <2>5 DEF InOrder
  <2>8. Arrived(d)'
    BY <1>1, <2>2, <2>3 DEF Arrived
  <2> QED BY <2>6, <2>7, <2>8
<1>5. \A c \in Cols : c # d => heard'[c] = heard[c] /\ local'[c] = local[c]
  BY <1>1 DEF TypeInv, Versions
<1> QED BY <1>2, <1>3, <1>4, <1>5 DEF Ordered

LEMMA FlushOrdered == ASSUME TypeInv, Ordered, Flush PROVE Ordered'
<1> DEFINE f == [own |-> TRUE, data |-> [c \in pending |-> local[c]],
                 st |-> [c \in pending |-> "sent"]]
           n == Len(flights)
<1>1. /\ flights' = flights \/ flights' = Append(flights, f)
      /\ UNCHANGED <<local, server, edits, listening, posts, heard, acked, reordered>>
  BY DEF Flush, ghosts
<1>2. \A c \in DOMAIN f.st : c \in Cols /\ f.data[c] = local[c]
  BY DEF TypeInv
<1> HIDE DEF f
<1>3. flights \in Seq(Flight) /\ n \in Nat /\ DOMAIN flights = 1..n
  BY DEF TypeInv
<1>4. \A j \in DOMAIN flights' :
        (j \in DOMAIN flights /\ flights'[j] = flights[j]) \/ (j = n + 1 /\ flights'[j] = f)
  BY <1>1, <1>3
<1> HIDE DEF n
<1>5. ASSUME NEW c \in Cols, heard[c] # 0 PROVE (Newest(c) /\ InOrder(c) /\ Arrived(c))'
  <2>1. Newest(c) /\ InOrder(c) /\ Arrived(c) /\ heard[c] \in Nat
    BY <1>5, VersionFacts DEF Ordered
  <2>2. c \in DOMAIN f.st => f.data[c] = heard[c]
    BY <1>2, <2>1 DEF Newest
  <2>3. Newest(c)'
    BY <1>1, <1>4, <2>1, <2>2 DEF Newest
  <2>4. ASSUME NEW i \in DOMAIN flights', NEW j \in DOMAIN flights', i < j,
               c \in DOMAIN flights'[i].st, c \in DOMAIN flights'[j].st,
               flights'[i].data[c] = heard[c]
        PROVE  flights'[j].data[c] = heard[c]
    <3>1. CASE j = n + 1 /\ flights'[j] = f
      BY <2>2, <2>4, <3>1
    <3>2. CASE j \in DOMAIN flights /\ flights'[j] = flights[j]
      <4>1. i # n + 1
        BY <1>3, <2>4, <3>2
      <4>2. i \in DOMAIN flights /\ flights'[i] = flights[i]
        BY <1>4, <4>1
      <4> QED BY <2>1, <2>4, <3>2, <4>2 DEF InOrder
    <3> QED BY <1>4, <3>1, <3>2
  <2>5. InOrder(c)'
    BY <1>1, <2>4 DEF InOrder
  <2>6. ASSUME NEW i \in DOMAIN flights', Sent(i, c)', heard[c] <= acked[c], ~reordered
        PROVE  flights'[i].data[c] = heard[c]
    BY <1>4, <2>1, <2>2, <2>6 DEF Sent, Arrived
  <2>7. Arrived(c)'
    BY <1>1, <2>1, <2>6 DEF Arrived
  <2> QED BY <2>3, <2>5, <2>7
<1> QED BY <1>1, <1>5 DEF Ordered

(* A push is settled for one collection: answered, or handled with its      *)
(* answer lost, or lost.                                                    *)
LEMMA SettleOrdered ==
  ASSUME TypeInv, Bounded, Ordered, NEW i, NEW c, NEW how \in {"ok", "failed"},
         Sent(i, c), Settle(i, c, how), UNCHANGED <<hook, local, edits, posts, heard>>,
         \/ Handle(i, c)
         \/ UNCHANGED <<server, reordered>>,
         \/ acked' = acked
         \/ /\ Handle(i, c)
            /\ acked' = IF flights[i].data[c] > acked[c]
                        THEN [acked EXCEPT ![c] = flights[i].data[c]] ELSE acked
  PROVE  Ordered'
<1> DEFINE v == flights[i].data[c]
<1>1. i \in DOMAIN flights /\ v \in Nat /\ c \in Cols /\ v <= edits /\ c \in DOMAIN flights[i].st
  BY FlightFacts, VersionsAreNaturals DEF Sent, Bounded
<1>2. /\ DOMAIN flights' = DOMAIN flights
      /\ \A j \in DOMAIN flights :
           /\ flights'[j].data = flights[j].data /\ DOMAIN flights'[j].st = DOMAIN flights[j].st
           /\ \A d \in DOMAIN flights[j].st :
                flights'[j].st[d] = IF j = i /\ d = c THEN how ELSE flights[j].st[d]
  BY SettleEffect
<1>3. \A j \in DOMAIN flights, d \in Cols : Sent(j, d)' => Sent(j, d) /\ ~(j = i /\ d = c)
  BY <1>2 DEF Sent
<1>4. /\ \A d \in Cols : d # c => server'[d] = server[d] /\ acked'[d] = acked[d]
      /\ acked'[c] = acked[c] \/ (acked'[c] = v /\ v > acked[c] /\ Handle(i, c))
      /\ server'[c] = server[c] \/ server'[c] = v
      /\ Handle(i, c) => server'[c] = v
      /\ reordered => reordered'
  <2>1. server \in [Cols -> Version] /\ acked \in [Cols -> Version]
    BY VersionsAreNaturals DEF TypeInv
  <2> HIDE DEF v
  <2>2. Handle(i, c) => server' = [server EXCEPT ![c] = v] /\ (reordered => reordered')
    BY DEF Handle, v
  <2>3. /\ server' = server \/ (server' = [server EXCEPT ![c] = v])
        /\ reordered => reordered'
    BY <2>2
  <2>4. acked' = acked \/ (acked' = [acked EXCEPT ![c] = v] /\ v > acked[c] /\ Handle(i, c))
    BY DEF v
  <2>5. \A d \in Cols : d # c => server'[d] = server[d] /\ acked'[d] = acked[d]
    BY <2>1, <2>3, <2>4
  <2>6. acked'[c] = acked[c] \/ (acked'[c] = v /\ v > acked[c] /\ Handle(i, c))
    BY <1>1, <2>1, <2>4
  <2>7. /\ server'[c] = server[c] \/ server'[c] = v
        /\ Handle(i, c) => server'[c] = v
    BY <1>1, <2>1, <2>2, <2>3
  <2> QED BY <2>3, <2>5, <2>6, <2>7
<1> HIDE DEF v
<1>5. \A d \in Cols : acked'[d] <= edits'
  BY <1>1, <1>4 DEF Ordered
<1>6. ASSUME NEW d \in Cols, heard[d] # 0 PROVE (Newest(d) /\ InOrder(d) /\ Arrived(d))'
  <2>1. Newest(d) /\ InOrder(d) /\ Arrived(d) /\ heard[d] \in Nat /\ acked[d] \in Nat
    BY <1>6, VersionFacts DEF Ordered
  <2>2. d = c => v <= heard[d]
    BY <1>1, <2>1 DEF Newest, v
  <2>3. Newest(d)'
    BY <1>2, <1>4, <2>1, <2>2 DEF Newest, hook
  <2>4. InOrder(d)'
    BY <1>2, <2>1 DEF InOrder
  <2>5. ASSUME d # c PROVE Arrived(d)'
    BY <1>2, <1>3, <1>4, <2>1, <2>5 DEF Arrived
  <2>6. ASSUME d = c, heard[d] <= acked[d] PROVE Arrived(d)'
    <3> SUFFICES ASSUME ~reordered'
                 PROVE  /\ server'[c] = heard[c]
                        /\ \A j \in DOMAIN flights : Sent(j, c)' => flights[j].data[c] = heard[c]
      BY <1>2, <2>6 DEF Arrived
    <3>1. /\ server[c] = heard[c]
          /\ \A j \in DOMAIN flights : Sent(j, c) => flights[j].data[c] = heard[c]
      BY <1>4, <2>1, <2>6 DEF Arrived
    <3>2. v = heard[c]
      BY <1>1, <3>1 DEF v
    <3> QED BY <1>3, <1>4, <2>6, <3>1, <3>2
  <2>7. ASSUME d = c, ~(heard[d] <= acked[d]) PROVE Arrived(d)'
    <3> SUFFICES ASSUME ~reordered', heard[c] <= acked'[c]
                 PROVE  /\ server'[c] = heard[c]
                        /\ \A j \in DOMAIN flights : Sent(j, c)' => flights[j].data[c] = heard[c]
      BY <1>2, <2>7 DEF Arrived
    <3>1. acked'[c] = v /\ Handle(i, c) /\ v = heard[c]
      BY <1>1, <1>4, <2>1, <2>2, <2>7
    <3>2. \A j \in 1..(i - 1) : ~Sent(j, c)
      BY <3>1 DEF Handle
    <3>3. ASSUME NEW j \in DOMAIN flights, Sent(j, c)' PROVE flights[j].data[c] = heard[c]
      <4>1. i \in Nat /\ j \in Nat /\ 1 <= j
        BY <1>1 DEF TypeInv
      <4>2. Sent(j, c) /\ j # i
        BY <1>3, <2>7, <3>3
      <4>3. i < j
        BY <3>2, <4>1, <4>2
      <4>4. c \in DOMAIN flights[j].st
        BY <4>2 DEF Sent
      <4> QED BY <1>1, <2>1, <2>7, <3>1, <4>3, <4>4 DEF InOrder, v
    <3> QED BY <1>4, <3>1, <3>3
  <2> QED BY <2>3, <2>4, <2>5, <2>6, <2>7
<1> QED BY <1>5, <1>6 DEF Ordered

LEMMA DropOrdered ==
  ASSUME TypeInv, Ordered, NEW i \in DOMAIN flights, flights' = Drop(i),
         UNCHANGED <<local, server, edits, listening, posts, heard, acked, reordered>>
  PROVE  Ordered'
<1>1. \A j \in DOMAIN flights' : \E k \in DOMAIN flights : flights'[j] = flights[k]
  BY DropEffect
<1>2. \A j, l \in DOMAIN flights' : j < l =>
        \E k, m \in DOMAIN flights : k < m /\ flights'[j] = flights[k] /\ flights'[l] = flights[m]
  BY DropEffect
<1>3. ASSUME NEW c \in Cols, heard[c] # 0 PROVE (Newest(c) /\ InOrder(c) /\ Arrived(c))'
  <2>1. Newest(c) /\ InOrder(c) /\ Arrived(c)
    BY <1>3 DEF Ordered
  <2>2. Newest(c)'
    BY <1>1, <2>1 DEF Newest
  <2>3. InOrder(c)'
    BY <1>2, <2>1 DEF InOrder
  <2>4. \A j \in DOMAIN flights' : Sent(j, c)' =>
          \E k \in DOMAIN flights : Sent(k, c) /\ flights'[j] = flights[k]
    BY <1>1 DEF Sent
  <2>5. Arrived(c)'
    BY <2>1, <2>4 DEF Arrived
  <2> QED BY <2>2, <2>3, <2>5
<1> QED BY <1>3 DEF Ordered

LEMMA OrderedStep == ASSUME TypeInv, Bounded, Ordered, [Next]_vars PROVE Ordered'
<1>1. ASSUME NEW c \in Cols, Edit(c) PROVE Ordered'
  BY <1>1, EditOrdered
<1>2. ASSUME DebounceFires \/ RetryFires PROVE Ordered'
  BY <1>2, FlushOrdered DEF DebounceFires, RetryFires
<1>3. ASSUME NEW i \in 1..MaxFlights, NEW c \in Cols, PutAnswered(i, c) PROVE Ordered'
  BY <1>3, SettleOrdered DEF PutAnswered
<1>4. ASSUME NEW i \in 1..MaxFlights, NEW c \in Cols, PutAnswerLost(i, c) PROVE Ordered'
  BY <1>4, SettleOrdered DEF PutAnswerLost
<1>5. ASSUME NEW i \in 1..MaxFlights, NEW c \in Cols, PutLost(i, c) PROVE Ordered'
  BY <1>5, SettleOrdered DEF PutLost, ghosts
<1>6. ASSUME NEW i \in 1..MaxFlights, FlushDone(i) \/ FlushDoneLate(i) PROVE Ordered'
  BY <1>6, DropOrdered DEF FlushDone, FlushDoneLate, Landed, hook
<1>7. ASSUME ConfigAnswered PROVE Ordered'
  <2>1. /\ posts' = posts \/ posts' = [posts EXCEPT !.own = local]
        /\ listening' = TRUE
        /\ UNCHANGED <<local, server, edits, flights, heard, acked, reordered>>
    BY <1>7 DEF ConfigAnswered
  <2>2. \A w \in {"own", "stray"} : posts'[w] = posts[w] \/ posts'[w] = local
    <3>1. DOMAIN posts = {"own", "stray"}
      BY DEF TypeInv, Fetch
    <3> QED BY <2>1, <3>1
  <2>3. \A c \in Cols : heard[c] # 0 => Newest(c)'
    BY <2>1, <2>2, VersionFacts DEF Ordered, Newest
  <2> QED BY <2>1, <2>3 DEF Ordered, InOrder, Arrived, Sent
<1>8. ASSUME NEW w \in {"own", "stray"}, Migrated(w) PROVE Ordered'
  <2>1. /\ posts[w] # None /\ posts' = [posts EXCEPT ![w] = None]
        /\ UNCHANGED <<local, edits, listening, flights, heard, acked>>
        /\ server' = [c \in Cols |-> IF posts[w][c] = 0 THEN server[c] ELSE posts[w][c]]
        /\ reordered' = (reordered \/ \E c \in Cols : server'[c] < server[c])
    BY <1>8 DEF Migrated, Posted
  <2>2. \A x \in {"own", "stray"} : posts'[x] \in {posts[x], None}
    BY <2>1, FetchMoves DEF TypeInv
  <2>3. ASSUME NEW c \in Cols, heard[c] # 0 PROVE (Newest(c) /\ InOrder(c) /\ Arrived(c))'
    <3>1. Newest(c) /\ InOrder(c) /\ Arrived(c)
      BY <2>3 DEF Ordered
    <3>2. Newest(c)' /\ InOrder(c)'
      BY <2>1, <2>2, <3>1 DEF Newest, InOrder
    <3>3. posts[w][c] \in Nat /\ server[c] \in Nat /\ heard[c] \in Nat
      <4>1. posts[w] \in Versions /\ server \in Versions
        BY <2>1, FetchFacts DEF TypeInv
      <4> QED BY <4>1, VersionFacts, VersionsAreNaturals
    <3>4. ASSUME server[c] = heard[c], ~reordered' PROVE server'[c] = heard[c]
      <4>1. server'[c] = IF posts[w][c] = 0 THEN server[c] ELSE posts[w][c]
        BY <2>1
      <4>2. ~(server'[c] < server[c]) /\ posts[w][c] <= heard[c]
        BY <2>1, <3>1, <3>4 DEF Newest
      <4> QED BY <3>3, <3>4, <4>1, <4>2
    <3>5. Arrived(c)'
      BY <2>1, <3>1, <3>4 DEF Arrived, Sent
    <3> QED BY <3>2, <3>5
  <2> QED BY <2>1, <2>3 DEF Ordered
<1>9. ASSUME NEW w \in {"own", "stray"}, MigrationLost(w) PROVE Ordered'
  <2>1. /\ posts' = [posts EXCEPT ![w] = None]
        /\ UNCHANGED <<local, server, edits, listening, flights, heard, acked, reordered>>
    BY <1>9 DEF MigrationLost, Posted, ghosts
  <2>2. \A x \in {"own", "stray"} : posts'[x] \in {posts[x], None}
    BY <2>1, FetchMoves DEF TypeInv
  <2> QED BY <2>1, <2>2 DEF Ordered, Newest, InOrder, Arrived, Sent
<1>10. ASSUME NEW w \in {"own", "stray"}, PullAnswered(w) PROVE Ordered'
  <2>1. /\ UNCHANGED <<server, edits, listening, flights, posts, acked, reordered>>
        /\ local' = [c \in Cols |-> IF pulls[w][c] = 0 THEN local[c] ELSE pulls[w][c]]
        /\ heard' = [c \in Cols |-> IF pulls[w][c] = 0 THEN heard[c] ELSE 0]
    BY <1>10 DEF PullAnswered
  <2>2. \A c \in Cols : heard'[c] # 0 => heard'[c] = heard[c] /\ local'[c] = local[c]
    BY <2>1
  <2> QED BY <2>1, <2>2 DEF Ordered, Newest, InOrder, Arrived, Sent
<1>11. ASSUME Unmount PROVE Ordered'
  <2>1. \A c \in Cols : heard'[c] = 0
    BY <1>11 DEF Unmount, Absent
  <2> QED BY <1>11, <2>1 DEF Ordered, Unmount
<1>12. ASSUME UNCHANGED <<local, server, edits, listening, flights, posts, heard, acked, reordered>>
       PROVE  Ordered'
  BY <1>12 DEF Ordered, Newest, InOrder, Arrived, Sent
<1> QED BY <1>1, <1>2, <1>3, <1>4, <1>5, <1>6, <1>7, <1>8, <1>9, <1>10, <1>11, <1>12
     DEF Next, ConfigLost, PullAsked, PullLost, Mount, vars, hook, ghosts

(* flushPending and pushToServer: an edit that was heard is never dropped,  *)
(* and what was answered is what the server holds, up to reordered writes.  *)
THEOREM EditsAreCarried == Spec => []NoEditLost
<1>1. Init => Carried /\ QueueHasTimer /\ Bounded /\ Ordered
  <2> SUFFICES ASSUME Init PROVE Carried /\ QueueHasTimer /\ Bounded /\ Ordered
    OBVIOUS
  <2>1. /\ edits = 1 /\ pending = {}
        /\ \A c \in Cols : /\ local[c] = 0 /\ server[c] \in {0, 1}
                          /\ heard[c] = 0 /\ acked[c] = 0
        /\ \A w \in {"own", "stray"} : posts[w] = None /\ pulls[w] = None
    BY DEF Init, Absent, NoFetch
  <2>2. flights = <<>>
    BY DEF Init
  <2> QED BY <2>1, <2>2 DEF Carried, QueueHasTimer, Bounded, Ordered
<1>2. TypeInv /\ Carried /\ QueueHasTimer /\ Ordered => NoEditLost
  <2> SUFFICES ASSUME TypeInv, Carried, QueueHasTimer, Ordered, NEW c \in Cols, heard[c] # 0
               PROVE  \/ heard[c] <= acked[c] /\ (reordered \/ server[c] = local[c])
                      \/ c \in pending /\ (debounce \/ retry)
                      \/ \E i \in DOMAIN flights :
                            /\ flights[i].own /\ c \in DOMAIN flights[i].st
                            /\ flights[i].st[c] # "ok"
    BY DEF NoEditLost
  <2>1. CASE heard[c] <= acked[c]
    BY <2>1 DEF Ordered, Arrived, Newest
  <2>2. CASE ~(heard[c] <= acked[c])
    <3>1. heard[c] > acked[c]
      BY <2>2, VersionFacts
    <3> QED BY <3>1 DEF Carried, Carries, QueueHasTimer
  <2> QED BY <2>1, <2>2
<1> QED BY <1>1, <1>2, SyncTypeInit, SyncTypeStep, CarriedStep, QueueStep, BoundedStep, OrderedStep,
       PTL DEF Spec

-----------------------------------------------------------------------------
(* The first mount *)

(* What the browser held when server mode was found has been on the server. *)
Kept == \A c \in Cols : found[c] = 0 \/ found[c] \in stored[c]

First == mounts = 1 /\ losses = 0

(* On the first mount, with nothing lost, no pull exists before the         *)
(* migration has brought what was found to the server.                      *)
MigratedFirst ==
  /\ phase = "config" => ~migrated /\ \A w \in {"own", "stray"} : posts[w] = None /\ pulls[w] = None
  /\ \A w \in {"own", "stray"} :
       /\ posts[w] # None => posts[w] = found
       /\ pulls[w] # None => Kept
  /\ phase \in {"pull", "pulling", "ready"} => Kept

History == mounts >= 1 /\ stored = [c \in Cols |-> stored[c]]

FirstMount == History /\ (First => MigratedFirst)

LEMMA HistoryStep ==
  ASSUME TypeInv, History, [Next]_vars
  PROVE  History' /\ (Kept /\ UNCHANGED found => Kept')
<1>1. mounts' = mounts \/ mounts' = mounts + 1
  BY DEF Next, Edit, DebounceFires, RetryFires, Flush, PutAnswered, PutAnswerLost, PutLost,
       FlushDone, FlushDoneLate, ConfigAnswered, ConfigLost, Migrated, MigrationLost, PullAsked,
       PullAnswered, PullLost, Unmount, Mount, vars
<1>2. \/ stored' = stored
      \/ \E i \in 1..MaxFlights, c \in Cols :
           stored' = [stored EXCEPT ![c] = @ \cup {flights[i].data[c]}]
      \/ stored' = [c \in Cols |-> stored[c] \cup {server'[c]}]
  BY DEF Next, Edit, DebounceFires, RetryFires, Flush, PutAnswered, PutAnswerLost, PutLost, Handle,
       FlushDone, FlushDoneLate, ConfigAnswered, ConfigLost, Migrated, MigrationLost, PullAsked,
       PullAnswered, PullLost, Unmount, Mount, vars, ghosts
<1>3. /\ stored' = [c \in Cols |-> stored'[c]]
      /\ \A c \in Cols : stored[c] \subseteq stored'[c]
  BY <1>2 DEF History
<1>4. mounts' >= 1
  BY <1>1 DEF History, TypeInv
<1> QED BY <1>3, <1>4 DEF History, Kept

LEMMA FirstBefore ==
  ASSUME TypeInv, History, [Next]_vars, First'
  PROVE  First /\ ~Mount
<1>1. ASSUME Lose PROVE FALSE
  BY <1>1 DEF Lose, First, TypeInv
<1>2. ASSUME Mount PROVE FALSE
  BY <1>2 DEF Mount, First, TypeInv, History
<1>3. CASE UNCHANGED <<mounts, losses>>
  BY <1>2, <1>3 DEF First
<1> QED BY <1>1, <1>2, <1>3 DEF Next, Edit, DebounceFires, RetryFires, Flush, PutAnswered,
       PutAnswerLost, PutLost, FlushDone, FlushDoneLate, ConfigAnswered, ConfigLost, Migrated,
       MigrationLost, PullAsked, PullAnswered, PullLost, Unmount, vars

LEMMA FirstMountStep ==
  ASSUME TypeInv, FirstMount, [Next]_vars
  PROVE  FirstMount'
<1>0. History' /\ (Kept /\ UNCHANGED found => Kept')
  BY HistoryStep DEF FirstMount
<1> SUFFICES ASSUME First' PROVE MigratedFirst'
  BY <1>0 DEF FirstMount
<1>1. First /\ ~Mount /\ MigratedFirst
  BY FirstBefore DEF FirstMount
<1>2. DOMAIN posts = {"own", "stray"} /\ DOMAIN pulls = {"own", "stray"}
  BY DEF TypeInv, Fetch
<1>3. ASSUME Lose PROVE FALSE
  BY <1>3 DEF Lose, First, TypeInv
<1>4. ASSUME UNCHANGED <<phase, migrated, posts, pulls, found>> PROVE MigratedFirst'
  BY <1>0, <1>1, <1>4 DEF MigratedFirst
<1>5. ASSUME ConfigAnswered PROVE MigratedFirst'
  <2>1. /\ phase = "config" /\ found' = local /\ UNCHANGED <<pulls, stored>>
        /\ \A w \in {"own", "stray"} : posts[w] = None /\ pulls[w] = None
        /\ ~migrated
    BY <1>1, <1>5 DEF ConfigAnswered, MigratedFirst
  <2>2. CASE local = Absent
    <3>1. phase' = "pull" /\ posts' = posts
      BY <1>5, <2>2 DEF ConfigAnswered
    <3>2. Kept'
      BY <2>1, <2>2 DEF Kept, Absent
    <3> QED BY <2>1, <3>1, <3>2 DEF MigratedFirst
  <2>3. CASE local # Absent
    <3>1. phase' = "migrate" /\ posts' = [posts EXCEPT !.own = local]
      BY <1>5, <2>1, <2>3 DEF ConfigAnswered
    <3>2. \A w \in {"own", "stray"} : posts'[w] = local \/ posts'[w] = None
      BY <1>2, <2>1, <3>1
    <3> QED BY <2>1, <3>1, <3>2 DEF MigratedFirst
  <2> QED BY <2>2, <2>3
<1>6. ASSUME NEW w \in {"own", "stray"}, Migrated(w) PROVE MigratedFirst'
  <2>1. /\ posts[w] # None /\ posts' = [posts EXCEPT ![w] = None] /\ AfterPost(w)
        /\ stored' = [c \in Cols |-> stored[c] \cup {server'[c]}]
        /\ server' = [c \in Cols |-> IF posts[w][c] = 0 THEN server[c] ELSE posts[w][c]]
        /\ UNCHANGED <<pulls, found>>
    BY <1>6 DEF Migrated, Posted
  <2>2. posts[w] = found /\ phase # "config"
    BY <1>1, <2>1 DEF MigratedFirst
  <2>3. Kept'
    BY <2>1, <2>2 DEF Kept
  <2>4. \A x \in {"own", "stray"} : posts'[x] \in {posts[x], None}
    BY <1>2, <2>1
  <2>5. phase' # "config"
    BY <2>1, <2>2 DEF AfterPost
  <2> QED BY <1>1, <2>1, <2>3, <2>4, <2>5 DEF MigratedFirst
<1>7. ASSUME PullAsked PROVE MigratedFirst'
  <2>1. phase = "pull" /\ phase' = "pulling" /\ UNCHANGED <<posts, found>>
    BY <1>7 DEF PullAsked, ghosts
  <2>2. Kept'
    BY <1>0, <1>1, <2>1 DEF MigratedFirst
  <2> QED BY <1>1, <2>1, <2>2 DEF MigratedFirst
<1>8. ASSUME NEW w \in {"own", "stray"}, PullAnswered(w) PROVE MigratedFirst'
  <2>1. /\ pulls[w] # None /\ pulls' = [pulls EXCEPT ![w] = None] /\ AfterPull(w)
        /\ UNCHANGED <<posts, found>>
    BY <1>8 DEF PullAnswered, Pulled
  <2>2. Kept' /\ phase # "config"
    BY <1>0, <1>1, <2>1 DEF MigratedFirst
  <2>3. phase' # "config"
    BY <2>1, <2>2 DEF AfterPull
  <2> QED BY <1>1, <2>1, <2>2, <2>3 DEF MigratedFirst
<1>9. ASSUME Unmount PROVE MigratedFirst'
  <2>1. phase' = "gone" /\ UNCHANGED found
    BY <1>9 DEF Unmount
  <2>2. \A w \in {"own", "stray"} :
          /\ posts'[w] \in {posts[w], posts["own"], None}
          /\ pulls'[w] \in {pulls[w], pulls["own"], None}
    BY <1>9, FetchMoves DEF Unmount, TypeInv
  <2> QED BY <1>0, <1>1, <2>1, <2>2 DEF MigratedFirst
<1> QED BY <1>1, <1>3, <1>4, <1>5, <1>6, <1>7, <1>8, <1>9 DEF Next, Edit, DebounceFires, RetryFires,
       Flush, PutAnswered, PutAnswerLost, PutLost, Handle, FlushDone, FlushDoneLate, ConfigLost,
       MigrationLost, PullLost, vars, hook, ghosts

LEMMA FoundStep ==
  ASSUME TypeInv, Bounded, FirstMount, [Next]_vars, NEW c \in Cols,
         mounts = 1, losses = 0, local[c] = found[c], local'[c] < local[c], local' \in Versions
  PROVE  local[c] \in stored[c]
<1>0. local[c] \in Nat /\ local'[c] \in Nat /\ edits \in Nat /\ local[c] <= edits /\ found[c] # 0
  <2>1. local[c] \in Nat /\ edits \in Nat /\ local[c] <= edits
    BY VersionFacts DEF Bounded
  <2>2. local'[c] \in Nat
    BY VersionsAreNaturals
  <2> QED BY <2>1, <2>2
<1>1. ASSUME NEW d \in Cols, Edit(d) PROVE FALSE
  <2>1. local'[c] = local[c] \/ local'[c] = edits + 1
    BY <1>1 DEF Edit, TypeInv, Versions
  <2> QED BY <1>0, <2>1
<1>2. ASSUME NEW w \in {"own", "stray"}, PullAnswered(w) PROVE Kept
  <2>1. pulls[w] # None
    BY <1>2 DEF PullAnswered, Pulled
  <2> QED BY <2>1 DEF FirstMount, First, MigratedFirst
<1>3. ASSUME local' = local PROVE FALSE
  BY <1>0, <1>3
<1>4. Kept
  BY <1>1, <1>2, <1>3 DEF Next, DebounceFires, RetryFires, Flush, PutAnswered, PutAnswerLost,
       PutLost, FlushDone, FlushDoneLate, ConfigAnswered, ConfigLost, Migrated, MigrationLost,
       PullAsked, PullLost, Unmount, Mount, vars
<1> QED BY <1>0, <1>4 DEF Kept

(* init: migration first, then pull.                                        *)
THEOREM FoundIsSafe == Spec => FoundIsKept
<1>1. Init => Bounded /\ FirstMount
  <2> SUFFICES ASSUME Init PROVE Bounded /\ FirstMount
    OBVIOUS
  <2>1. /\ edits = 1 /\ \A c \in Cols : local[c] = 0 /\ server[c] \in {0, 1} /\ found[c] = 0
        /\ \A w \in {"own", "stray"} : posts[w] = None /\ pulls[w] = None
    BY DEF Init, Absent, NoFetch
  <2>2. flights = <<>>
    BY DEF Init
  <2>3. Bounded
    BY <2>1, <2>2 DEF Bounded
  <2>4. History /\ ~migrated
    BY DEF Init, History
  <2> QED BY <2>1, <2>3, <2>4 DEF FirstMount, MigratedFirst, Kept
<1>2. TypeInv /\ TypeInv' /\ Bounded /\ FirstMount /\ [Next]_vars =>
        [\A c \in Cols :
           /\ mounts = 1 /\ losses = 0
           /\ local[c] = found[c] /\ local'[c] < local[c]
           => local[c] \in stored[c]]_vars
  <2>1. TypeInv' => local' \in Versions
    BY DEF TypeInv
  <2> QED BY <2>1, FoundStep
<1> QED BY <1>1, <1>2, SyncTypeInit, SyncTypeStep, BoundedStep, FirstMountStep, PTL
     DEF Spec, FoundIsKept

=============================================================================
