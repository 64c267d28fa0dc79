----------------------------- MODULE StorageSync -----------------------------
(***************************************************************************)
(* The write-through cache of a browser: src/hooks/use-storage-sync.ts      *)
(* between localStorage, written by the storage facade, and the server      *)
(* behind src/app/api/storage.  An instance of the hook lives from Mount to *)
(* Unmount; fetches it has begun outlive it.                                *)
(*                                                                         *)
(* The content of a collection is a version number: 0 when the key is       *)
(* absent, 1 what the server held before this browser, above 1 the edits of *)
(* this browser in their order.  A PUT is handled by the server and then    *)
(* answered in one step; it can also be lost before or after the handling.  *)
(***************************************************************************)
EXTENDS Naturals, Sequences, FiniteSets

CONSTANTS Cols, None,
          MaxEdits, MaxFlights, MaxMounts, MaxLosses   \* bounds

ASSUME SyncBounds == \A n \in {MaxEdits, MaxFlights, MaxMounts, MaxLosses} : n \in Nat

VARIABLES
  local, server,     \* localStorage and user_storage, per collection
  migrated,          \* the flag libredb_server_migrated
  phase,             \* how far init() has come; "gone" when not mounted
  listening,         \* isServerMode: the change listener is attached
  pending,           \* pendingCollectionsRef
  debounce, retry,   \* which of the two timers is armed
  flights,           \* pushes under way, in the order they were sent
  posts, pulls,      \* the migration POST and the GET under way, of this
                     \* instance and of the one before
  (* observations *)
  edits, mounts, losses,
  heard,    \* the last edit this instance heard and no pull replaced
  acked,    \* the newest version whose push was answered
  stored,   \* what the server has held
  found,    \* localStorage when server mode was discovered
  reordered \* two writes of one collection were handled out of order

hook   == <<phase, listening, pending, debounce, retry>>
ghosts == <<heard, acked, stored, found, reordered>>
vars   == <<local, server, migrated, hook, flights, posts, pulls, edits,
            mounts, losses, ghosts>>

Absent  == [c \in Cols |-> 0]
NoFetch == [own |-> None, stray |-> None]
Mounted == phase # "gone"

Init ==
  /\ local = Absent /\ server \in [Cols -> {0, 1}] /\ migrated = FALSE
  /\ phase = "config" /\ listening = FALSE
  /\ pending = {} /\ debounce = FALSE /\ retry = FALSE
  /\ flights = <<>> /\ posts = NoFetch /\ pulls = NoFetch
  /\ edits = 1 /\ mounts = 1 /\ losses = 0
  /\ heard = Absent /\ acked = Absent /\ found = Absent
  /\ stored = [c \in Cols |-> {server[c]}] /\ reordered = FALSE

(* A request that fails before it is handled, or whose answer is lost. *)
Lose == losses < MaxLosses /\ losses' = losses + 1

-----------------------------------------------------------------------------
(* Edits *)

(* A mutation through the facade: localStorage first, then the event, which *)
(* schedulePush hears once the listener is attached.                        *)
Edit(c) ==
  /\ Mounted /\ edits <= MaxEdits
  /\ edits' = edits + 1 /\ local' = [local EXCEPT ![c] = edits + 1]
  /\ pending' = IF listening THEN pending \cup {c} ELSE pending
  /\ debounce' = (debounce \/ listening)
  /\ heard' = IF listening THEN [heard EXCEPT ![c] = edits + 1] ELSE heard
  /\ UNCHANGED <<server, migrated, phase, listening, retry, flights, posts,
                 pulls, mounts, losses, acked, stored, found, reordered>>

-----------------------------------------------------------------------------
(* flushPending *)

(* The queue is taken whole, and what each collection holds by now is sent. *)
Flush ==
  /\ Len(flights) < MaxFlights
  /\ flights' = IF pending = {} THEN flights ELSE
       Append(flights, [own |-> TRUE, data |-> [c \in pending |-> local[c]],
                        st |-> [c \in pending |-> "sent"]])
  /\ pending' = {}
  /\ UNCHANGED <<local, server, migrated, phase, listening, posts, pulls,
                 edits, mounts, losses, ghosts>>

DebounceFires == debounce /\ debounce' = FALSE /\ UNCHANGED retry /\ Flush

RetryFires == retry /\ retry' = FALSE /\ UNCHANGED debounce /\ Flush

Sent(i, c) ==
  /\ i \in DOMAIN flights /\ c \in DOMAIN flights[i].st
  /\ flights[i].st[c] = "sent"

Settle(i, c, how) == flights' = [flights EXCEPT ![i].st[c] = how]

(* Mutation: a row that exists is kept. *)
Handle_insertOnly(i, c) ==
  /\ server' = [server EXCEPT ![c] = IF @ = 0 THEN flights[i].data[c] ELSE @]
  /\ stored' = [stored EXCEPT ![c] = @ \cup {flights[i].data[c]}]
  /\ reordered' = (reordered \/ \E j \in 1..(i - 1) : Sent(j, c))

(* PUT /api/storage/[collection]: setCollection replaces the row. *)
Handle(i, c) ==
  /\ server' = [server EXCEPT ![c] = flights[i].data[c]]
  /\ stored' = [stored EXCEPT ![c] = @ \cup {flights[i].data[c]}]
  /\ reordered' = (reordered \/ \E j \in 1..(i - 1) : Sent(j, c))

PutAnswered(i, c) ==
  /\ Sent(i, c) /\ Handle(i, c) /\ Settle(i, c, "ok")
  /\ acked' = IF flights[i].data[c] > acked[c]
              THEN [acked EXCEPT ![c] = flights[i].data[c]] ELSE acked
  /\ UNCHANGED <<local, migrated, hook, posts, pulls, edits, mounts, losses,
                 heard, found>>

PutAnswerLost(i, c) ==
  /\ Sent(i, c) /\ Lose /\ Handle(i, c) /\ Settle(i, c, "failed")
  /\ UNCHANGED <<local, migrated, hook, posts, pulls, edits, mounts, heard,
                 acked, found>>

PutLost(i, c) ==
  /\ Sent(i, c) /\ Lose /\ Settle(i, c, "failed")
  /\ UNCHANGED <<local, server, migrated, hook, posts, pulls, edits, mounts, ghosts>>

Drop(i) == SubSeq(flights, 1, i - 1) \o SubSeq(flights, i + 1, Len(flights))

Landed(i) ==
  /\ i \in DOMAIN flights
  /\ \A c \in DOMAIN flights[i].st : flights[i].st[c] # "sent"

FailedCols(i) == {c \in DOMAIN flights[i].st : flights[i].st[c] = "failed"}

(* Mutation: what failed is not put back. *)
FlushDone_forgets(i) ==
  /\ Landed(i) /\ flights[i].own
  /\ flights' = Drop(i)
  /\ retry' = (retry \/ FailedCols(i) # {})
  /\ UNCHANGED <<local, server, migrated, phase, listening, pending, debounce,
                 posts, pulls, edits, mounts, losses, heard, acked, stored,
                 found, reordered>>

(* All PUTs of a push have settled: what failed goes back into the queue    *)
(* and one retry timer is armed.                                            *)
FlushDone(i) ==
  /\ Landed(i) /\ flights[i].own
  /\ flights' = Drop(i)
  /\ pending' = pending \cup FailedCols(i)
  /\ retry' = (retry \/ FailedCols(i) # {})
  /\ UNCHANGED <<local, server, migrated, phase, listening, debounce, posts,
                 pulls, edits, mounts, losses, heard, acked, stored, found,
                 reordered>>

(* Mutation: a push that fails after the teardown arms its retry timer. *)
FlushDoneLate_arms(i) ==
  /\ Landed(i) /\ ~flights[i].own
  /\ flights' = Drop(i)
  /\ retry' = (retry \/ FailedCols(i) # {})
  /\ UNCHANGED <<local, server, migrated, phase, listening, pending, debounce,
                 posts, pulls, edits, mounts, losses, heard, acked, stored,
                 found, reordered>>

(* The instance is gone: what failed goes back into a queue nothing reads.  *)
FlushDoneLate(i) ==
  /\ Landed(i) /\ ~flights[i].own
  /\ flights' = Drop(i)
  /\ UNCHANGED <<local, server, migrated, hook, posts, pulls, edits, mounts,
                 losses, heard, acked, stored, found, reordered>>

-----------------------------------------------------------------------------
(* init: configuration, migration, pull *)

(* GET /api/storage/config says server mode: the listener is attached, and  *)
(* a first migration is posted when localStorage holds anything.            *)
ConfigAnswered ==
  /\ phase = "config" /\ listening' = TRUE /\ found' = local
  /\ IF migrated \/ local = Absent
     THEN phase' = "pull" /\ migrated' = TRUE /\ UNCHANGED posts
     ELSE /\ phase' = "migrate" /\ UNCHANGED migrated
          /\ posts' = [posts EXCEPT !.own = local]
  /\ UNCHANGED <<local, server, pending, debounce, retry, flights, pulls,
                 edits, mounts, losses, heard, acked, stored, reordered>>

(* Unreachable: the hook stays in local mode. *)
ConfigLost ==
  /\ phase = "config" /\ Lose /\ phase' = "ready"
  /\ UNCHANGED <<local, server, migrated, listening, pending, debounce, retry,
                 flights, posts, pulls, edits, mounts, ghosts>>

Posted(w) == posts[w] # None /\ posts' = [posts EXCEPT ![w] = None]
AfterPost(w) == phase' = IF w = "own" THEN "pull" ELSE phase

(* POST /api/storage/migrate: mergeData replaces every collection sent. *)
Migrated(w) ==
  /\ Posted(w) /\ AfterPost(w) /\ migrated' = TRUE
  /\ server' = [c \in Cols |-> IF posts[w][c] = 0 THEN server[c] ELSE posts[w][c]]
  /\ stored' = [c \in Cols |-> stored[c] \cup {server'[c]}]
  /\ reordered' = (reordered \/ \E c \in Cols : server'[c] < server[c])
  /\ UNCHANGED <<local, listening, pending, debounce, retry, flights, pulls,
                 edits, mounts, losses, heard, acked, found>>

MigrationLost(w) ==
  /\ Posted(w) /\ AfterPost(w) /\ Lose
  /\ UNCHANGED <<local, server, migrated, listening, pending, debounce, retry,
                 flights, pulls, edits, mounts, ghosts>>

(* Mutation: the pull does not wait for the migration. *)
PullAsked_early ==
  /\ phase \in {"migrate", "pull"} /\ phase' = "pulling"
  /\ pulls' = [pulls EXCEPT !.own = server]
  /\ posts' = [posts EXCEPT !.own = None, !.stray = posts.own]
  /\ UNCHANGED <<local, server, migrated, listening, pending, debounce, retry,
                 flights, edits, mounts, losses, ghosts>>

(* GET /api/storage is handled: getAllData reads the rows. *)
PullAsked ==
  /\ phase = "pull" /\ phase' = "pulling"
  /\ pulls' = [pulls EXCEPT !.own = server]
  /\ UNCHANGED <<local, server, migrated, listening, pending, debounce, retry,
                 flights, posts, edits, mounts, losses, ghosts>>

Pulled(w) == pulls[w] # None /\ pulls' = [pulls EXCEPT ![w] = None]
AfterPull(w) == phase' = IF w = "own" THEN "ready" ELSE phase

(* The answer overwrites every collection it has, mounted or not. *)
PullAnswered(w) ==
  /\ Pulled(w) /\ AfterPull(w)
  /\ local' = [c \in Cols |-> IF pulls[w][c] = 0 THEN local[c] ELSE pulls[w][c]]
  /\ heard' = [c \in Cols |-> IF pulls[w][c] = 0 THEN heard[c] ELSE 0]
  /\ UNCHANGED <<server, migrated, listening, pending, debounce, retry, flights,
                 posts, edits, mounts, losses, acked, stored, found, reordered>>

PullLost(w) ==
  /\ Pulled(w) /\ AfterPull(w) /\ Lose
  /\ UNCHANGED <<local, server, migrated, listening, pending, debounce, retry,
                 flights, posts, edits, mounts, ghosts>>

-----------------------------------------------------------------------------
(* Mounting *)

(* Both timers are cleared, the listener goes, fetches under way are nobody's. *)
Unmount ==
  /\ Mounted /\ (posts.own = None \/ posts.stray = None)
  /\ pulls.own = None \/ pulls.stray = None
  /\ phase' = "gone" /\ listening' = FALSE
  /\ pending' = {} /\ debounce' = FALSE /\ retry' = FALSE
  /\ flights' = [i \in DOMAIN flights |-> [flights[i] EXCEPT !.own = FALSE]]
  /\ posts' = IF posts.own = None THEN posts ELSE [own |-> None, stray |-> posts.own]
  /\ pulls' = IF pulls.own = None THEN pulls ELSE [own |-> None, stray |-> pulls.own]
  /\ heard' = Absent
  /\ UNCHANGED <<local, server, migrated, edits, mounts, losses, acked, stored,
                 found, reordered>>

(* A new instance, with refs of its own. *)
Mount ==
  /\ phase = "gone" /\ mounts < MaxMounts /\ mounts' = mounts + 1
  /\ phase' = "config"
  /\ UNCHANGED <<local, server, migrated, listening, pending, debounce, retry,
                 flights, posts, pulls, edits, losses, ghosts>>

Next ==
  \/ \E c \in Cols : Edit(c)
  \/ DebounceFires
  \/ RetryFires
  \/ \E i \in 1..MaxFlights, c \in Cols : PutAnswered(i, c)
  \/ \E i \in 1..MaxFlights, c \in Cols : PutAnswerLost(i, c)
  \/ \E i \in 1..MaxFlights, c \in Cols : PutLost(i, c)
  \/ \E i \in 1..MaxFlights : FlushDone(i)
  \/ \E i \in 1..MaxFlights : FlushDoneLate(i)
  \/ ConfigAnswered
  \/ ConfigLost
  \/ \E w \in {"own", "stray"} : Migrated(w)
  \/ \E w \in {"own", "stray"} : MigrationLost(w)
  \/ PullAsked
  \/ \E w \in {"own", "stray"} : PullAnswered(w)
  \/ \E w \in {"own", "stray"} : PullLost(w)
  \/ Unmount
  \/ Mount

Spec == Init /\ [][Next]_vars

(* Timers fire, every fetch is answered or fails, and the code after it     *)
(* runs; nobody has to edit, and nobody has to mount the hook again.        *)
Fairness ==
  /\ WF_vars(DebounceFires) /\ WF_vars(RetryFires)
  /\ WF_vars(\E i \in 1..MaxFlights, c \in Cols : PutAnswered(i, c))
  /\ WF_vars(\E i \in 1..MaxFlights : FlushDone(i) \/ FlushDoneLate(i))
  /\ WF_vars(ConfigAnswered \/ PullAsked)
  /\ WF_vars(\E w \in {"own", "stray"} : Migrated(w) \/ PullAnswered(w))

FairSpec == Spec /\ Fairness

-----------------------------------------------------------------------------
(* Properties *)

Versions == [Cols -> 0..(MaxEdits + 1)]

(* Every variable stays within its type, and a hook that is not mounted has *)
(* no listener, no queue and no timer that nothing could clear.             *)
SyncTypeOK ==
  /\ local \in Versions /\ server \in Versions /\ heard \in Versions
  /\ phase \in {"config", "migrate", "pull", "pulling", "ready", "gone"}
  /\ pending \subseteq Cols
  /\ Mounted \/ (pending = {} /\ ~listening /\ ~debounce /\ ~retry)
  /\ \A i \in DOMAIN flights : DOMAIN flights[i].st \subseteq Cols

(* An edit the hook has heard is never dropped: until a push carrying it or *)
(* something newer is answered, its collection is queued with a timer that  *)
(* will take it, also when a failing push overlaps a new edit, or it is in  *)
(* a push that has not been settled yet.  From that answer on the server    *)
(* holds what the browser holds, unless writes were handled out of order.   *)
NoEditLost ==
  \A c \in Cols : heard[c] # 0 =>
    \/ heard[c] <= acked[c] /\ (reordered \/ server[c] = local[c])
    \/ c \in pending /\ (debounce \/ retry)
    \/ \E i \in DOMAIN flights :
          /\ flights[i].own /\ c \in DOMAIN flights[i].st
          /\ flights[i].st[c] # "ok"

(* Migration first, then pull: on the first mount of a browser the data it  *)
(* already held is not overwritten before the server has it, unless a       *)
(* request was lost.                                                        *)
FoundIsKept ==
  [][\A c \in Cols :
       /\ mounts = 1 /\ losses = 0
       /\ local[c] = found[c] /\ local'[c] < local[c]
       => local[c] \in stored[c]]_vars

(* Edits reach the server: while the hook stays mounted and requests stop   *)
(* failing, server and browser end up with the same content, provided the  *)
(* writes of one collection were handled in the order they were sent in.    *)
Converges ==
  \A c \in Cols : <>[](heard[c] = 0 \/ reordered \/ server[c] = local[c])

=============================================================================
