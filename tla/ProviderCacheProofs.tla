------------------------ MODULE ProviderCacheProofs ------------------------
(* Safety of the provider cache for every number of calls, removals and    *)
(* lost tunnels, and for every set of slots and settings.                  *)
EXTENDS ProviderCache, FiniteSetTheorems, TLAPS

Optional == Calls \cup {None}
Flying   == {"replacing", "opening", "connecting"}

CacheTypeOK ==
  /\ cache \in [Caches -> Optional] /\ idle \in [Caches -> BOOLEAN] /\ sweepTimer \in BOOLEAN
  /\ prov \in [Calls -> {"none", "up", "ending", "down"}] /\ via \in [Calls -> Optional]
  /\ tun \in [Calls -> {"none", "opening", "open", "closed", "dropped"}]
  /\ activeTunnels \in [Places -> Optional]
  /\ pc \in [Calls -> Flying \cup {"idle", "done", "failed"}]
  /\ slot \in [Calls -> Slots] /\ config \in [Calls -> Configs]
  /\ preexisted \in [Calls -> BOOLEAN]
  /\ got \in [Calls -> Optional] /\ victim \in [Calls -> Optional]
  /\ jpc \in [Janitors -> {"idle", "looping", "awaiting", "done"}]
  /\ jslot \in [Janitors -> Caches \cup {"none"}] /\ jvictim \in [Janitors -> Optional]
  /\ due \subseteq Caches /\ drops \in 0 .. MaxDrops
  /\ raced \subseteq Caches /\ crossed \subseteq Places

(* What everybody names: a cached provider was opened for its slot, a      *)
(* pooled tunnel is none of a one-shot call and stands under its own key,  *)
(* and a provider reaches its database through a tunnel to its place.      *)
Named ==
  /\ \A s \in Caches : cache[s] # None => slot[cache[s]] = s
  /\ \A f \in Places : activeTunnels[f] # None =>
       slot[activeTunnels[f]] # "one-shot" /\ Place(activeTunnels[f]) = f
  /\ \A c \in Calls : via[c] # None =>
       Place(via[c]) = Place(c) /\ (via[c] = c \/ slot[via[c]] # "one-shot")
  /\ \A c \in Calls : prov[c] # "none" => pc[c] = "done"
  /\ \A c \in Calls : pc[c] = "replacing" => slot[c] \in Caches /\ victim[c] \in Calls
  /\ \A j \in Janitors : jpc[j] = "awaiting" => jslot[j] \in Caches /\ jvictim[j] \in Calls

-----------------------------------------------------------------------------
(* Types and names, whatever overlaps *)

(* A call's settings name a place. *)
LEMMA PlaceType == ASSUME CacheTypeOK, NEW c \in Calls PROVE Place(c) \in Places
BY DEF CacheTypeOK, Place, Places

LEMMA SlotType == ASSUME CacheTypeOK, NEW c \in Calls, slot[c] # "one-shot" PROVE slot[c] \in Caches
BY DEF CacheTypeOK, Caches

(* What the miss of a cache leads to. *)
LEMMA ProceedType ==
  ASSUME CacheTypeOK, NEW c \in Calls, Proceed(c)
  PROVE  /\ pc' \in [Calls -> Flying \cup {"idle", "done", "failed"}]
         /\ via' \in [Calls -> Optional] /\ preexisted' \in [Calls -> BOOLEAN]
         /\ tun' \in [Calls -> {"none", "opening", "open", "closed", "dropped"}]
         /\ got' \in [Calls -> Optional]
<1>1. Place(c) \in Places
  BY PlaceType
<1>2. Borrowed(c) \subseteq Calls
  BY DEF Borrowed, CacheTypeOK, Optional, Caches
<1>3. CASE Refused(c)
  BY <1>3 DEF Proceed, Goto, CacheTypeOK, Flying
<1>4. CASE ~Refused(c) /\ Borrowed(c) # {}
  <2>1. PICK o \in Borrowed(c) : Return(c, o)
    BY <1>4 DEF Proceed
  <2>2. UNCHANGED <<via, preexisted, tun>>
    BY <1>4 DEF Proceed
  <2>3. o \in Optional
    BY <1>2 DEF Optional
  <2>4. pc' \in [Calls -> Flying \cup {"idle", "done", "failed"}] /\ got' \in [Calls -> Optional]
    BY <2>1, <2>3 DEF Return, Goto, CacheTypeOK
  <2> QED BY <2>2, <2>4 DEF CacheTypeOK
<1>5. CASE ~Refused(c) /\ Borrowed(c) = {}
  <2>1. /\ pc' \in {[pc EXCEPT ![c] = "connecting"], [pc EXCEPT ![c] = "opening"]}
        /\ got' = got
        /\ tun' = tun \/ tun' = [tun EXCEPT ![c] = "opening"]
        /\ preexisted' = preexisted \/ preexisted' = [preexisted EXCEPT ![c] = TRUE]
        /\ via' = via \/ via' = [via EXCEPT ![c] = IF Tunnelled THEN activeTunnels[Place(c)] ELSE None]
    BY <1>5 DEF Proceed, Goto
  <2>2. (IF Tunnelled THEN activeTunnels[Place(c)] ELSE None) \in Optional
    BY <1>1 DEF CacheTypeOK, Optional
  <2>3. pc' \in [Calls -> Flying \cup {"idle", "done", "failed"}]
    BY <2>1 DEF CacheTypeOK, Flying
  <2>4. via' \in [Calls -> Optional] /\ preexisted' \in [Calls -> BOOLEAN]
    <3>1. \A o \in Optional : [via EXCEPT ![c] = o] \in [Calls -> Optional]
      BY DEF CacheTypeOK
    <3>2. via \in [Calls -> Optional] /\ preexisted \in [Calls -> BOOLEAN]
      BY DEF CacheTypeOK
    <3>3. [preexisted EXCEPT ![c] = TRUE] \in [Calls -> BOOLEAN]
      BY <3>2
    <3> QED BY <2>1, <2>2, <3>1, <3>2, <3>3
  <2>5. tun' \in [Calls -> {"none", "opening", "open", "closed", "dropped"}] /\ got' \in [Calls -> Optional]
    BY <2>1 DEF CacheTypeOK
  <2> QED BY <2>3, <2>4, <2>5
<1> QED BY <1>3, <1>4, <1>5

LEMMA CleanupType ==
  ASSUME CacheTypeOK, NEW t \in Calls, NEW how \in {"closed", "dropped"}, Cleanup(t, how)
  PROVE  /\ tun' \in [Calls -> {"none", "opening", "open", "closed", "dropped"}]
         /\ activeTunnels' \in [Places -> Optional]
BY PlaceType DEF Cleanup, CacheTypeOK, Optional

LEMMA CloseType ==
  ASSUME CacheTypeOK, CloseSSHTunnel
  PROVE  /\ tun' \in [Calls -> {"none", "opening", "open", "closed", "dropped"}]
         /\ activeTunnels' \in [Places -> Optional]
BY DEF CloseSSHTunnel, CacheTypeOK, Optional

LEMMA DisconnectType ==
  ASSUME CacheTypeOK, NEW p, Disconnect(p)
  PROVE  prov' \in [Calls -> {"none", "up", "ending", "down"}]
BY DEF Disconnect, CacheTypeOK

LEMMA TypeInit == Init => CacheTypeOK
<1> SUFFICES ASSUME Init PROVE CacheTypeOK
  OBVIOUS
<1>1. 0 \in 0 .. MaxDrops /\ {} \subseteq Caches
  BY CacheAssumption
<1>2. /\ cache \in [Caches -> Optional] /\ idle \in [Caches -> BOOLEAN] /\ sweepTimer \in BOOLEAN
      /\ activeTunnels \in [Places -> Optional] /\ due \subseteq Caches
      /\ raced \subseteq Caches /\ crossed \subseteq Places
  BY <1>1 DEF Init, Optional
<1>3. /\ prov \in [Calls -> {"none", "up", "ending", "down"}] /\ via \in [Calls -> Optional]
      /\ tun \in [Calls -> {"none", "opening", "open", "closed", "dropped"}]
      /\ pc \in [Calls -> Flying \cup {"idle", "done", "failed"}]
  BY DEF Init, Optional
<1>4. /\ preexisted \in [Calls -> BOOLEAN]
      /\ got \in [Calls -> Optional] /\ victim \in [Calls -> Optional]
  BY DEF Init, Optional
<1>5. /\ jpc \in [Janitors -> {"idle", "looping", "awaiting", "done"}]
      /\ jslot \in [Janitors -> Caches \cup {"none"}] /\ jvictim \in [Janitors -> Optional]
  BY DEF Init, Optional
<1> QED BY <1>1, <1>2, <1>3, <1>4, <1>5 DEF Init, CacheTypeOK

LEMMA TypeStep == CacheTypeOK /\ [Next]_vars => CacheTypeOK'
<1> SUFFICES ASSUME CacheTypeOK, [Next]_vars PROVE CacheTypeOK'
  OBVIOUS
<1> USE DEF entries, handles, tunnels, call, janitor, Watch, Goto, JGoto
<1>1. ASSUME NEW c \in Calls, CallStep(c) PROVE CacheTypeOK'
  <2>1. CASE Hit(c)
    BY <2>1 DEF Hit, Return, CacheTypeOK, Flying
  <2>2. CASE Replace(c)
    BY <2>2, DisconnectType DEF Replace, CacheTypeOK, Flying
  <2>3. CASE Replaced(c)
    BY <2>3, ProceedType DEF Replaced, CacheTypeOK, Optional
  <2>4. CASE Miss(c)
    BY <2>4, ProceedType DEF Miss, CacheTypeOK
  <2>5. CASE OneShot(c)
    BY <2>5 DEF OneShot, CacheTypeOK, Flying
  <2>6. CASE TunnelOpens(c)
    BY <2>6, PlaceType DEF TunnelOpens, CacheTypeOK, Flying, Optional
  <2>7. CASE TunnelFails(c)
    BY <2>7, CleanupType DEF TunnelFails, CacheTypeOK
  <2>8. CASE Connected(c)
    BY <2>8 DEF Connected, StartIdleSweep, Return, CacheTypeOK, Optional
  <2>9. CASE ConnectFails(c)
    <3>1. via[c] = None \/ via[c] \in Calls
      BY DEF CacheTypeOK, Optional
    <3> QED BY <2>9, <3>1, CleanupType DEF ConnectFails, CacheTypeOK
  <2>10. CASE CreateFails(c)
    BY <2>10 DEF CreateFails, CacheTypeOK
  <2>11. CASE OneShotEnds(c)
    BY <2>11, CleanupType DEF OneShotEnds, CacheTypeOK
  <2> QED BY <1>1, <2>1, <2>2, <2>3, <2>4, <2>5, <2>6, <2>7, <2>8, <2>9, <2>10, <2>11 DEF CallStep
<1>2. ASSUME NEW c \in Calls, Disconnected(c) PROVE CacheTypeOK'
  BY <1>2 DEF Disconnected, CacheTypeOK
<1>3. ASSUME NEW c \in Calls, TunnelDrops(c) PROVE CacheTypeOK'
  <2>1. drops' \in 0 .. MaxDrops
    BY <1>3, CacheAssumption DEF TunnelDrops, CacheTypeOK
  <2> QED BY <1>3, <2>1, CleanupType DEF TunnelDrops, CacheTypeOK
<1>4. ASSUME NEW s \in Caches, GoesIdle(s) PROVE CacheTypeOK'
  BY <1>4 DEF GoesIdle, CacheTypeOK
<1>5. CASE SweepStep
  <2>0. Sweep \in Janitors
    BY DEF Janitors
  <2>1. CASE StartSweep
    BY <2>1 DEF StartSweep, CacheTypeOK
  <2>2. ASSUME NEW s \in Caches, SweepVisits(s) PROVE CacheTypeOK'
    BY <2>2, <2>0, DisconnectType DEF SweepVisits, CacheTypeOK
  <2>3. CASE SweepEvicts
    BY <2>3, CloseType DEF SweepEvicts, Delete, CacheTypeOK, Optional
  <2>4. CASE EndSweep
    BY <2>4 DEF EndSweep, CacheTypeOK
  <2> QED BY <1>5, <2>1, <2>2, <2>3, <2>4 DEF SweepStep
<1>6. ASSUME NEW j \in Removals, RemoveStep(j) PROVE CacheTypeOK'
  <2>0. j \in Janitors
    BY DEF Janitors
  <2>1. ASSUME NEW s \in Caches, RemoveVisits(j, s) PROVE CacheTypeOK'
    BY <2>1, <2>0, DisconnectType DEF RemoveVisits, CacheTypeOK
  <2>2. CASE RemoveDeletes(j)
    BY <2>2 DEF RemoveDeletes, Delete, CacheTypeOK, Optional
  <2>3. CASE RemoveEnds(j)
    BY <2>3, CloseType DEF RemoveEnds, CacheTypeOK
  <2> QED BY <1>6, <2>1, <2>2, <2>3 DEF RemoveStep
<1>7. CASE UNCHANGED vars
  BY <1>7 DEF vars, CacheTypeOK
<1> QED BY <1>1, <1>2, <1>3, <1>4, <1>5, <1>6, <1>7 DEF Next

(* No call changes its slot or its settings. *)
LEMMA CallIsFixed == ASSUME [Next]_vars PROVE UNCHANGED <<slot, config>>
<1> USE DEF entries, handles, tunnels, call, janitor
<1>1. ASSUME NEW c \in Calls, CallStep(c) PROVE UNCHANGED <<slot, config>>
  BY <1>1 DEF CallStep, Hit, Replace, Replaced, Miss, OneShot, TunnelOpens, TunnelFails, Connected,
              ConnectFails, CreateFails, OneShotEnds
<1>2. ASSUME NEW c \in Calls, Disconnected(c) \/ TunnelDrops(c) PROVE UNCHANGED <<slot, config>>
  BY <1>2 DEF Disconnected, TunnelDrops
<1>3. ASSUME NEW s \in Caches, GoesIdle(s) PROVE UNCHANGED <<slot, config>>
  BY <1>3 DEF GoesIdle
<1>4. CASE SweepStep
  BY <1>4 DEF SweepStep, StartSweep, SweepVisits, SweepEvicts, EndSweep
<1>5. ASSUME NEW j \in Removals, RemoveStep(j) PROVE UNCHANGED <<slot, config>>
  BY <1>5 DEF RemoveStep, RemoveVisits, RemoveDeletes, RemoveEnds
<1> QED BY <1>1, <1>2, <1>3, <1>4, <1>5 DEF Next, vars

NamedInv == CacheTypeOK /\ Named /\ Isolated

LEMMA NamedInit == Init => NamedInv
<1> SUFFICES ASSUME Init PROVE NamedInv
  OBVIOUS
<1>1. \A c \in Calls : via[c] = None /\ prov[c] = "none" /\ pc[c] = "idle" /\ got[c] = None
  BY DEF Init
<1>2. (\A s \in Caches : cache[s] = None) /\ (\A f \in Places : activeTunnels[f] = None)
      /\ (\A j \in Janitors : jpc[j] = "idle")
  BY DEF Init
<1> QED BY <1>1, <1>2, TypeInit DEF NamedInv, Named, Isolated

(* The parts of Named, by the variables they speak of. *)
CachedNamed == \A s \in Caches : cache[s] # None => slot[cache[s]] = s
PooledNamed == \A f \in Places : activeTunnels[f] # None =>
                 slot[activeTunnels[f]] # "one-shot" /\ Place(activeTunnels[f]) = f
ViaNamed    == \A c \in Calls : via[c] # None =>
                 Place(via[c]) = Place(c) /\ (via[c] = c \/ slot[via[c]] # "one-shot")
UpIsDone    == \A c \in Calls : prov[c] # "none" => pc[c] = "done"
Awaited     == /\ \A c \in Calls : pc[c] = "replacing" => slot[c] \in Caches /\ victim[c] \in Calls
               /\ \A j \in Janitors : jpc[j] = "awaiting" => jslot[j] \in Caches /\ jvictim[j] \in Calls

LEMMA NamedParts == Named <=> CachedNamed /\ PooledNamed /\ ViaNamed /\ UpIsDone /\ Awaited
BY DEF Named, CachedNamed, PooledNamed, ViaNamed, UpIsDone, Awaited

(* Where a miss leads: no provider is up before its call is done, what is  *)
(* returned is a borrow, and the tunnel taken is the one pooled.           *)
LEMMA ProceedSteps ==
  ASSUME NamedInv, NEW c \in Calls, Proceed(c), UNCHANGED <<slot, config>>
  PROVE  /\ \A d \in Calls \ {c} : pc'[d] = pc[d] /\ via'[d] = via[d] /\ got'[d] = got[d]
                                   /\ tun'[d] = tun[d] /\ preexisted'[d] = preexisted[d]
         /\ \/ /\ pc'[c] = "failed" /\ got'[c] = got[c] /\ UNCHANGED <<via, preexisted, tun>>
            \/ /\ pc'[c] = "done" /\ got'[c] \in Borrowed(c) /\ UNCHANGED <<via, preexisted, tun>>
            \/ /\ pc'[c] = "connecting" /\ ~Tunnelled /\ UNCHANGED <<got, via, preexisted, tun>>
            \/ /\ pc'[c] = "connecting" /\ UNCHANGED <<got, tun>> /\ activeTunnels[Place(c)] # None
               /\ via'[c] = activeTunnels[Place(c)] /\ preexisted'[c] = TRUE
            \/ /\ pc'[c] = "opening" /\ UNCHANGED <<got, via, preexisted>>
               /\ activeTunnels[Place(c)] = None /\ tun'[c] = "opening"
<1>0. CacheTypeOK
  BY DEF NamedInv
<1>1. CASE Refused(c)
  BY <1>0, <1>1 DEF Proceed, Goto, CacheTypeOK
<1>2. CASE ~Refused(c) /\ Borrowed(c) # {}
  BY <1>0, <1>2 DEF Proceed, Return, Goto, CacheTypeOK
<1>3. CASE ~Refused(c) /\ Borrowed(c) = {}
  BY <1>0, <1>3 DEF Proceed, Goto, CacheTypeOK
<1> QED BY <1>1, <1>2, <1>3

(* A borrow is of the editor's handle on the same place, for a call with   *)
(* no credential of the agent's own.                                       *)
LEMMA BorrowIsNamed ==
  ASSUME NamedInv, NEW c \in Calls, NEW p \in Borrowed(c)
  PROVE  /\ p \in Calls /\ slot[p] = "shared" /\ Place(p) = Place(c) /\ SingleWriter
         /\ slot[c] = "agent-operations" /\ config[c].agent = "none"
<1>1. "shared" \in Caches /\ p = cache["shared"] /\ p # None /\ Place(p) = Place(c) /\ MayBorrow(c)
      /\ SingleWriter
  BY DEF Borrowed, Caches
<1> QED BY <1>1 DEF NamedInv, CacheTypeOK, Optional, Named, MayBorrow

(* What keeps each part. *)
LEMMA NamesKept ==
  ASSUME NamedInv, CacheTypeOK', UNCHANGED <<slot, config>>
  PROVE  /\ (\A s \in Caches : cache'[s] \in {cache[s], None} \/ slot[cache'[s]] = s) => CachedNamed'
         /\ (\A f \in Places : \/ activeTunnels'[f] \in {activeTunnels[f], None}
                               \/ slot[activeTunnels'[f]] # "one-shot" /\ Place(activeTunnels'[f]) = f)
              => PooledNamed'
         /\ (\A c \in Calls : \/ via'[c] \in {via[c], c}
                              \/ Place(via'[c]) = Place(c) /\ slot[via'[c]] # "one-shot")
              => ViaNamed'
         /\ (\A c \in Calls : /\ pc[c] = "done" => pc'[c] = "done"
                              /\ prov'[c] # "none" => prov[c] # "none" \/ pc'[c] = "done")
              => UpIsDone'
<1>1. CachedNamed /\ PooledNamed /\ ViaNamed /\ UpIsDone
  BY NamedParts DEF NamedInv
<1>2. \A c : Place(c)' = Place(c)
  BY DEF Place
<1>3. ASSUME \A s \in Caches : cache'[s] \in {cache[s], None} \/ slot[cache'[s]] = s
      PROVE  CachedNamed'
  BY <1>1, <1>3 DEF CachedNamed
<1>4. ASSUME \A f \in Places : \/ activeTunnels'[f] \in {activeTunnels[f], None}
                               \/ slot[activeTunnels'[f]] # "one-shot" /\ Place(activeTunnels'[f]) = f
      PROVE  PooledNamed'
  BY <1>1, <1>2, <1>4 DEF PooledNamed
<1>5. ASSUME \A c \in Calls : \/ via'[c] \in {via[c], c}
                              \/ Place(via'[c]) = Place(c) /\ slot[via'[c]] # "one-shot"
      PROVE  ViaNamed'
  BY <1>1, <1>2, <1>5 DEF ViaNamed
<1>6. ASSUME \A c \in Calls : /\ pc[c] = "done" => pc'[c] = "done"
                              /\ prov'[c] # "none" => prov[c] # "none" \/ pc'[c] = "done"
      PROVE  UpIsDone'
  BY <1>1, <1>6 DEF UpIsDone
<1> QED BY <1>3, <1>4, <1>5, <1>6

LEMMA AwaitsKept ==
  ASSUME NamedInv, CacheTypeOK', UNCHANGED <<slot, config>>,
         \A c \in Calls : pc'[c] = "replacing" =>
           \/ pc[c] = "replacing" /\ victim'[c] = victim[c]
           \/ slot[c] \in Caches /\ victim'[c] \in Calls,
         \A j \in Janitors : jpc'[j] = "awaiting" =>
           \/ jpc[j] = "awaiting" /\ jslot'[j] = jslot[j] /\ jvictim'[j] = jvictim[j]
           \/ jslot'[j] \in Caches /\ jvictim'[j] \in Calls
  PROVE  Awaited'
BY NamedParts DEF NamedInv, Awaited

LEMMA IsolatedKept ==
  ASSUME NamedInv, UNCHANGED <<slot, config>>,
         \A c \in Calls : \/ got'[c] = got[c]
                          \/ got'[c] \in Borrowed(c)
                          \/ slot[got'[c]] = slot[c] /\ config[got'[c]] = config[c]
  PROVE  Isolated'
<1>1. \A c : Place(c)' = Place(c)
  BY DEF Place
<1> QED BY <1>1, BorrowIsNamed DEF NamedInv, Isolated

LEMMA NamedStep == NamedInv /\ [Next]_vars => NamedInv'
<1> SUFFICES ASSUME NamedInv, [Next]_vars
             PROVE  (CachedNamed /\ PooledNamed /\ ViaNamed /\ UpIsDone)' /\ Awaited' /\ Isolated'
  <2>1. CachedNamed' /\ PooledNamed' /\ ViaNamed' /\ UpIsDone' /\ Awaited' => Named'
    BY DEF Named, CachedNamed, PooledNamed, ViaNamed, UpIsDone, Awaited
  <2> QED BY <2>1, TypeStep DEF NamedInv
<1>0. /\ CacheTypeOK /\ CacheTypeOK' /\ UNCHANGED <<slot, config>> /\ None \notin Calls
      /\ CachedNamed /\ PooledNamed /\ ViaNamed /\ UpIsDone /\ Awaited
  BY CallIsFixed, TypeStep, CacheAssumption, NamedParts DEF NamedInv
<1>p. \A c \in Calls : Place(c) \in Places
  BY <1>0, PlaceType
<1> USE DEF entries, handles, tunnels, call, janitor, Goto, JGoto
<1>1. ASSUME NEW c \in Calls, CallStep(c)
      PROVE  (CachedNamed /\ PooledNamed /\ ViaNamed /\ UpIsDone)' /\ Awaited' /\ Isolated'
  <2>1. CASE Hit(c)
    <3>1. /\ UNCHANGED <<cache, activeTunnels, via, prov, victim, jpc, jslot, jvictim>>
          /\ pc[c] = "idle" /\ slot[c] \in Caches
          /\ \A d \in Calls : pc'[d] = (IF d = c THEN "done" ELSE pc[d])
          /\ \A d \in Calls : got'[d] = (IF d = c THEN cache[slot[c]] ELSE got[d])
          /\ cache[slot[c]] # None /\ config[cache[slot[c]]] = config[c]
      BY <1>0, <2>1 DEF Hit, Return, ConfigKey, CacheTypeOK
    <3>2. slot[cache[slot[c]]] = slot[c]
      BY <1>0, <3>1 DEF CachedNamed
    <3>3. (CachedNamed /\ PooledNamed /\ ViaNamed /\ UpIsDone)'
      BY <1>0, <3>1, NamesKept
    <3>4. Awaited'
      BY <1>0, <3>1, AwaitsKept
    <3>5. Isolated'
      BY <1>0, <3>1, <3>2, IsolatedKept
    <3> QED BY <3>3, <3>4, <3>5
  <2>2. CASE Replace(c)
    <3>1. /\ UNCHANGED <<cache, activeTunnels, via, got, jpc, jslot, jvictim>>
          /\ pc[c] = "idle" /\ slot[c] \in Caches /\ victim'[c] \in Calls
          /\ \A d \in Calls : pc'[d] = (IF d = c THEN "replacing" ELSE pc[d])
          /\ \A d \in Calls : d # c => victim'[d] = victim[d]
          /\ \A d \in Calls : prov[d] = "none" => prov'[d] = "none"
      BY <1>0, <2>2 DEF Replace, Disconnect, CacheTypeOK, Optional
    <3>3. (CachedNamed /\ PooledNamed /\ ViaNamed /\ UpIsDone)'
      BY <1>0, <3>1, NamesKept
    <3>4. Awaited'
      BY <1>0, <3>1, AwaitsKept
    <3>5. Isolated'
      BY <1>0, <3>1, IsolatedKept
    <3> QED BY <3>3, <3>4, <3>5
  <2>3. CASE Replaced(c) \/ Miss(c)
    <3>1. /\ UNCHANGED <<activeTunnels, prov, victim, jpc, jslot, jvictim>> /\ Proceed(c)
          /\ \A s \in Caches : cache'[s] \in {cache[s], None}
          /\ pc[c] # "done"
      BY <1>0, <2>3 DEF Replaced, Miss, CacheTypeOK
    <3>2. /\ \A d \in Calls \ {c} : pc'[d] = pc[d] /\ via'[d] = via[d] /\ got'[d] = got[d]
          /\ pc'[c] # "replacing"
          /\ got'[c] = got[c] \/ got'[c] \in Borrowed(c)
          /\ via'[c] = via[c] \/ (via'[c] = activeTunnels[Place(c)] /\ activeTunnels[Place(c)] # None)
      BY <1>0, <3>1, ProceedSteps
    <3>3. via'[c] = via[c] \/ (Place(via'[c]) = Place(c) /\ slot[via'[c]] # "one-shot")
      BY <1>0, <1>p, <3>2 DEF PooledNamed
    <3>6. \A d \in Calls : via'[d] \in {via[d], d} \/ (Place(via'[d]) = Place(d) /\ slot[via'[d]] # "one-shot")
      BY <3>2, <3>3
    <3>7. \A d \in Calls : pc[d] = "done" => pc'[d] = "done"
      BY <3>1, <3>2
    <3>4. (CachedNamed /\ PooledNamed /\ ViaNamed /\ UpIsDone)'
      BY <1>0, <3>1, <3>6, <3>7, NamesKept
    <3>5. Awaited'
      BY <1>0, <3>1, <3>2, AwaitsKept
    <3>8. \A d \in Calls : got'[d] = got[d] \/ got'[d] \in Borrowed(d)
      BY <3>2
    <3>9. Isolated'
      BY <1>0, <3>8, IsolatedKept
    <3> QED BY <3>4, <3>5, <3>9
  <2>4. CASE OneShot(c) \/ TunnelFails(c) \/ ConnectFails(c) \/ CreateFails(c) \/ OneShotEnds(c)
    <3>1. /\ UNCHANGED <<cache, via, prov, victim, got, jpc, jslot, jvictim>>
          /\ \A d \in Calls : pc[d] = "done" => pc'[d] = "done"
          /\ \A d \in Calls : pc'[d] = "replacing" => pc[d] = "replacing"
      BY <1>0, <2>4 DEF OneShot, TunnelFails, ConnectFails, CreateFails, OneShotEnds, CacheTypeOK
    <3>2. \A f \in Places : activeTunnels'[f] \in {activeTunnels[f], None}
      BY <1>0, <2>4 DEF OneShot, TunnelFails, ConnectFails, CreateFails, OneShotEnds, Cleanup, CacheTypeOK
    <3>3. (CachedNamed /\ PooledNamed /\ ViaNamed /\ UpIsDone)'
      BY <1>0, <3>1, <3>2, NamesKept
    <3>4. Awaited'
      BY <1>0, <3>1, AwaitsKept
    <3>5. Isolated'
      BY <1>0, <3>1, IsolatedKept
    <3> QED BY <3>3, <3>4, <3>5
  <2>5. CASE TunnelOpens(c)
    <3>1. /\ UNCHANGED <<cache, prov, victim, got, jpc, jslot, jvictim>>
          /\ \A d \in Calls : pc[d] = "done" => pc'[d] = "done"
          /\ \A d \in Calls : pc'[d] = "replacing" => pc[d] = "replacing"
          /\ \A d \in Calls : via'[d] \in {via[d], d}
      BY <1>0, <2>5 DEF TunnelOpens, CacheTypeOK
    <3>2. \A f \in Places : \/ activeTunnels'[f] = activeTunnels[f]
                            \/ slot[activeTunnels'[f]] # "one-shot" /\ Place(activeTunnels'[f]) = f
      BY <1>0, <2>5 DEF TunnelOpens, CacheTypeOK
    <3>3. (CachedNamed /\ PooledNamed /\ ViaNamed /\ UpIsDone)'
      BY <1>0, <3>1, <3>2, NamesKept
    <3>4. Awaited'
      BY <1>0, <3>1, AwaitsKept
    <3>5. Isolated'
      BY <1>0, <3>1, IsolatedKept
    <3> QED BY <3>3, <3>4, <3>5
  <2>6. CASE Connected(c)
    <3>1. /\ UNCHANGED <<activeTunnels, via, victim, jpc, jslot, jvictim>>
          /\ \A s \in Caches : cache'[s] = cache[s] \/ (s = slot[c] /\ cache'[s] = c)
          /\ \A d \in Calls : pc'[d] = (IF d = c THEN "done" ELSE pc[d])
          /\ \A d \in Calls : got'[d] = (IF d = c THEN c ELSE got[d])
          /\ \A d \in Calls : d # c => prov'[d] = prov[d]
      BY <1>0, <2>6 DEF Connected, Return, CacheTypeOK
    <3>2. \A s \in Caches : cache'[s] \in {cache[s], None} \/ slot[cache'[s]] = s
      BY <3>1
    <3>3. (CachedNamed /\ PooledNamed /\ ViaNamed /\ UpIsDone)'
      BY <1>0, <3>1, <3>2, NamesKept
    <3>4. Awaited'
      BY <1>0, <3>1, AwaitsKept
    <3>5. Isolated'
      BY <1>0, <3>1, IsolatedKept
    <3> QED BY <3>3, <3>4, <3>5
  <2> QED BY <1>1, <2>1, <2>2, <2>3, <2>4, <2>5, <2>6 DEF CallStep
<1>2. ASSUME UNCHANGED <<via, pc, victim, got>>,
             \A s \in Caches : cache'[s] \in {cache[s], None},
             \A f \in Places : activeTunnels'[f] \in {activeTunnels[f], None},
             \A d \in Calls : prov[d] = "none" => prov'[d] = "none",
             \A j \in Janitors : jpc'[j] = "awaiting" =>
               \/ jpc[j] = "awaiting" /\ jslot'[j] = jslot[j] /\ jvictim'[j] = jvictim[j]
               \/ jslot'[j] \in Caches /\ jvictim'[j] \in Calls
      PROVE  (CachedNamed /\ PooledNamed /\ ViaNamed /\ UpIsDone)' /\ Awaited' /\ Isolated'
  <2>1. (CachedNamed /\ PooledNamed /\ ViaNamed /\ UpIsDone)'
    BY <1>0, <1>2, NamesKept
  <2>2. Awaited'
    BY <1>0, <1>2, AwaitsKept
  <2>3. Isolated'
    BY <1>0, <1>2, IsolatedKept
  <2> QED BY <2>1, <2>2, <2>3
<1>3. ASSUME NEW c \in Calls, Disconnected(c) \/ TunnelDrops(c)
      PROVE  (CachedNamed /\ PooledNamed /\ ViaNamed /\ UpIsDone)' /\ Awaited' /\ Isolated'
  <2>1. CASE Disconnected(c)
    BY <1>0, <1>2, <2>1 DEF Disconnected, CacheTypeOK
  <2>2. CASE TunnelDrops(c)
    BY <1>0, <1>2, <2>2 DEF TunnelDrops, Cleanup, CacheTypeOK
  <2> QED BY <1>3, <2>1, <2>2
<1>4. ASSUME NEW s \in Caches, GoesIdle(s)
      PROVE  (CachedNamed /\ PooledNamed /\ ViaNamed /\ UpIsDone)' /\ Awaited' /\ Isolated'
  BY <1>0, <1>2, <1>4 DEF GoesIdle
<1>5. CASE SweepStep
  <2>0. Sweep \in Janitors
    BY DEF Janitors
  <2>1. CASE StartSweep \/ EndSweep
    BY <1>0, <1>2, <2>0, <2>1 DEF StartSweep, EndSweep, CacheTypeOK
  <2>2. ASSUME NEW s \in Caches, SweepVisits(s)
        PROVE  (CachedNamed /\ PooledNamed /\ ViaNamed /\ UpIsDone)' /\ Awaited' /\ Isolated'
    <3>1. /\ UNCHANGED <<cache, activeTunnels, via, pc, victim, got>>
          /\ \A d \in Calls : prov[d] = "none" => prov'[d] = "none"
      BY <1>0, <2>2 DEF SweepVisits, Disconnect, CacheTypeOK
    <3>2. \A j \in Janitors : jpc'[j] = "awaiting" =>
               \/ jpc[j] = "awaiting" /\ jslot'[j] = jslot[j] /\ jvictim'[j] = jvictim[j]
               \/ jslot'[j] \in Caches /\ jvictim'[j] \in Calls
      BY <1>0, <2>0, <2>2 DEF SweepVisits, CacheTypeOK, Optional
    <3> QED BY <1>2, <3>1, <3>2
  <2>3. CASE SweepEvicts
    BY <1>0, <1>2, <2>0, <2>3 DEF SweepEvicts, Delete, CloseSSHTunnel, CacheTypeOK
  <2> QED BY <1>5, <2>1, <2>2, <2>3 DEF SweepStep
<1>6. ASSUME NEW j \in Removals, RemoveStep(j)
      PROVE  (CachedNamed /\ PooledNamed /\ ViaNamed /\ UpIsDone)' /\ Awaited' /\ Isolated'
  <2>0. j \in Janitors
    BY DEF Janitors
  <2>1. ASSUME NEW s \in Caches, RemoveVisits(j, s)
        PROVE  (CachedNamed /\ PooledNamed /\ ViaNamed /\ UpIsDone)' /\ Awaited' /\ Isolated'
    <3>1. /\ UNCHANGED <<cache, activeTunnels, via, pc, victim, got>>
          /\ \A d \in Calls : prov[d] = "none" => prov'[d] = "none"
      BY <1>0, <2>1 DEF RemoveVisits, Disconnect, CacheTypeOK
    <3>2. \A k \in Janitors : jpc'[k] = "awaiting" =>
               \/ jpc[k] = "awaiting" /\ jslot'[k] = jslot[k] /\ jvictim'[k] = jvictim[k]
               \/ jslot'[k] \in Caches /\ jvictim'[k] \in Calls
      BY <1>0, <2>0, <2>1 DEF RemoveVisits, CacheTypeOK, Optional
    <3> QED BY <1>2, <3>1, <3>2
  <2>2. CASE RemoveDeletes(j)
    BY <1>0, <1>2, <2>0, <2>2 DEF RemoveDeletes, Delete, CacheTypeOK
  <2>3. CASE RemoveEnds(j)
    BY <1>0, <1>2, <2>0, <2>3 DEF RemoveEnds, CloseSSHTunnel, CacheTypeOK
  <2> QED BY <1>6, <2>1, <2>2, <2>3 DEF RemoveStep
<1>7. CASE UNCHANGED vars
  BY <1>0, <1>2, <1>7 DEF vars
<1> QED BY <1>1, <1>3, <1>4, <1>5, <1>6, <1>7 DEF Next

LEMMA NamedAlways == Spec => []NamedInv
BY NamedInit, NamedStep, PTL DEF Spec

(* Every variable of the provider cache stays in its set. *)
THEOREM CacheTypeCorrect == Spec => []CacheTypeOK
<1>1. NamedInv => CacheTypeOK
  BY DEF NamedInv
<1> QED BY <1>1, NamedAlways, PTL

(* Whatever raced whatever, a caller holds a provider opened for its own   *)
(* slot with its own settings, or the borrow of a single-writer file: for  *)
(* every number of callers, removals and sweeps.                           *)
THEOREM CallersAreIsolated == Spec => []Isolated
<1>1. NamedInv => Isolated
  BY DEF NamedInv
<1> QED BY <1>1, NamedAlways, PTL

-----------------------------------------------------------------------------
(* Who meets whom *)

(* Off the raced slots nobody changes an entry beside another, and off the *)
(* crossed places no acquisition is beside another or beside a removal.    *)
MetInv ==
  /\ \A s \in Caches \ raced : \A x, y \in AtSlot(s) : x = y
  /\ \A f \in Places \ crossed : \A x \in AtPlace(f) : Tearing = {} /\ \A y \in AtPlace(f) : x = y

(* Every step looks at who meets whom. *)
LEMMA Watched == [Next]_vars => Watch \/ UNCHANGED vars
<1> SUFFICES ASSUME Next PROVE Watch
  OBVIOUS
<1>1. ASSUME NEW c \in Calls, CallStep(c) PROVE Watch
  BY <1>1 DEF CallStep, Hit, Replace, Replaced, Miss, OneShot, TunnelOpens, TunnelFails, Connected,
              ConnectFails, CreateFails, OneShotEnds
<1>2. ASSUME NEW c \in Calls, Disconnected(c) \/ TunnelDrops(c) PROVE Watch
  BY <1>2 DEF Disconnected, TunnelDrops
<1>3. ASSUME NEW s \in Caches, GoesIdle(s) PROVE Watch
  BY <1>3 DEF GoesIdle
<1>4. CASE SweepStep
  BY <1>4 DEF SweepStep, StartSweep, SweepVisits, SweepEvicts, EndSweep
<1>5. ASSUME NEW j \in Removals, RemoveStep(j) PROVE Watch
  BY <1>5 DEF RemoveStep, RemoveVisits, RemoveDeletes, RemoveEnds
<1> QED BY <1>1, <1>2, <1>3, <1>4, <1>5 DEF Next

LEMMA MetInit == Init => MetInv
<1> SUFFICES ASSUME Init PROVE MetInv
  OBVIOUS
<1>1. (\A c \in Calls : pc[c] = "idle") /\ (\A j \in Janitors : jpc[j] = "idle")
  BY DEF Init
<1>2. (\A s : AtSlot(s) = {}) /\ (\A f : AtPlace(f) = {})
  BY <1>1 DEF AtSlot, AtPlace
<1> QED BY <1>2 DEF MetInv

LEMMA MetStep ==
  ASSUME MetInv, [Next]_vars
  PROVE  MetInv' /\ raced \subseteq raced' /\ crossed \subseteq crossed'
<1>1. CASE Watch
  <2>1. raced \subseteq raced' /\ crossed \subseteq crossed'
    BY <1>1 DEF Watch
  <2>2. ASSUME NEW s \in Caches \ raced', NEW x \in AtSlot(s)', NEW y \in AtSlot(s)' PROVE x = y
    BY <1>1, <2>2 DEF Watch
  <2>3. ASSUME NEW f \in Places \ crossed', NEW x \in AtPlace(f)'
        PROVE  Tearing' = {} /\ \A y \in AtPlace(f)' : x = y
    BY <1>1, <2>3 DEF Watch
  <2> QED BY <2>1, <2>2, <2>3 DEF MetInv
<1>2. CASE UNCHANGED vars
  BY <1>2 DEF MetInv, AtSlot, AtPlace, Tearing, vars, call, janitor
<1> QED BY <1>1, <1>2, Watched

-----------------------------------------------------------------------------
(* The providers of a slot on which no two operations have met *)

UpIsCached == \A c \in Calls : prov[c] = "up" /\ slot[c] \notin raced =>
                slot[c] \in Caches /\ cache[slot[c]] = c
Vacancy    == \A c \in Calls : pc[c] \in {"opening", "connecting"} /\ slot[c] \in Caches \ raced =>
                cache[slot[c]] = None \/ prov[cache[slot[c]]] # "up"
Replacing  == \A c \in Calls : pc[c] = "replacing" /\ slot[c] \notin raced => cache[slot[c]] = victim[c]
Evicting   == \A j \in Janitors : jpc[j] = "awaiting" /\ jslot[j] \notin raced =>
                cache[jslot[j]] = jvictim[j]

(* A provider that is up is the cached one of its slot; the slot a call is *)
(* filling is vacant, and what an eviction waits for is still what the     *)
(* slot holds.                                                             *)
HeldInv == UpIsCached /\ Vacancy /\ Replacing /\ Evicting

(* Who is about to change an entry is alone there. *)
LEMMA AloneAtSlot ==
  ASSUME MetInv, NEW s \in Caches \ raced, NEW x \in AtSlot(s)
  PROVE  /\ \A d \in Calls : pc[d] \in Flying /\ slot[d] = s => d = x
         /\ \A j \in Janitors : jpc[j] = "awaiting" /\ jslot[j] = s => j = x
BY DEF MetInv, AtSlot, Flying

(* An eviction deletes only what is down. *)
LEMMA HeldKept ==
  ASSUME NamedInv, CacheTypeOK', HeldInv, UNCHANGED <<slot, config>>, raced \subseteq raced',
         \A s \in Caches \ raced' :
           \/ cache'[s] = cache[s]
           \/ cache'[s] = None /\ (cache[s] = None \/ prov[cache[s]] # "up"),
         \A d \in Calls : prov'[d] = "up" => prov[d] = "up",
         \A c \in Calls : pc'[c] \in {"opening", "connecting"} /\ slot[c] \in Caches \ raced' =>
           pc[c] \in {"opening", "connecting"} \/ cache'[slot[c]] = None \/ prov[cache'[slot[c]]] # "up",
         \A c \in Calls : pc'[c] = "replacing" /\ slot[c] \notin raced' =>
           \/ pc[c] = "replacing" /\ victim'[c] = victim[c] /\ cache'[slot[c]] = cache[slot[c]]
           \/ cache'[slot[c]] = victim'[c],
         \A j \in Janitors : jpc'[j] = "awaiting" /\ jslot'[j] \notin raced' =>
           \/ jpc[j] = "awaiting" /\ jslot'[j] = jslot[j] /\ jvictim'[j] = jvictim[j]
              /\ cache'[jslot[j]] = cache[jslot[j]]
           \/ cache'[jslot'[j]] = jvictim'[j]
  PROVE  HeldInv'
<1>0. CacheTypeOK /\ None \notin Calls /\ Named
  BY CacheAssumption DEF NamedInv
<1>1. UpIsCached'
  <2> SUFFICES ASSUME NEW c \in Calls, prov'[c] = "up", slot[c] \notin raced'
               PROVE  slot[c] \in Caches /\ cache'[slot[c]] = c
    BY DEF UpIsCached
  <2>1. prov[c] = "up" /\ slot[c] \in Caches /\ cache[slot[c]] = c
    BY DEF HeldInv, UpIsCached
  <2> QED BY <1>0, <2>1
<1>2. Vacancy'
  BY <1>0 DEF HeldInv, Vacancy, CacheTypeOK, Optional
<1>3. Replacing'
  BY DEF HeldInv, Replacing
<1>4. Evicting'
  BY DEF HeldInv, Evicting
<1> QED BY <1>1, <1>2, <1>3, <1>4 DEF HeldInv

LEMMA HeldInit == Init => HeldInv
<1> SUFFICES ASSUME Init PROVE HeldInv
  OBVIOUS
<1>1. (\A c \in Calls : prov[c] = "none" /\ pc[c] = "idle") /\ (\A j \in Janitors : jpc[j] = "idle")
  BY DEF Init
<1> QED BY <1>1 DEF HeldInv, UpIsCached, Vacancy, Replacing, Evicting

LEMMA HeldStep ==
  ASSUME NamedInv, NamedInv', MetInv, HeldInv, [Next]_vars
  PROVE  HeldInv'
<1>0. /\ CacheTypeOK /\ CacheTypeOK' /\ UNCHANGED <<slot, config>> /\ None \notin Calls /\ Named
      /\ raced \subseteq raced'
  BY CallIsFixed, MetStep, CacheAssumption DEF NamedInv
<1> USE DEF entries, handles, tunnels, call, janitor, Goto, JGoto
<1>1. ASSUME NEW c \in Calls, CallStep(c) PROVE HeldInv'
  <2>1. CASE Hit(c)
    <3>1. /\ UNCHANGED <<cache, prov, victim, jpc, jslot, jvictim>>
          /\ \A d \in Calls : pc'[d] = (IF d = c THEN "done" ELSE pc[d])
      BY <1>0, <2>1 DEF Hit, Return, CacheTypeOK
    <3> QED BY <1>0, <3>1, HeldKept
  <2>2. CASE Replace(c)
    <3>1. /\ UNCHANGED <<cache, jpc, jslot, jvictim>> /\ slot[c] \in Caches
          /\ \A d \in Calls : pc'[d] = (IF d = c THEN "replacing" ELSE pc[d])
          /\ \A d \in Calls : victim'[d] = (IF d = c THEN cache[slot[c]] ELSE victim[d])
          /\ \A d \in Calls : prov'[d] = "up" => prov[d] = "up"
      BY <1>0, <2>2 DEF Replace, Disconnect, CacheTypeOK
    <3> QED BY <1>0, <3>1, HeldKept
  <2>3. CASE Replaced(c)
    <3>1. /\ UNCHANGED <<prov, victim, jpc, jslot, jvictim>> /\ Proceed(c)
          /\ pc[c] = "replacing" /\ slot[c] \in Caches /\ prov[victim[c]] = "down"
          /\ \A s \in Caches : cache'[s] = (IF s = slot[c] THEN None ELSE cache[s])
      BY <1>0, <2>3 DEF Replaced, CacheTypeOK, Named
    <3>2. (\A d \in Calls \ {c} : pc'[d] = pc[d]) /\ pc'[c] # "replacing"
      BY <1>0, <3>1, ProceedSteps
    <3>3. CASE slot[c] \notin raced
      <4>1. c \in AtSlot(slot[c])
        BY <3>1 DEF AtSlot
      <4>2. /\ \A d \in Calls : pc[d] \in Flying /\ slot[d] = slot[c] => d = c
            /\ \A j \in Janitors : jpc[j] = "awaiting" /\ jslot[j] = slot[c] => j = c
        BY <3>1, <3>3, <4>1, AloneAtSlot
      <4>3. \A j \in Janitors : j # c
        BY CacheAssumption
      <4>4. cache[slot[c]] = victim[c]
        BY <3>1, <3>3 DEF HeldInv, Replacing
      <4>5. \A j \in Janitors : jpc[j] = "awaiting" => jslot[j] \in Caches
        BY <1>0 DEF Named
      <4>6. \A d \in Calls : pc[d] = "replacing" => slot[d] \in Caches
        BY <1>0 DEF Named
      <4> QED BY <1>0, <3>1, <3>2, <4>2, <4>3, <4>4, <4>5, <4>6, HeldKept DEF Flying
    <3>4. CASE slot[c] \in raced
      <4>5. \A j \in Janitors : jpc[j] = "awaiting" => jslot[j] \in Caches
        BY <1>0 DEF Named
      <4>6. \A d \in Calls : pc[d] = "replacing" => slot[d] \in Caches
        BY <1>0 DEF Named
      <4> QED BY <1>0, <3>1, <3>2, <3>4, <4>5, <4>6, HeldKept
    <3> QED BY <3>3, <3>4
  <2>4. CASE Miss(c)
    <3>1. /\ UNCHANGED <<cache, prov, victim, jpc, jslot, jvictim>> /\ Proceed(c)
          /\ pc[c] = "idle" /\ slot[c] \in Caches
          /\ cache[slot[c]] = None \/ prov[cache[slot[c]]] # "up"
      BY <1>0, <2>4 DEF Miss, IsConnected, CacheTypeOK
    <3>2. (\A d \in Calls \ {c} : pc'[d] = pc[d]) /\ pc'[c] # "replacing"
      BY <1>0, <3>1, ProceedSteps
    <3> QED BY <1>0, <3>1, <3>2, HeldKept
  <2>5. CASE OneShot(c)
    <3>1. /\ UNCHANGED <<cache, prov, victim, jpc, jslot, jvictim>> /\ slot[c] \notin Caches
          /\ \A d \in Calls : pc'[d] = (IF d = c THEN "opening" ELSE pc[d])
      BY <1>0, <2>5 DEF OneShot, CacheTypeOK, Caches
    <3> QED BY <1>0, <3>1, HeldKept
  <2>6. CASE TunnelOpens(c)
    <3>1. /\ UNCHANGED <<cache, prov, victim, jpc, jslot, jvictim>> /\ pc[c] = "opening"
          /\ \A d \in Calls : pc'[d] = (IF d = c THEN "connecting" ELSE pc[d])
      BY <1>0, <2>6 DEF TunnelOpens, CacheTypeOK
    <3> QED BY <1>0, <3>1, HeldKept
  <2>7. CASE TunnelFails(c) \/ ConnectFails(c) \/ CreateFails(c) \/ OneShotEnds(c)
    <3>1. /\ UNCHANGED <<cache, prov, victim, jpc, jslot, jvictim>>
          /\ \A d \in Calls : pc'[d] \in {pc[d], "failed", "done"}
      BY <1>0, <2>7 DEF TunnelFails, ConnectFails, CreateFails, OneShotEnds, CacheTypeOK
    <3> QED BY <1>0, <3>1, HeldKept
  <2>8. CASE Connected(c)
    <3>1. /\ UNCHANGED <<victim, jpc, jslot, jvictim>> /\ pc[c] = "connecting" /\ slot[c] \in Caches
          /\ \A d \in Calls : pc'[d] = (IF d = c THEN "done" ELSE pc[d])
          /\ \A d \in Calls : prov'[d] = (IF d = c THEN "up" ELSE prov[d])
          /\ \A s \in Caches : cache'[s] = (IF s = slot[c] THEN c ELSE cache[s])
      BY <1>0, <2>8 DEF Connected, Return, CacheTypeOK
    <3>2. /\ \A j \in Janitors : jpc[j] = "awaiting" => jslot[j] \in Caches
          /\ \A d \in Calls : pc[d] = "replacing" => slot[d] \in Caches
          /\ \A j \in Janitors : j # c
      BY <1>0, CacheAssumption DEF Named
    <3>3. slot[c] \in raced \/ /\ \A d \in Calls : pc[d] \in Flying /\ slot[d] = slot[c] => d = c
                               /\ \A j \in Janitors : ~(jpc[j] = "awaiting" /\ jslot[j] = slot[c])
      <4>1. c \in AtSlot(slot[c])
        BY <3>1 DEF AtSlot
      <4> QED BY <3>1, <3>2, <4>1, AloneAtSlot
    <3>4. UpIsCached'
      <4> SUFFICES ASSUME NEW d \in Calls, prov'[d] = "up", slot[d] \notin raced'
                   PROVE  slot[d] \in Caches /\ cache'[slot[d]] = d
        BY <1>0 DEF UpIsCached
      <4>1. CASE d = c
        BY <3>1, <4>1
      <4>2. CASE d # c
        <5>1. prov[d] = "up" /\ slot[d] \in Caches /\ cache[slot[d]] = d
          BY <1>0, <3>1, <4>2 DEF HeldInv, UpIsCached
        <5>2. slot[d] # slot[c]
          BY <1>0, <3>1, <5>1 DEF HeldInv, Vacancy
        <5> QED BY <3>1, <5>1, <5>2
      <4> QED BY <4>1, <4>2
    <3>5. Vacancy'
      <4> SUFFICES ASSUME NEW d \in Calls, pc'[d] \in {"opening", "connecting"}, slot[d] \in Caches \ raced'
                   PROVE  cache'[slot[d]] = None \/ prov'[cache'[slot[d]]] # "up"
        BY <1>0 DEF Vacancy
      <4>1. d # c /\ pc[d] = pc'[d] /\ slot[d] # slot[c]
        BY <1>0, <3>1, <3>3 DEF Flying
      <4>2. cache'[slot[d]] = cache[slot[d]]
        BY <3>1, <4>1
      <4>3. cache[slot[d]] = None \/ prov[cache[slot[d]]] # "up"
        BY <1>0, <4>1 DEF HeldInv, Vacancy
      <4>4. cache[slot[d]] # c
        BY <1>0, <4>1 DEF Named
      <4>5. cache[slot[d]] \in Calls \cup {None}
        BY <1>0 DEF CacheTypeOK, Optional
      <4> QED BY <1>0, <3>1, <4>2, <4>3, <4>4, <4>5
    <3>6. Replacing' /\ Evicting'
      BY <1>0, <3>1, <3>2, <3>3 DEF HeldInv, Replacing, Evicting, Flying
    <3> QED BY <3>4, <3>5, <3>6 DEF HeldInv
  <2> QED BY <1>1, <2>1, <2>2, <2>3, <2>4, <2>5, <2>6, <2>7, <2>8 DEF CallStep
<1>2. ASSUME NEW c \in Calls, Disconnected(c) \/ TunnelDrops(c) PROVE HeldInv'
  <2>1. /\ UNCHANGED <<cache, pc, victim, jpc, jslot, jvictim>>
        /\ \A d \in Calls : prov'[d] = "up" => prov[d] = "up"
    BY <1>0, <1>2 DEF Disconnected, TunnelDrops, CacheTypeOK
  <2> QED BY <1>0, <2>1, HeldKept
<1>3. ASSUME NEW s \in Caches, GoesIdle(s) PROVE HeldInv'
  BY <1>0, <1>3, HeldKept DEF GoesIdle
<1>4. CASE SweepStep
  <2>0. Sweep \in Janitors /\ \A j \in Removals : j \in Janitors /\ j # Sweep
    BY CacheAssumption DEF Janitors
  <2>1. CASE StartSweep \/ EndSweep
    <3>1. /\ UNCHANGED <<cache, prov, pc, victim, jslot, jvictim>>
          /\ \A j \in Janitors : j # Sweep => jpc'[j] = jpc[j]
          /\ jpc'[Sweep] # "awaiting"
      BY <1>0, <2>0, <2>1 DEF StartSweep, EndSweep, CacheTypeOK
    <3> QED BY <1>0, <2>0, <3>1, HeldKept
  <2>2. ASSUME NEW s \in Caches, SweepVisits(s) PROVE HeldInv'
    <3>1. /\ UNCHANGED <<cache, pc, victim>>
          /\ \A d \in Calls : prov'[d] = "up" => prov[d] = "up"
          /\ \A j \in Janitors : j # Sweep => /\ jpc'[j] = jpc[j] /\ jslot'[j] = jslot[j]
                                              /\ jvictim'[j] = jvictim[j]
          /\ jpc'[Sweep] = "awaiting" => cache[jslot'[Sweep]] = jvictim'[Sweep]
      BY <1>0, <2>0, <2>2 DEF SweepVisits, Disconnect, CacheTypeOK
    <3> QED BY <1>0, <2>0, <3>1, HeldKept
  <2>3. CASE SweepEvicts
    <3>1. /\ UNCHANGED <<prov, pc, victim, jslot, jvictim>>
          /\ jpc[Sweep] = "awaiting" /\ prov[jvictim[Sweep]] = "down" /\ jslot[Sweep] \in Caches
          /\ \A s \in Caches : cache'[s] = (IF s = jslot[Sweep] THEN None ELSE cache[s])
          /\ \A j \in Janitors : jpc'[j] = (IF j = Sweep THEN "looping" ELSE jpc[j])
      BY <1>0, <2>0, <2>3 DEF SweepEvicts, Delete, CacheTypeOK, Named
    <3>2. /\ \A k \in Janitors : jpc[k] = "awaiting" => jslot[k] \in Caches
          /\ \A d \in Calls : pc[d] = "replacing" => slot[d] \in Caches
          /\ \A d \in Calls : d # Sweep
      BY <1>0, <2>0, CacheAssumption DEF Named
    <3>3. jslot[Sweep] \in raced \/ /\ \A d \in Calls : ~(pc[d] \in Flying /\ slot[d] = jslot[Sweep])
                                    /\ \A k \in Janitors : jpc[k] = "awaiting" /\ jslot[k] = jslot[Sweep] => k = Sweep
                                    /\ cache[jslot[Sweep]] = jvictim[Sweep]
      <4>1. Sweep \in AtSlot(jslot[Sweep])
        BY <2>0, <3>1 DEF AtSlot
      <4> QED BY <2>0, <3>1, <3>2, <4>1, AloneAtSlot DEF HeldInv, Evicting
    <3> QED BY <1>0, <2>0, <3>1, <3>2, <3>3, HeldKept DEF Flying
  <2> QED BY <1>4, <2>1, <2>2, <2>3 DEF SweepStep
<1>5. ASSUME NEW j \in Removals, RemoveStep(j) PROVE HeldInv'
  <2>0. j \in Janitors /\ \A k \in Removals : k \in Janitors
    BY DEF Janitors
  <2>1. ASSUME NEW s \in Caches, RemoveVisits(j, s) PROVE HeldInv'
    <3>1. /\ UNCHANGED <<cache, pc, victim>>
          /\ \A d \in Calls : prov'[d] = "up" => prov[d] = "up"
          /\ \A k \in Janitors : k # j => /\ jpc'[k] = jpc[k] /\ jslot'[k] = jslot[k]
                                          /\ jvictim'[k] = jvictim[k]
          /\ jpc'[j] = "awaiting" /\ jslot'[j] = s /\ jvictim'[j] = cache[s]
      BY <1>0, <2>0, <2>1 DEF RemoveVisits, Disconnect, CacheTypeOK
    <3> QED BY <1>0, <2>0, <3>1, HeldKept
  <2>2. CASE RemoveDeletes(j)
    <3>1. /\ UNCHANGED <<prov, pc, victim, jslot, jvictim>>
          /\ jpc[j] = "awaiting" /\ prov[jvictim[j]] = "down" /\ jslot[j] \in Caches
          /\ \A s \in Caches : cache'[s] = (IF s = jslot[j] THEN None ELSE cache[s])
          /\ \A k \in Janitors : jpc'[k] = (IF k = j THEN "looping" ELSE jpc[k])
      BY <1>0, <2>0, <2>2 DEF RemoveDeletes, Delete, CacheTypeOK, Named
    <3>2. /\ \A k \in Janitors : jpc[k] = "awaiting" => jslot[k] \in Caches
          /\ \A d \in Calls : pc[d] = "replacing" => slot[d] \in Caches
          /\ \A d \in Calls : d # j
      BY <1>0, <2>0, CacheAssumption DEF Named
    <3>3. jslot[j] \in raced \/ /\ \A d \in Calls : ~(pc[d] \in Flying /\ slot[d] = jslot[j])
                                /\ \A k \in Janitors : jpc[k] = "awaiting" /\ jslot[k] = jslot[j] => k = j
                                /\ cache[jslot[j]] = jvictim[j]
      <4>1. j \in AtSlot(jslot[j])
        BY <2>0, <3>1 DEF AtSlot
      <4> QED BY <2>0, <3>1, <3>2, <4>1, AloneAtSlot DEF HeldInv, Evicting
    <3> QED BY <1>0, <2>0, <3>1, <3>2, <3>3, HeldKept DEF Flying
  <2>3. CASE RemoveEnds(j)
    <3>1. /\ UNCHANGED <<cache, prov, pc, victim, jslot, jvictim>>
          /\ \A k \in Janitors : jpc'[k] = (IF k = j THEN "done" ELSE jpc[k])
      BY <1>0, <2>0, <2>3 DEF RemoveEnds, CacheTypeOK
    <3> QED BY <1>0, <2>0, <3>1, HeldKept
  <2> QED BY <1>5, <2>1, <2>2, <2>3 DEF RemoveStep
<1>6. CASE UNCHANGED vars
  BY <1>0, <1>6, HeldKept DEF vars
<1> QED BY <1>1, <1>2, <1>3, <1>4, <1>5, <1>6 DEF Next

-----------------------------------------------------------------------------
(* The tunnels of a place where no acquisition has met another, or a removal *)

OpenIsPooled == \A t \in Calls : tun[t] = "open" /\ slot[t] # "one-shot" /\ Place(t) \notin crossed =>
                  activeTunnels[Place(t)] = t
PooledIsOpened == \A f \in Places : activeTunnels[f] # None =>
                    pc[activeTunnels[f]] \notin {"idle", "replacing", "opening"}
FirstOfPlace == \A c \in Calls : slot[c] # "one-shot" /\ Place(c) \notin crossed =>
                  /\ pc[c] = "opening" => activeTunnels[Place(c)] = None
                  /\ pc[c] = "connecting" /\ via[c] = c => activeTunnels[Place(c)] \in {c, None}
OwnTunnel    == \A c \in Calls : pc[c] = "connecting" =>
                  /\ via[c] = c => Place(c) \in crossed \/ \A p \in Calls \ {c} : via[p] # c
                  /\ via[c] # None /\ ~preexisted[c] => via[c] = c
Untouched    == \A c \in Calls : pc[c] \in {"idle", "replacing", "opening"} =>
                  ~preexisted[c] /\ via[c] = None /\ \A p \in Calls : via[p] # c
KeptOpen     == \A s \in Caches :
                  cache[s] # None /\ prov[cache[s]] = "up" /\ via[cache[s]] # None
                  /\ Place(cache[s]) \notin crossed =>
                    \/ tun[via[cache[s]]] = "dropped"
                    \/ /\ tun[via[cache[s]]] = "open"
                       /\ activeTunnels[Place(cache[s])] = via[cache[s]]

(* The pool holds the one open tunnel of a place, a tunnel being opened is *)
(* the first of its place, nobody else goes through it before its call is  *)
(* connected, and a cached provider's tunnel is open and pooled, or lost.  *)
PipeInv == OpenIsPooled /\ PooledIsOpened /\ FirstOfPlace /\ OwnTunnel /\ Untouched /\ KeptOpen

UsesPlace(d, f) == pc[d] \in {"opening", "connecting"} /\ slot[d] # "one-shot" /\ Place(d) = f

(* Who opens or uses the tunnel of a place is alone there. *)
LEMMA AloneAtPlace ==
  ASSUME MetInv, NEW c \in Calls, Place(c) \in Places \ crossed, slot[c] # "one-shot",
         pc[c] \in {"opening", "connecting"}
  PROVE  /\ \A d \in Calls : UsesPlace(d, Place(c)) => d = c
         /\ \A j \in Removals : jpc[j] \notin {"looping", "awaiting"}
<1>1. c \in AtPlace(Place(c))
  BY DEF AtPlace, Place
<1>2. \A d \in Calls : UsesPlace(d, Place(c)) => d \in AtPlace(Place(c))
  BY DEF AtPlace, Place, UsesPlace
<1>3. Tearing = {} /\ \A d \in AtPlace(Place(c)) : c = d
  BY <1>1 DEF MetInv
<1> QED BY <1>2, <1>3 DEF Tearing

LEMMA PipeInit == Init => PipeInv
<1> SUFFICES ASSUME Init PROVE PipeInv
  OBVIOUS
<1>1. \A c \in Calls : pc[c] = "idle" /\ tun[c] = "none" /\ via[c] = None /\ ~preexisted[c] /\ c # None
  BY CacheAssumption DEF Init
<1>2. (\A f \in Places : activeTunnels[f] = None) /\ (\A s \in Caches : cache[s] = None)
  BY DEF Init
<1> QED BY <1>1, <1>2 DEF PipeInv, OpenIsPooled, PooledIsOpened, FirstOfPlace, OwnTunnel, Untouched, KeptOpen

(* Places are as fixed as the calls that name them. *)
LEMMA PlaceIsFixed == ASSUME UNCHANGED config PROVE \A c : Place(c)' = Place(c)
BY DEF Place

(* Steps that leave the tunnels alone. *)
LEMMA PipesKept ==
  ASSUME NamedInv, PipeInv, UNCHANGED <<slot, config, tun, activeTunnels, via, preexisted>>,
         crossed \subseteq crossed',
         \A c \in Calls : \/ pc'[c] = pc[c] \/ pc'[c] \in {"done", "failed"}
                          \/ pc[c] = "idle" /\ pc'[c] = "replacing",
         \A s \in Caches : cache'[s] \in {cache[s], None},
         \A c \in Calls : prov'[c] = "up" => prov[c] = "up"
  PROVE  PipeInv'
<1>0. CacheTypeOK /\ \A c : Place(c)' = Place(c)
  BY PlaceIsFixed DEF NamedInv
<1>1. OpenIsPooled'
  BY <1>0 DEF PipeInv, OpenIsPooled
<1>2. PooledIsOpened'
  BY <1>0 DEF PipeInv, PooledIsOpened, CacheTypeOK, Optional
<1>3. FirstOfPlace'
  BY <1>0 DEF PipeInv, FirstOfPlace
<1>4. OwnTunnel'
  BY <1>0 DEF PipeInv, OwnTunnel
<1>5. Untouched'
  BY <1>0 DEF PipeInv, Untouched
<1>6. KeptOpen'
  BY <1>0 DEF PipeInv, KeptOpen, CacheTypeOK, Optional
<1> QED BY <1>1, <1>2, <1>3, <1>4, <1>5, <1>6 DEF PipeInv

(* closeSSHTunnel, when no provider of the place is cached any more. *)
LEMMA PipesClosed ==
  ASSUME NamedInv, PipeInv, CloseSSHTunnel, UNCHANGED <<slot, config, via, preexisted, pc>>,
         crossed \subseteq crossed',
         \A s \in Caches : cache'[s] = None \/ Place(cache'[s]) \in crossed'
  PROVE  PipeInv'
<1>0. /\ CacheTypeOK /\ (\A c : Place(c)' = Place(c)) /\ \A f \in Places : activeTunnels'[f] = None
      /\ \A t \in Calls : tun'[t] = "open" =>
           tun[t] = "open" /\ \A f \in Places : activeTunnels[f] # t
  BY PlaceIsFixed DEF NamedInv, CloseSSHTunnel, CacheTypeOK
<1>p. \A c \in Calls : Place(c) \in Places
  BY <1>0, PlaceType
<1>1. OpenIsPooled'
  BY <1>0, <1>p DEF PipeInv, OpenIsPooled
<1>2. PooledIsOpened' /\ KeptOpen'
  BY <1>0 DEF PooledIsOpened, KeptOpen
<1>3. FirstOfPlace'
  BY <1>0, <1>p DEF FirstOfPlace
<1>4. OwnTunnel' /\ Untouched'
  BY <1>0 DEF PipeInv, OwnTunnel, Untouched
<1> QED BY <1>1, <1>2, <1>3, <1>4 DEF PipeInv

(* cleanup of a tunnel nobody cached goes through, and which is the pooled *)
(* one of its place if there is one.                                       *)
LEMMA PipesCleaned ==
  ASSUME NamedInv, PipeInv, NEW t \in Calls, NEW how \in {"closed", "dropped"}, Cleanup(t, how),
         UNCHANGED <<slot, config, via, preexisted, cache, prov>>, crossed \subseteq crossed',
         \A c \in Calls : pc'[c] = pc[c] \/ pc'[c] \in {"done", "failed"},
         slot[t] # "one-shot" => Place(t) \in crossed' \/ activeTunnels[Place(t)] \in {t, None},
         \/ how = "dropped" \/ Place(t) \in crossed'
         \/ \A p \in Calls : via[p] = t => prov[p] # "up"
  PROVE  PipeInv'
<1>0. /\ CacheTypeOK /\ None \notin Calls /\ (\A c : Place(c)' = Place(c))
      /\ (\A u \in Calls : tun'[u] = (IF u = t THEN how ELSE tun[u]))
      /\ \A f \in Places : activeTunnels'[f] =
           IF slot[t] # "one-shot" /\ f = Place(t) THEN None ELSE activeTunnels[f]
  BY PlaceIsFixed, CacheAssumption DEF NamedInv, Cleanup, CacheTypeOK
<1>p. \A c \in Calls : Place(c) \in Places
  BY <1>0, PlaceType
<1>1. OpenIsPooled'
  BY <1>0, <1>p DEF PipeInv, OpenIsPooled
<1>2. PooledIsOpened'
  BY <1>0 DEF PipeInv, PooledIsOpened, CacheTypeOK, Optional
<1>3. FirstOfPlace'
  BY <1>0, <1>p DEF PipeInv, FirstOfPlace
<1>4. OwnTunnel' /\ Untouched'
  BY <1>0 DEF PipeInv, OwnTunnel, Untouched
<1>5. KeptOpen'
  <2> SUFFICES ASSUME NEW s \in Caches, NEW p \in Calls, p = cache[s], prov[p] = "up",
                      NEW u \in Calls, u = via[p], tun'[u] # "dropped", Place(p) \notin crossed'
               PROVE  tun'[u] = "open" /\ activeTunnels'[Place(p)] = u
    BY <1>0 DEF KeptOpen, CacheTypeOK, Optional
  <2>0. Place(u) = Place(p)
    BY <1>0 DEF NamedInv, Named
  <2>1. u # t
    BY <1>0, <2>0
  <2>2. tun'[u] = "open" /\ activeTunnels[Place(p)] = u
    BY <1>0, <2>1 DEF PipeInv, KeptOpen
  <2> QED BY <1>0, <1>p, <2>1, <2>2
<1> QED BY <1>1, <1>2, <1>3, <1>4, <1>5 DEF PipeInv

(* A miss takes the pooled tunnel of its place, or begins to open one. *)
LEMMA PipesProceed ==
  ASSUME NamedInv, NamedInv', MetInv', PipeInv, NEW c \in Calls, Proceed(c), slot[c] # "one-shot",
         pc[c] \in {"idle", "replacing"}, crossed \subseteq crossed', UNCHANGED <<slot, config, activeTunnels, prov>>,
         \A s \in Caches : cache'[s] \in {cache[s], None}
  PROVE  PipeInv'
<1>0. /\ CacheTypeOK /\ None \notin Calls /\ (\A d : Place(d)' = Place(d)) /\ Place(c) \in Places
  BY PlaceIsFixed, PlaceType, CacheAssumption DEF NamedInv
<1>1. \A d \in Calls \ {c} : pc'[d] = pc[d] /\ via'[d] = via[d] /\ tun'[d] = tun[d] /\ preexisted'[d] = preexisted[d]
  BY ProceedSteps
<1>2. ~preexisted[c] /\ via[c] = None /\ \A p \in Calls : via[p] # c
  BY DEF PipeInv, Untouched
<1>3. CASE pc'[c] \in {"failed", "done"} \/ (pc'[c] = "connecting" /\ ~Tunnelled /\ UNCHANGED <<via, preexisted, tun>>)
  <2>1. /\ UNCHANGED <<via, preexisted, tun>>
        /\ pc'[c] \in {"failed", "done", "connecting"}
    BY <1>3, ProceedSteps
  <2>2. OpenIsPooled'
    BY <1>0, <2>1 DEF PipeInv, OpenIsPooled
  <2>3. PooledIsOpened'
    BY <1>0, <1>1, <2>1 DEF PipeInv, PooledIsOpened, CacheTypeOK, Optional
  <2>4. FirstOfPlace' /\ OwnTunnel' /\ Untouched'
    BY <1>0, <1>1, <1>2, <2>1 DEF PipeInv, FirstOfPlace, OwnTunnel, Untouched
  <2>5. KeptOpen'
    BY <1>0, <2>1 DEF PipeInv, KeptOpen, CacheTypeOK, Optional
  <2> QED BY <2>2, <2>3, <2>4, <2>5 DEF PipeInv
<1>4. CASE /\ pc'[c] = "connecting" /\ UNCHANGED <<got, tun>> /\ activeTunnels[Place(c)] # None
           /\ via'[c] = activeTunnels[Place(c)] /\ preexisted'[c] = TRUE
  <2>0. ASSUME NEW d \in Calls, UsesPlace(d, Place(c))', Place(c) \notin crossed'
        PROVE  d = c
    <3>1. d \in AtPlace(Place(c))' /\ c \in AtPlace(Place(c))'
      BY <1>0, <1>4, <2>0 DEF AtPlace, UsesPlace, Place
    <3> QED BY <1>0, <2>0, <3>1 DEF MetInv
  <2>1. PICK u \in Calls : u = activeTunnels[Place(c)] /\ u # c
    BY <1>0, <1>4 DEF CacheTypeOK, Optional, PipeInv, PooledIsOpened
  <2>a. slot[u] # "one-shot" /\ Place(u) = Place(c)
    BY <1>0, <1>4, <2>1 DEF NamedInv, Named
  <2>2. pc[u] \notin {"idle", "replacing", "opening"}
    BY <1>0, <2>1 DEF PipeInv, PooledIsOpened
  <2>3. OpenIsPooled'
    BY <1>0, <1>4 DEF PipeInv, OpenIsPooled
  <2>4. PooledIsOpened'
    BY <1>0, <1>1, <1>4 DEF PipeInv, PooledIsOpened, CacheTypeOK, Optional
  <2>5. FirstOfPlace'
    BY <1>0, <1>1, <1>4, <2>1 DEF PipeInv, FirstOfPlace
  <2>b. OwnTunnel'
    BY <1>0, <1>1, <1>4, <2>0, <2>1, <2>a DEF PipeInv, OwnTunnel, UsesPlace
  <2>6. Untouched'
    BY <1>1, <1>4, <2>1, <2>2 DEF PipeInv, Untouched
  <2>7. KeptOpen'
    <3>1. \A d \in Calls : prov[d] = "up" => d # c
      BY DEF NamedInv, Named
    <3> QED BY <1>0, <1>1, <1>4, <3>1 DEF PipeInv, KeptOpen, CacheTypeOK, Optional
  <2> QED BY <2>3, <2>4, <2>5, <2>b, <2>6, <2>7 DEF PipeInv
<1>5. CASE /\ pc'[c] = "opening" /\ UNCHANGED <<got, via, preexisted>>
           /\ activeTunnels[Place(c)] = None /\ tun'[c] = "opening"
  <2>1. OpenIsPooled'
    BY <1>0, <1>1, <1>5 DEF PipeInv, OpenIsPooled
  <2>2. PooledIsOpened'
    BY <1>0, <1>1, <1>5 DEF PipeInv, PooledIsOpened, CacheTypeOK, Optional
  <2>3. FirstOfPlace' /\ OwnTunnel' /\ Untouched'
    BY <1>0, <1>1, <1>2, <1>5 DEF PipeInv, FirstOfPlace, OwnTunnel, Untouched
  <2>4. KeptOpen'
    BY <1>0, <1>1, <1>2, <1>5 DEF PipeInv, KeptOpen, CacheTypeOK, Optional
  <2> QED BY <2>1, <2>2, <2>3, <2>4 DEF PipeInv
<1> QED BY <1>3, <1>4, <1>5, ProceedSteps

(* Once a removal has left the editor's entry, it stays empty, or whoever  *)
(* fills it has met the removal.                                           *)
Emptied == \A j \in Removals :
  jpc[j] = "looping" \/ (jpc[j] = "awaiting" /\ jslot[j] # "shared") =>
    "shared" \notin Caches \/ cache["shared"] = None \/ Place(cache["shared"]) \in crossed

LEMMA EmptiedKept ==
  ASSUME NamedInv, Emptied, UNCHANGED config, crossed \subseteq crossed',
         "shared" \in Caches => cache'["shared"] \in {cache["shared"], None},
         \A j \in Removals : jpc'[j] = "looping" \/ (jpc'[j] = "awaiting" /\ jslot'[j] # "shared") =>
           \/ jpc[j] = "looping" \/ (jpc[j] = "awaiting" /\ jslot[j] # "shared")
           \/ "shared" \notin Caches \/ cache'["shared"] = None
  PROVE  Emptied'
<1>1. \A c : Place(c)' = Place(c)
  BY PlaceIsFixed
<1> QED BY <1>1 DEF Emptied

LEMMA EmptiedStep ==
  ASSUME NamedInv, MetInv, Emptied, [Next]_vars
  PROVE  Emptied'
<1>0. /\ CacheTypeOK /\ UNCHANGED config /\ crossed \subseteq crossed' /\ Named
      /\ \A d : Place(d)' = Place(d)
  BY CallIsFixed, MetStep, PlaceIsFixed DEF NamedInv
<1>s. \A j \in Removals : j \in Janitors /\ j # Sweep
  BY CacheAssumption DEF Janitors
<1> USE DEF entries, handles, tunnels, call, janitor, Goto, JGoto
<1>1. ASSUME NEW c \in Calls, CallStep(c) PROVE Emptied'
  <2>1. CASE Connected(c)
    <3>1. /\ UNCHANGED <<jpc, jslot>> /\ pc[c] = "connecting" /\ slot[c] \in Caches
          /\ \A s \in Caches : cache'[s] = (IF s = slot[c] THEN c ELSE cache[s])
      BY <1>0, <2>1 DEF Connected, CacheTypeOK
    <3>2. CASE slot[c] # "shared"
      BY <1>0, <3>1, <3>2, EmptiedKept
    <3>3. CASE slot[c] = "shared"
      <4>1. Place(c) \in Places
        BY <1>0, PlaceType
      <4>2. Place(c) \in crossed \/ \A j \in Removals : jpc[j] \notin {"looping", "awaiting"}
        BY <3>1, <3>3, <4>1, AloneAtPlace
      <4>3. cache'["shared"] = c
        BY <3>1, <3>3
      <4> QED BY <1>0, <3>1, <4>2, <4>3 DEF Emptied
    <3> QED BY <3>2, <3>3
  <2>2. CASE Replaced(c)
    <3>1. UNCHANGED <<jpc, jslot>> /\ \A s \in Caches : cache'[s] \in {cache[s], None}
      BY <1>0, <2>2 DEF Replaced, CacheTypeOK
    <3> QED BY <1>0, <3>1, EmptiedKept
  <2>3. CASE \/ Hit(c) \/ Replace(c) \/ Miss(c) \/ OneShot(c) \/ TunnelOpens(c) \/ TunnelFails(c)
             \/ ConnectFails(c) \/ CreateFails(c) \/ OneShotEnds(c)
    <3>1. UNCHANGED <<cache, jpc, jslot>>
      BY <2>3 DEF Hit, Replace, Miss, OneShot, TunnelOpens, TunnelFails, ConnectFails, CreateFails,
                  OneShotEnds
    <3> QED BY <1>0, <3>1, EmptiedKept
  <2> QED BY <1>1, <2>1, <2>2, <2>3 DEF CallStep
<1>2. ASSUME NEW c \in Calls, Disconnected(c) \/ TunnelDrops(c) PROVE Emptied'
  BY <1>0, <1>2, EmptiedKept DEF Disconnected, TunnelDrops
<1>3. ASSUME NEW s \in Caches, GoesIdle(s) PROVE Emptied'
  BY <1>0, <1>3, EmptiedKept DEF GoesIdle
<1>4. CASE SweepStep
  <2>1. /\ \A s \in Caches : cache'[s] \in {cache[s], None}
        /\ \A j \in Removals : jpc'[j] = jpc[j] /\ jslot'[j] = jslot[j]
    BY <1>0, <1>4, <1>s DEF SweepStep, StartSweep, SweepVisits, SweepEvicts, EndSweep, Delete, CacheTypeOK
  <2> QED BY <1>0, <2>1, EmptiedKept
<1>5. ASSUME NEW j \in Removals, RemoveStep(j) PROVE Emptied'
  <2>1. ASSUME NEW s \in Caches, RemoveVisits(j, s) PROVE Emptied'
    <3>1. /\ UNCHANGED cache
          /\ \A k \in Janitors : k # j => jpc'[k] = jpc[k] /\ jslot'[k] = jslot[k]
          /\ jpc'[j] = "awaiting" /\ jslot'[j] = s
      BY <1>0, <1>s, <2>1 DEF RemoveVisits, CacheTypeOK
    <3>2. s = "shared" \/ jpc[j] = "looping" \/ "shared" \notin Caches \/ cache["shared"] = None
      BY <2>1 DEF RemoveVisits, Caches
    <3> QED BY <1>0, <1>s, <3>1, <3>2, EmptiedKept
  <2>2. CASE RemoveDeletes(j)
    <3>1. /\ UNCHANGED jslot /\ jpc[j] = "awaiting" /\ jslot[j] \in Caches
          /\ \A s \in Caches : cache'[s] = (IF s = jslot[j] THEN None ELSE cache[s])
          /\ \A k \in Janitors : jpc'[k] = (IF k = j THEN "looping" ELSE jpc[k])
      BY <1>0, <1>s, <2>2 DEF RemoveDeletes, Delete, CacheTypeOK, Named
    <3> QED BY <1>0, <1>s, <3>1, EmptiedKept
  <2>3. CASE RemoveEnds(j)
    <3>1. /\ UNCHANGED <<cache, jslot>>
          /\ \A k \in Janitors : jpc'[k] = (IF k = j THEN "done" ELSE jpc[k])
      BY <1>0, <1>s, <2>3 DEF RemoveEnds, CacheTypeOK
    <3> QED BY <1>0, <1>s, <3>1, EmptiedKept
  <2> QED BY <1>5, <2>1, <2>2, <2>3 DEF RemoveStep
<1>6. CASE UNCHANGED vars
  BY <1>0, <1>6, EmptiedKept DEF vars
<1> QED BY <1>1, <1>2, <1>3, <1>4, <1>5, <1>6 DEF Next

LEMMA PipeStep ==
  ASSUME NamedInv, NamedInv', MetInv, MetInv', Emptied, PipeInv, [Next]_vars
  PROVE  PipeInv'
<1>0. /\ CacheTypeOK /\ CacheTypeOK' /\ UNCHANGED <<slot, config>> /\ None \notin Calls /\ Named
      /\ (\A d : Place(d)' = Place(d)) /\ crossed \subseteq crossed'
  BY CallIsFixed, MetStep, PlaceIsFixed, CacheAssumption DEF NamedInv
<1>p. \A c \in Calls : Place(c) \in Places
  BY <1>0, PlaceType
<1> USE DEF entries, handles, tunnels, call, janitor, Goto, JGoto
<1>1. ASSUME NEW c \in Calls, CallStep(c) PROVE PipeInv'
  <2>1. CASE Hit(c) \/ Replace(c) \/ CreateFails(c)
    <3>1. /\ UNCHANGED <<tun, activeTunnels, via, preexisted, cache>>
          /\ \A d \in Calls : \/ pc'[d] = pc[d] \/ pc'[d] \in {"done", "failed"}
                              \/ pc[d] = "idle" /\ pc'[d] = "replacing"
          /\ \A d \in Calls : prov'[d] = "up" => prov[d] = "up"
      BY <1>0, <2>1 DEF Hit, Return, Replace, CreateFails, Disconnect, CacheTypeOK
    <3> QED BY <1>0, <3>1, PipesKept
  <2>2. CASE Replaced(c) \/ Miss(c)
    <3>1. /\ Proceed(c) /\ UNCHANGED <<activeTunnels, prov>> /\ pc[c] \in {"idle", "replacing"}
          /\ \A s \in Caches : cache'[s] \in {cache[s], None}
          /\ slot[c] # "one-shot"
      BY <1>0, <2>2 DEF Replaced, Miss, CacheTypeOK, Caches, Named
    <3> QED BY <1>0, <3>1, PipesProceed
  <2>3. CASE OneShot(c)
    <3>1. /\ UNCHANGED <<activeTunnels, via, preexisted, cache, prov>>
          /\ pc[c] = "idle" /\ slot[c] = "one-shot"
          /\ \A d \in Calls : pc'[d] = (IF d = c THEN "opening" ELSE pc[d])
          /\ \A d \in Calls : tun'[d] = (IF d = c THEN "opening" ELSE tun[d])
      BY <1>0, <2>3 DEF OneShot, CacheTypeOK
    <3>2. ~preexisted[c] /\ via[c] = None /\ \A p \in Calls : via[p] # c
      BY <3>1 DEF PipeInv, Untouched
    <3>3. OpenIsPooled'
      BY <1>0, <3>1 DEF PipeInv, OpenIsPooled
    <3>4. PooledIsOpened'
      BY <1>0, <3>1 DEF Named, PipeInv, PooledIsOpened, CacheTypeOK, Optional
    <3>5. FirstOfPlace' /\ OwnTunnel' /\ Untouched'
      BY <1>0, <3>1, <3>2 DEF PipeInv, FirstOfPlace, OwnTunnel, Untouched
    <3>6. KeptOpen'
      BY <1>0, <3>1, <3>2 DEF PipeInv, KeptOpen, CacheTypeOK, Optional
    <3> QED BY <3>3, <3>4, <3>5, <3>6 DEF PipeInv
  <2>4. CASE TunnelOpens(c)
    <3>1. /\ UNCHANGED <<preexisted, cache, prov>> /\ pc[c] = "opening"
          /\ \A d \in Calls : pc'[d] = (IF d = c THEN "connecting" ELSE pc[d])
          /\ \A d \in Calls : tun'[d] = (IF d = c THEN "open" ELSE tun[d])
          /\ \A d \in Calls : via'[d] = (IF d = c THEN c ELSE via[d])
          /\ \A f \in Places : activeTunnels'[f] =
               IF slot[c] # "one-shot" /\ f = Place(c) THEN c ELSE activeTunnels[f]
      BY <1>0, <2>4 DEF TunnelOpens, CacheTypeOK
    <3>2. /\ ~preexisted[c] /\ via[c] = None /\ (\A p \in Calls : via[p] # c)
          /\ slot[c] # "one-shot" => Place(c) \in crossed \/ activeTunnels[Place(c)] = None
      BY <3>1 DEF PipeInv, Untouched, FirstOfPlace
    <3>a. slot[c] # "one-shot" /\ Place(c) \notin crossed =>
            \A d \in Calls : UsesPlace(d, Place(c)) => d = c
      BY <1>p, <3>1, AloneAtPlace
    <3>3. OpenIsPooled'
      BY <1>0, <1>p, <3>1, <3>2 DEF PipeInv, OpenIsPooled
    <3>4. PooledIsOpened'
      BY <1>0, <3>1 DEF PipeInv, PooledIsOpened, CacheTypeOK, Optional
    <3>5. FirstOfPlace'
      BY <1>0, <1>p, <3>1, <3>2, <3>a DEF PipeInv, FirstOfPlace, UsesPlace
    <3>b. OwnTunnel'
      BY <1>0, <3>1, <3>2 DEF PipeInv, OwnTunnel
    <3>6. Untouched'
      BY <1>0, <3>1 DEF PipeInv, Untouched
    <3>7. KeptOpen'
      <4> SUFFICES ASSUME NEW s \in Caches, NEW p \in Calls, p = cache[s], prov[p] = "up",
                          NEW u \in Calls, u = via'[p], tun'[u] # "dropped",
                          Place(p) \notin crossed'
                   PROVE  tun'[u] = "open" /\ activeTunnels'[Place(p)] = u
        BY <1>0, <3>1 DEF KeptOpen, CacheTypeOK, Optional
      <4>1. p # c
        BY <1>0, <3>1 DEF Named
      <4>2. u = via[p] /\ u # c
        BY <3>1, <3>2, <4>1
      <4>3. tun[u] = "open" /\ activeTunnels[Place(p)] = u
        BY <1>0, <3>1, <4>2 DEF PipeInv, KeptOpen
      <4> QED BY <1>0, <1>p, <3>1, <3>2, <4>2, <4>3
    <3> QED BY <3>3, <3>4, <3>5, <3>b, <3>6, <3>7 DEF PipeInv
  <2>5. CASE TunnelFails(c) \/ OneShotEnds(c)
    <3>1. /\ Cleanup(c, "closed") /\ UNCHANGED <<via, preexisted, cache, prov>>
          /\ (\A d \in Calls : pc'[d] = pc[d] \/ pc'[d] \in {"done", "failed"})
          /\ pc[c] = "opening" \/ (pc[c] = "connecting" /\ slot[c] = "one-shot")
      BY <1>0, <2>5 DEF TunnelFails, OneShotEnds, CacheTypeOK
    <3>2. slot[c] # "one-shot" => Place(c) \in crossed' \/ activeTunnels[Place(c)] \in {c, None}
      BY <1>0, <3>1 DEF PipeInv, FirstOfPlace
    <3>3. \A p \in Calls : via[p] = c => prov[p] # "up"
      BY <1>0, <3>1 DEF PipeInv, Untouched, Named
    <3> QED BY <1>0, <3>1, <3>2, <3>3, PipesCleaned
  <2>6. CASE ConnectFails(c)
    <3>1. /\ pc[c] = "connecting" /\ slot[c] \in Caches
          /\ UNCHANGED <<via, preexisted, cache, prov>>
          /\ (\A d \in Calls : pc'[d] = pc[d] \/ pc'[d] \in {"done", "failed"})
      BY <1>0, <2>6 DEF ConnectFails, CacheTypeOK
    <3>2. CASE via[c] = None \/ preexisted[c]
      <4>1. UNCHANGED <<tun, activeTunnels>>
        BY <2>6, <3>2 DEF ConnectFails
      <4> QED BY <1>0, <3>1, <4>1, PipesKept
    <3>3. CASE ~(via[c] = None \/ preexisted[c])
      <4>1. via[c] = c /\ (Place(c) \in crossed' \/ \A p \in Calls \ {c} : via[p] # c)
        BY <1>0, <3>1, <3>3 DEF PipeInv, OwnTunnel
      <4>2. Cleanup(c, "closed")
        BY <2>6, <3>3, <4>1 DEF ConnectFails
      <4>3. slot[c] # "one-shot" => Place(c) \in crossed' \/ activeTunnels[Place(c)] \in {c, None}
        BY <1>0, <3>1, <4>1 DEF PipeInv, FirstOfPlace
      <4>4. Place(c) \in crossed' \/ \A p \in Calls : via[p] = c => prov[p] # "up"
        BY <1>0, <3>1, <4>1 DEF Named
      <4> QED BY <1>0, <3>1, <4>2, <4>3, <4>4, PipesCleaned
    <3> QED BY <3>2, <3>3
  <2>7. CASE Connected(c)
    <3>1. /\ UNCHANGED <<tun, activeTunnels, via, preexisted>> /\ pc[c] = "connecting"
          /\ slot[c] \in Caches
          /\ (\A d \in Calls : pc'[d] = (IF d = c THEN "done" ELSE pc[d]))
          /\ (\A d \in Calls : prov'[d] = (IF d = c THEN "up" ELSE prov[d]))
          /\ (\A s \in Caches : cache'[s] = (IF s = slot[c] THEN c ELSE cache[s]))
          /\ via[c] # None => tun[via[c]] = "open"
      BY <1>0, <2>7 DEF Connected, Return, Reachable, CacheTypeOK
    <3>2. OpenIsPooled' /\ OwnTunnel' /\ Untouched'
      BY <1>0, <3>1 DEF PipeInv, OpenIsPooled, OwnTunnel, Untouched
    <3>3. PooledIsOpened'
      BY <1>0, <3>1 DEF PipeInv, PooledIsOpened, CacheTypeOK, Optional
    <3>4. FirstOfPlace'
      BY <1>0, <3>1 DEF PipeInv, FirstOfPlace
    <3>5. via[c] # None /\ Place(c) \notin crossed' => activeTunnels[Place(c)] = via[c]
      <4> SUFFICES ASSUME NEW u \in Calls, u = via[c], Place(c) \notin crossed'
                   PROVE  activeTunnels[Place(c)] = u
        BY <1>0 DEF CacheTypeOK, Optional
      <4>1. Place(u) = Place(c) /\ slot[u] # "one-shot" /\ tun[u] = "open"
        BY <1>0, <3>1 DEF Named, Caches
      <4> QED BY <1>0, <4>1 DEF PipeInv, OpenIsPooled
    <3>6. KeptOpen'
      <4> SUFFICES ASSUME NEW s \in Caches, NEW p \in Calls, p = cache'[s], prov'[p] = "up",
                          NEW u \in Calls, u = via[p], tun[u] # "dropped",
                          Place(p) \notin crossed'
                   PROVE  tun[u] = "open" /\ activeTunnels[Place(p)] = u
        BY <1>0, <3>1 DEF KeptOpen, CacheTypeOK, Optional
      <4>1. CASE p = c
        BY <1>0, <3>1, <3>5, <4>1
      <4>2. CASE p # c
        BY <1>0, <3>1, <4>2 DEF PipeInv, KeptOpen
      <4> QED BY <4>1, <4>2
    <3> QED BY <3>2, <3>3, <3>4, <3>6 DEF PipeInv
  <2> QED BY <1>1, <2>1, <2>2, <2>3, <2>4, <2>5, <2>6, <2>7 DEF CallStep
<1>2. ASSUME NEW c \in Calls, Disconnected(c) PROVE PipeInv'
  <2>1. \A d \in Calls : prov'[d] = "up" => prov[d] = "up"
    BY <1>0, <1>2 DEF Disconnected, CacheTypeOK
  <2> QED BY <1>0, <1>2, <2>1, PipesKept DEF Disconnected
<1>3. ASSUME NEW t \in Calls, TunnelDrops(t) PROVE PipeInv'
  <2>1. slot[t] # "one-shot" => Place(t) \in crossed' \/ activeTunnels[Place(t)] \in {t, None}
    BY <1>0, <1>3 DEF TunnelDrops, PipeInv, OpenIsPooled
  <2> QED BY <1>0, <1>3, <2>1, PipesCleaned DEF TunnelDrops
<1>4. ASSUME NEW s \in Caches, GoesIdle(s) PROVE PipeInv'
  BY <1>0, <1>4, PipesKept DEF GoesIdle
<1>5. ASSUME NEW s \in Caches, SweepVisits(s) \/ \E j \in Removals : RemoveVisits(j, s) PROVE PipeInv'
  <2>1. /\ UNCHANGED <<tun, activeTunnels, via, preexisted, cache, pc>>
        /\ \A d \in Calls : prov'[d] = "up" => prov[d] = "up"
    BY <1>0, <1>5 DEF SweepVisits, RemoveVisits, Disconnect, CacheTypeOK
  <2> QED BY <1>0, <2>1, PipesKept
<1>6. CASE StartSweep \/ EndSweep \/ \E j \in Removals : RemoveDeletes(j)
  <2>1. /\ UNCHANGED <<tun, activeTunnels, via, preexisted, pc, prov>>
        /\ \A s \in Caches : cache'[s] \in {cache[s], None}
    BY <1>0, <1>6 DEF StartSweep, EndSweep, RemoveDeletes, Delete, CacheTypeOK
  <2> QED BY <1>0, <2>1, PipesKept
<1>7. CASE SweepEvicts
  <2>0. Sweep \in Janitors
    BY DEF Janitors
  <2>1. /\ UNCHANGED <<via, preexisted, pc, prov>> /\ jslot[Sweep] \in Caches
        /\ \A s \in Caches : cache'[s] = (IF s = jslot[Sweep] THEN None ELSE cache[s])
    BY <1>0, <1>7, <2>0 DEF SweepEvicts, Delete, CacheTypeOK, Named
  <2>2. CASE ConnectionStillServed(jslot[Sweep])
    BY <1>0, <1>7, <2>1, <2>2, PipesKept DEF SweepEvicts
  <2>3. CASE ~ConnectionStillServed(jslot[Sweep])
    <3>1. CloseSSHTunnel /\ \A s \in Caches : cache'[s] = None
      BY <1>7, <2>1, <2>3 DEF SweepEvicts, ConnectionStillServed
    <3> QED BY <1>0, <2>1, <3>1, PipesClosed
  <2> QED BY <2>2, <2>3
<1>8. ASSUME NEW j \in Removals, RemoveEnds(j) PROVE PipeInv'
  <2>1. \A s \in Caches : cache'[s] = None \/ Place(cache'[s]) \in crossed'
    BY <1>0, <1>8 DEF RemoveEnds, Emptied
  <2> QED BY <1>0, <1>8, <2>1, PipesClosed DEF RemoveEnds
<1>9. CASE UNCHANGED vars
  BY <1>0, <1>9, PipesKept DEF vars
<1> QED BY <1>1, <1>2, <1>3, <1>4, <1>5, <1>6, <1>7, <1>8, <1>9 DEF Next, SweepStep, RemoveStep

CacheInv == NamedInv /\ MetInv /\ HeldInv /\ Emptied /\ PipeInv

LEMMA CacheInvAlways == Spec => []CacheInv
<1>1. Init => CacheInv
  <2>1. Init => Emptied
    BY DEF Init, Emptied, Janitors
  <2> QED BY <2>1, NamedInit, MetInit, HeldInit, PipeInit DEF CacheInv
<1>2. CacheInv /\ [Next]_vars => CacheInv'
  <2> SUFFICES ASSUME CacheInv, [Next]_vars PROVE CacheInv'
    OBVIOUS
  <2>1. NamedInv' /\ MetInv' /\ Emptied'
    BY NamedStep, MetStep, EmptiedStep DEF CacheInv
  <2>2. HeldInv' /\ PipeInv'
    BY <2>1, HeldStep, PipeStep DEF CacheInv
  <2> QED BY <2>1, <2>2 DEF CacheInv
<1> QED BY <1>1, <1>2, PTL DEF Spec

(* What is cached is swept: the timer is stopped only over empty caches.   *)
Swept == (\E s \in Caches : cache[s] # None) => sweepTimer

LEMMA SweptStep == CacheTypeOK /\ Swept /\ [Next]_vars => Swept'
<1> SUFFICES ASSUME CacheTypeOK, Swept, [Next]_vars PROVE Swept'
  OBVIOUS
<1>1. ASSUME sweepTimer' = sweepTimer, \A s \in Caches : cache'[s] \in {cache[s], None}
      PROVE  Swept'
  BY <1>1 DEF Swept
<1>2. ASSUME NEW c \in Calls, CallStep(c) PROVE Swept'
  <2>1. CASE Connected(c)
    BY <2>1 DEF Connected, StartIdleSweep, Swept
  <2>2. CASE Replaced(c)
    BY <1>1, <2>2 DEF Replaced, CacheTypeOK
  <2>3. CASE Hit(c)
    BY <1>1, <2>3 DEF Hit
  <2>4. CASE \/ Replace(c) \/ Miss(c) \/ OneShot(c) \/ TunnelOpens(c) \/ TunnelFails(c)
             \/ ConnectFails(c) \/ CreateFails(c) \/ OneShotEnds(c)
    BY <1>1, <2>4 DEF Replace, Miss, OneShot, TunnelOpens, TunnelFails, ConnectFails,
         CreateFails, OneShotEnds, entries
  <2> QED BY <1>2, <2>1, <2>2, <2>3, <2>4 DEF CallStep
<1>3. ASSUME NEW c \in Calls, Disconnected(c) \/ TunnelDrops(c) PROVE Swept'
  BY <1>1, <1>3 DEF Disconnected, TunnelDrops, entries
<1>4. ASSUME NEW s \in Caches, GoesIdle(s) PROVE Swept'
  BY <1>1, <1>4 DEF GoesIdle
<1>5. CASE SweepStep
  <2>1. CASE StartSweep \/ \E s \in Caches : SweepVisits(s)
    BY <1>1, <2>1 DEF StartSweep, SweepVisits, entries
  <2>2. CASE SweepEvicts
    BY <1>1, <2>2 DEF SweepEvicts, Delete, CacheTypeOK
  <2>3. CASE EndSweep
    BY <2>3 DEF EndSweep, Swept
  <2> QED BY <1>5, <2>1, <2>2, <2>3 DEF SweepStep
<1>6. ASSUME NEW j \in Removals, RemoveStep(j) PROVE Swept'
  <2>1. CASE RemoveDeletes(j)
    BY <1>1, <2>1 DEF RemoveDeletes, Delete, CacheTypeOK
  <2>2. CASE RemoveEnds(j) \/ \E s \in Caches : RemoveVisits(j, s)
    BY <1>1, <2>2 DEF RemoveEnds, RemoveVisits, entries
  <2> QED BY <1>6, <2>1, <2>2 DEF RemoveStep
<1>7. CASE UNCHANGED vars
  BY <1>1, <1>7 DEF vars, entries
<1> QED BY <1>2, <1>3, <1>4, <1>5, <1>6, <1>7 DEF Next

(* No pool is forgotten: a provider that is up is the cached one of its    *)
(* slot and the sweep is armed, unless two operations met on that slot,    *)
(* whatever goes on elsewhere.                                             *)
THEOREM NoProviderIsForgotten == Spec => []NoneForgotten
<1>1. Init => CacheTypeOK /\ Swept
  BY TypeInit DEF Init, Swept
<1>2. CacheInv /\ Swept => NoneForgotten
  BY CacheAssumption DEF CacheInv, HeldInv, UpIsCached, NoneForgotten, Swept
<1> QED BY <1>1, <1>2, TypeStep, SweptStep, CacheInvAlways, PTL DEF Spec

(* A cached provider's tunnel is open and pooled, or lost with its SSH     *)
(* connection, unless an acquisition of the place met another, or a        *)
(* removal; the sweep and the other places may do what they like.          *)
THEOREM TunnelsAreKept == Spec => []TunnelKept
<1>1. CacheInv => TunnelKept
  BY DEF CacheInv, PipeInv, KeptOpen, TunnelKept
<1> QED BY <1>1, CacheInvAlways, PTL

=============================================================================
