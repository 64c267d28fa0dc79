--------------------------- MODULE ProviderCache ---------------------------
(***************************************************************************)
(* The database providers and SSH tunnels of one stored connection: the    *)
(* writable cache, the execution-profile cache, the idle sweep and the     *)
(* teardown (src/src/lib/db/factory.ts), over the tunnel pool              *)
(* (src/src/lib/ssh/tunnel.ts).                                            *)
(*                                                                         *)
(* A call opens at most one provider and one tunnel, so both are named by  *)
(* the call that opened them.  One step runs up to the next await on the   *)
(* network; cache and pool are read and written between the awaits only.   *)
(***************************************************************************)
EXTENDS Naturals, FiniteSets

CONSTANTS
  Calls, None,      \* acquisitions; undefined
  Removals, Sweep,  \* calls of removeProvider; the sweep timer's callback
  Slots,            \* cache keys, and "one-shot" for withOneShotTunnel
  Configs,          \* the connection as callers send it, edits included: where it points
                    \* (bastion route and far end, or file) and its credentials
  Tunnelled, SingleWriter,
  MaxDrops          \* bound: SSH connections lost

Janitors == Removals \cup {Sweep}
Caches   == Slots \ {"one-shot"}
Profiles == Slots \ {"shared", "one-shot"}
Places   == {k.place : k \in Configs}

ASSUME CacheAssumption ==
  /\ None \notin Calls /\ Sweep \notin Removals /\ Calls \cap Janitors = {}
  /\ IsFiniteSet(Calls) /\ IsFiniteSet(Removals)
  /\ Slots \subseteq {"shared", "agent-read-only", "agent-operations", "agent-handover", "one-shot"}
  /\ "one-shot" \in Slots => Tunnelled    \* otherwise it opens nothing of its own
  /\ \A k \in Configs : k.agent \in {"none", "whole", "broken"}
  /\ Tunnelled \in BOOLEAN /\ SingleWriter \in BOOLEAN /\ MaxDrops \in Nat

VARIABLES
  cache, idle,      \* per slot: the cached provider; unused for IDLE_TIMEOUT_MS
  prov, via,        \* per provider: its life; the tunnel it was opened through
  tun, activeTunnels,
  sweepTimer,
  pc, slot, config, preexisted, got, victim,
  jpc, jslot, jvictim, due,
  drops,
  raced, crossed    \* history: slots two operations met on; places where an
                    \* acquisition met another, or a removal

entries == <<cache, idle, sweepTimer>>
handles == <<prov, via>>
tunnels == <<tun, activeTunnels>>
call    == <<pc, slot, config, preexisted, got, victim>>
janitor == <<jpc, jslot, jvictim, due>>
vars    == <<entries, handles, tunnels, call, janitor, drops, raced, crossed>>

Init ==
  /\ cache = [s \in Caches |-> None] /\ idle = [s \in Caches |-> FALSE] /\ sweepTimer = FALSE
  /\ prov = [c \in Calls |-> "none"] /\ via = [c \in Calls |-> None]
  /\ tun = [c \in Calls |-> "none"] /\ activeTunnels = [f \in Places |-> None]
  /\ pc = [c \in Calls |-> "idle"] /\ slot \in [Calls -> Slots] /\ config \in [Calls -> Configs]
  /\ preexisted = [c \in Calls |-> FALSE]
  /\ got = [c \in Calls |-> None] /\ victim = [c \in Calls |-> None]
  /\ jpc = [j \in Janitors |-> "idle"] /\ jslot = [j \in Janitors |-> "none"]
  /\ jvictim = [j \in Janitors |-> None] /\ due = {}
  /\ drops = 0 /\ raced = {} /\ crossed = {}

Goto(c, label)  == pc' = [pc EXCEPT ![c] = label]
JGoto(j, label) == jpc' = [jpc EXCEPT ![j] = label]

(* Who is about to change the entry of a slot, with an await still to end. *)
AtSlot(s) == {c \in Calls : slot[c] = s /\ pc[c] \in {"replacing", "opening", "connecting"}}
             \cup {j \in Janitors : jslot[j] = s /\ jpc[j] = "awaiting"}

(* Who has looked at the tunnel of a place and not yet connected through it. *)
AtPlace(f) == {c \in Calls : /\ config[c].place = f /\ slot[c] # "one-shot"
                             /\ pc[c] \in {"opening", "connecting"}}

Tearing == {j \in Removals : jpc[j] \in {"looping", "awaiting"}}

Watch ==
  /\ raced' = raced \cup {s \in Caches : \E x, y \in AtSlot(s)' : x # y}
  /\ crossed' = crossed \cup
       {f \in Places : \E x \in AtPlace(f)' : Tearing' # {} \/ \E y \in AtPlace(f)' : x # y}

-----------------------------------------------------------------------------
(* Providers and tunnels *)

(* isConnected() turns false only when disconnect() has finished. *)
IsConnected(p) == prov[p] \in {"up", "ending"}

Disconnect(p) == prov' = [prov EXCEPT ![p] = IF @ = "up" THEN "ending" ELSE @]

(* The await of a disconnect ends, with or without an error. *)
Disconnected(p) ==
  /\ prov[p] = "ending"
  /\ prov' = [prov EXCEPT ![p] = "down"]
  /\ UNCHANGED <<entries, via, tunnels, call, janitor, drops>> /\ Watch

Place(c) == config[c].place

(* cleanup: a pooled tunnel deletes the entry under its key, whosever      *)
(* tunnel is there by now.                                                 *)
Cleanup(t, how) ==
  /\ tun' = [tun EXCEPT ![t] = how]
  /\ activeTunnels' = IF slot[t] = "one-shot" THEN activeTunnels
                      ELSE [activeTunnels EXCEPT ![Place(t)] = None]

(* closeSSHTunnel: every tunnel pooled for the connection. *)
CloseSSHTunnel ==
  /\ tun' = [t \in Calls |-> IF \E f \in Places : activeTunnels[f] = t THEN "closed" ELSE tun[t]]
  /\ activeTunnels' = [f \in Places |-> None]

(* The SSH client of an open tunnel reports an error. *)
TunnelDrops(t) ==
  /\ tun[t] = "open" /\ drops < MaxDrops /\ drops' = drops + 1
  /\ Cleanup(t, "dropped")
  /\ UNCHANGED <<entries, handles, call, janitor>> /\ Watch

-----------------------------------------------------------------------------
(* getOrCreateProvider and acquireExecutionProfileProvider *)

Return(c, p) == Goto(c, "done") /\ got' = [got EXCEPT ![c] = p]

(* Mutation: the borrow forgets the agent's credential. *)
MayBorrow_anyCredential(c) == slot[c] = "agent-operations"

(* findOpenSingleWriterProvider, for the profile that sends no statements  *)
(* and a connection with no credential of the agent's own.                 *)
MayBorrow(c) == slot[c] = "agent-operations" /\ config[c].agent = "none"

Borrowed(c) ==
  IF MayBorrow(c) /\ SingleWriter /\ "shared" \in Slots
    THEN {p \in {cache["shared"]} \ {None} : IsConnected(p) /\ Place(p) = Place(c)}
    ELSE {}

(* resolveAgentCredential throws on a broken one. *)
Refused(c) == slot[c] \in Profiles /\ config[c].agent = "broken"

(* From the cache miss to the next await: the credential, the borrow, then *)
(* hasTunnel and createSSHTunnel up to the SSH handshake.                  *)
Proceed(c) ==
  \/ Refused(c) /\ Goto(c, "failed") /\ UNCHANGED <<got, via, preexisted, tun>>
  \/ /\ ~Refused(c)
     /\ \E p \in Borrowed(c) : Return(c, p)
     /\ UNCHANGED <<via, preexisted, tun>>
  \/ /\ ~Refused(c) /\ Borrowed(c) = {}
     /\ UNCHANGED got
     /\ LET pooled == IF Tunnelled THEN activeTunnels[Place(c)] ELSE None
        IN  \/ /\ ~Tunnelled
               /\ Goto(c, "connecting") /\ UNCHANGED <<via, preexisted, tun>>
            \/ /\ pooled # None
               /\ via' = [via EXCEPT ![c] = pooled]
               /\ preexisted' = [preexisted EXCEPT ![c] = TRUE]
               /\ Goto(c, "connecting") /\ UNCHANGED tun
            \/ /\ Tunnelled /\ pooled = None
               /\ tun' = [tun EXCEPT ![c] = "opening"]
               /\ Goto(c, "opening") /\ UNCHANGED <<via, preexisted>>

(* providerConfigKey: a digest of everything but presentation, so two are  *)
(* equal when the settings are.                                            *)
ConfigKey(c) == config[c]

(* A cached provider opened with the caller's settings is returned while   *)
(* it calls itself connected.                                              *)
Hit(c) ==
  /\ pc[c] = "idle" /\ slot[c] \in Caches
  /\ LET p == cache[slot[c]]
     IN  p # None /\ ConfigKey(p) = ConfigKey(c) /\ IsConnected(p) /\ Return(c, p)
  /\ idle' = [idle EXCEPT ![slot[c]] = FALSE]
  /\ UNCHANGED <<cache, sweepTimer, handles, tunnels, slot, config, preexisted, victim, janitor, drops>>
  /\ Watch

(* Mutation: it is not disconnected, only replaced. *)
Replace_keepsOpen(c) ==
  /\ pc[c] = "idle" /\ slot[c] \in Caches
  /\ LET p == cache[slot[c]] IN p # None /\ ConfigKey(p) # ConfigKey(c)
  /\ Proceed(c)
  /\ UNCHANGED <<entries, prov, activeTunnels, slot, config, victim, janitor, drops>> /\ Watch

(* One opened with other settings is disconnected first ...                *)
Replace(c) ==
  /\ pc[c] = "idle" /\ slot[c] \in Caches
  /\ LET p == cache[slot[c]]
     IN  p # None /\ ConfigKey(p) # ConfigKey(c) /\ Disconnect(p) /\ victim' = [victim EXCEPT ![c] = p]
  /\ Goto(c, "replacing")
  /\ UNCHANGED <<entries, via, tunnels, slot, config, preexisted, got, janitor, drops>> /\ Watch

(* ... and whatever the key holds after that await is deleted.             *)
Replaced(c) ==
  /\ pc[c] = "replacing" /\ prov[victim[c]] = "down"
  /\ cache' = [cache EXCEPT ![slot[c]] = None]
  /\ Proceed(c)
  /\ UNCHANGED <<idle, sweepTimer, prov, activeTunnels, slot, config, victim, janitor, drops>> /\ Watch

Miss(c) ==
  /\ pc[c] = "idle" /\ slot[c] \in Caches
  /\ LET p == cache[slot[c]]
     IN  p # None => ConfigKey(p) = ConfigKey(c) /\ ~IsConnected(p)
  /\ Proceed(c)
  /\ UNCHANGED <<entries, prov, activeTunnels, slot, config, victim, janitor, drops>> /\ Watch

(* withOneShotTunnel: never pooled, never reused. *)
OneShot(c) ==
  /\ pc[c] = "idle" /\ slot[c] = "one-shot"
  /\ tun' = [tun EXCEPT ![c] = "opening"] /\ Goto(c, "opening")
  /\ UNCHANGED <<entries, handles, activeTunnels, slot, config, preexisted, got, victim, janitor, drops>>
  /\ Watch

(* The local server listens: the tunnel is pooled under its key, over      *)
(* whatever is there.                                                      *)
TunnelOpens(c) ==
  /\ pc[c] = "opening"
  /\ tun' = [tun EXCEPT ![c] = "open"] /\ via' = [via EXCEPT ![c] = c]
  /\ activeTunnels' = IF slot[c] = "one-shot" THEN activeTunnels
                      ELSE [activeTunnels EXCEPT ![Place(c)] = c]
  /\ Goto(c, "connecting")
  /\ UNCHANGED <<entries, prov, slot, config, preexisted, got, victim, janitor, drops>> /\ Watch

TunnelFails(c) ==
  /\ pc[c] = "opening"
  /\ Cleanup(c, "closed") /\ Goto(c, "failed")
  /\ UNCHANGED <<entries, handles, slot, config, preexisted, got, victim, janitor, drops>> /\ Watch

-----------------------------------------------------------------------------
(* A closed tunnel connects to nothing, and a single-writer file admits    *)
(* one handle.                                                             *)
Reachable(c) ==
  /\ via[c] # None => tun[via[c]] = "open"
  /\ SingleWriter => \A p \in Calls : prov[p] \in {"up", "ending"} => Place(p) # Place(c)

(* Mutation: the profiled cache does not start the sweep. *)
StartIdleSweep_sharedOnly(c) == sweepTimer' = (sweepTimer \/ slot[c] = "shared")

StartIdleSweep(c) == sweepTimer' = TRUE

(* Connected: the provider enters the cache over whatever is there.        *)
Connected(c) ==
  /\ pc[c] = "connecting" /\ slot[c] \in Caches /\ Reachable(c)
  /\ prov' = [prov EXCEPT ![c] = "up"]
  /\ cache' = [cache EXCEPT ![slot[c]] = c] /\ idle' = [idle EXCEPT ![slot[c]] = FALSE]
  /\ StartIdleSweep(c) /\ Return(c, c)
  /\ UNCHANGED <<via, tunnels, slot, config, preexisted, victim, janitor, drops>> /\ Watch

(* Mutation: the tunnel is closed whoever opened it. *)
ConnectFails_anyTunnel(c) ==
  /\ pc[c] = "connecting" /\ slot[c] \in Caches
  /\ IF via[c] = None THEN UNCHANGED tunnels ELSE Cleanup(via[c], "closed")
  /\ Goto(c, "failed")
  /\ UNCHANGED <<entries, handles, slot, config, preexisted, got, victim, janitor, drops>> /\ Watch

(* The provider has no read-only path, or connect() throws: a tunnel this  *)
(* call opened is closed.                                                  *)
ConnectFails(c) ==
  /\ pc[c] = "connecting" /\ slot[c] \in Caches
  /\ IF via[c] = None \/ preexisted[c] THEN UNCHANGED tunnels ELSE Cleanup(via[c], "closed")
  /\ Goto(c, "failed")
  /\ UNCHANGED <<entries, handles, slot, config, preexisted, got, victim, janitor, drops>> /\ Watch

(* createDatabaseProvider throws, in the import or the provider's own      *)
(* validate(): outside the try, so the tunnel stays as it is.              *)
CreateFails(c) ==
  /\ pc[c] = "connecting" /\ slot[c] \in Caches
  /\ Goto(c, "failed")
  /\ UNCHANGED <<entries, handles, tunnels, slot, config, preexisted, got, victim, janitor, drops>>
  /\ Watch

(* The callback of withOneShotTunnel ends, well or badly. *)
OneShotEnds(c) ==
  /\ pc[c] = "connecting" /\ slot[c] = "one-shot"
  /\ Cleanup(c, "closed") /\ Goto(c, "done")
  /\ UNCHANGED <<entries, handles, slot, config, preexisted, got, victim, janitor, drops>> /\ Watch

-----------------------------------------------------------------------------
(* evictIdleProviders *)

GoesIdle(s) ==
  /\ cache[s] # None /\ ~idle[s]
  /\ idle' = [idle EXCEPT ![s] = TRUE]
  /\ UNCHANGED <<cache, sweepTimer, handles, tunnels, call, janitor, drops>> /\ Watch

StartSweep ==
  /\ sweepTimer /\ jpc[Sweep] = "idle"
  /\ due' = {s \in Caches : cache[s] # None /\ idle[s]}
  /\ JGoto(Sweep, "looping")
  /\ UNCHANGED <<entries, handles, tunnels, call, jslot, jvictim, drops>> /\ Watch

(* The writable cache first; an entry gone or used since is passed over. *)
SweepVisits(s) ==
  /\ jpc[Sweep] = "looping" /\ s \in due /\ (s # "shared" => "shared" \notin due)
  /\ IF cache[s] # None /\ idle[s]
       THEN /\ Disconnect(cache[s]) /\ JGoto(Sweep, "awaiting")
            /\ jslot' = [jslot EXCEPT ![Sweep] = s]
            /\ jvictim' = [jvictim EXCEPT ![Sweep] = cache[s]]
       ELSE UNCHANGED <<prov, jpc, jslot, jvictim>>
  /\ due' = due \ {s}
  /\ UNCHANGED <<entries, via, tunnels, call, drops>> /\ Watch

Delete(s) == cache' = [cache EXCEPT ![s] = None]

(* connectionStillServed, with the entry just deleted. *)
ConnectionStillServed(s) == \E t \in Caches \ {s} : cache[t] # None

SweepEvicts ==
  /\ jpc[Sweep] = "awaiting" /\ prov[jvictim[Sweep]] = "down"
  /\ Delete(jslot[Sweep])
  /\ IF ConnectionStillServed(jslot[Sweep]) THEN UNCHANGED tunnels ELSE CloseSSHTunnel
  /\ JGoto(Sweep, "looping")
  /\ UNCHANGED <<idle, sweepTimer, handles, call, jslot, jvictim, due, drops>> /\ Watch

EndSweep ==
  /\ jpc[Sweep] = "looping" /\ due = {}
  /\ sweepTimer' = (sweepTimer /\ \E s \in Caches : cache[s] # None)
  /\ JGoto(Sweep, "idle")
  /\ UNCHANGED <<cache, idle, handles, tunnels, call, jslot, jvictim, due, drops>> /\ Watch

-----------------------------------------------------------------------------
(* removeProvider: the writable entry, then every profiled one there is,   *)
(* then the tunnels.                                                       *)

RemoveVisits(j, s) ==
  /\ \/ jpc[j] = "idle" /\ s = "shared"
     \/ jpc[j] = "idle" /\ s # "shared" /\ ("shared" \in Slots => cache["shared"] = None)
     \/ jpc[j] = "looping" /\ s # "shared"
  /\ cache[s] # None /\ Disconnect(cache[s])
  /\ jslot' = [jslot EXCEPT ![j] = s] /\ jvictim' = [jvictim EXCEPT ![j] = cache[s]]
  /\ JGoto(j, "awaiting")
  /\ UNCHANGED <<entries, via, tunnels, call, due, drops>> /\ Watch

RemoveDeletes(j) ==
  /\ jpc[j] = "awaiting" /\ prov[jvictim[j]] = "down"
  /\ Delete(jslot[j]) /\ JGoto(j, "looping")
  /\ UNCHANGED <<idle, sweepTimer, handles, tunnels, call, jslot, jvictim, due, drops>> /\ Watch

RemoveEnds(j) ==
  /\ \/ jpc[j] = "idle" /\ \A s \in Caches : cache[s] = None
     \/ jpc[j] = "looping" /\ \A s \in Caches \ {"shared"} : cache[s] = None
  /\ CloseSSHTunnel /\ JGoto(j, "done")
  /\ UNCHANGED <<entries, handles, call, jslot, jvictim, due, drops>> /\ Watch

-----------------------------------------------------------------------------
CallStep(c) ==
  \/ Hit(c) \/ Replace(c) \/ Replaced(c) \/ Miss(c) \/ OneShot(c)
  \/ TunnelOpens(c) \/ TunnelFails(c) \/ Connected(c) \/ ConnectFails(c) \/ CreateFails(c)
  \/ OneShotEnds(c)

SweepStep == StartSweep \/ (\E s \in Caches : SweepVisits(s)) \/ SweepEvicts \/ EndSweep

RemoveStep(j) == (\E s \in Caches : RemoveVisits(j, s)) \/ RemoveDeletes(j) \/ RemoveEnds(j)

Next ==
  \/ \E c \in Calls : CallStep(c) \/ Disconnected(c) \/ TunnelDrops(c)
  \/ \E s \in Caches : GoesIdle(s)
  \/ SweepStep
  \/ \E j \in Removals : RemoveStep(j)

Spec == Init /\ [][Next]_vars

(* Awaits end, time passes and the timer fires; nobody has to call.        *)
FairSpec ==
  /\ Spec
  /\ \A c \in Calls : WF_vars(pc[c] # "idle" /\ CallStep(c)) /\ WF_vars(Disconnected(c))
  /\ \A s \in Caches : WF_vars(GoesIdle(s))
  /\ WF_vars(SweepStep)
  /\ \A j \in Removals : WF_vars(jpc[j] # "idle" /\ RemoveStep(j))

-----------------------------------------------------------------------------
(* Whatever raced whatever, a caller holds a provider opened for its own   *)
(* slot with its own settings: the editor never gets a profiled handle,    *)
(* an agent never the writable one, except the borrow of a single-writer   *)
(* file under the connection's own credentials.                            *)
Isolated ==
  \A c \in Calls : got[c] # None =>
    LET p == got[c]
    IN  \/ slot[p] = slot[c] /\ config[p] = config[c]
        \/ /\ slot[c] = "agent-operations" /\ slot[p] = "shared" /\ SingleWriter
           /\ Place(p) = Place(c) /\ config[c].agent = "none"

(* No pool is forgotten: a provider that is up is the cached one of its    *)
(* slot, where the next settings change finds it and the sweep that is     *)
(* armed evicts it, whatever overlaps it elsewhere, as long as no two      *)
(* operations met on that slot.                                            *)
NoneForgotten ==
  \A c \in Calls : prov[c] = "up" /\ slot[c] \notin raced => cache[slot[c]] = c /\ sweepTimer

(* A cached provider's tunnel was not closed under it, and teardown can    *)
(* still find it, through failures, edits, one-shot tunnels, evictions and *)
(* whatever happens at other places, until an acquisition of its own place *)
(* met another one, or a removal.                                          *)
TunnelKept ==
  \A s \in Caches :
    LET p == cache[s]
    IN  p # None /\ prov[p] = "up" /\ via[p] # None /\ Place(p) \notin crossed =>
          tun[via[p]] = "dropped" \/ (tun[via[p]] = "open" /\ activeTunnels[Place(p)] = via[p])

(* A provider nobody asks for again is evicted: the sweep is running       *)
(* whenever there is something to sweep, and every entry gets its turn.    *)
IdleEvicted == \A c \in Calls : slot[c] \in Caches => (cache[slot[c]] = c ~> cache[slot[c]] # c)

=============================================================================
