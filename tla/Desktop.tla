------------------------------- MODULE Desktop -------------------------------
(***************************************************************************)
(* The desktop shell in desktop/src-tauri/src: a supervisor thread that     *)
(* starts the server as a sidecar process, waits for its health, watches it *)
(* and restarts it within a budget, and the exit handler that takes the     *)
(* server down.  The two share a mutex around the sidecar's handle and the  *)
(* shutting_down flag.  Servers may die at any moment, and the shell may be *)
(* killed at any moment.  What is modelled is the Linux build, the only one *)
(* tauri.conf.json bundles: the kernel sends a server SIGTERM when the      *)
(* thread that started it ends (attach_parent_death_signal).                *)
(***************************************************************************)
EXTENDS Integers, FiniteSets

CONSTANTS Servers,      \* process identities, used again once a process is dead
          MaxRestarts,  \* backoff::MAX_RESTARTS
          None

ASSUME DesktopAssumption ==
  /\ None \notin Servers \cup {"supervisor", "exit"} /\ MaxRestarts \in Nat

VARIABLES
  alive, signalled, armed,  \* processes: running, sent SIGTERM, set to be sent
                            \* it when the supervisor's thread ends
  pc,        \* where supervise() is
  fresh,     \* the process the supervisor has started and not yet stored
  attempt,   \* its restart counter
  slot,      \* DesktopState.sidecar: the handle, or None
  lock,      \* who holds its mutex over a wait: None, "supervisor", "exit"
  stopping,  \* the process that wait is for
  shuttingDown,  \* the flag
  shell,     \* "up", "exiting" (the flag is set), "waiting" (for a server to
             \* stop), "stopped" (the handler has returned), "gone"
  late,      \* number of servers started since the flag was set (history)
  orphans    \* processes a dying shell had forked but not armed (history)

servers == <<alive, signalled, armed>>
handle  == <<slot, lock, stopping>>
vars == <<servers, pc, fresh, attempt, handle, shuttingDown, shell, late, orphans>>

PCs == {"start", "forked", "store", "gate", "timedOut", "stopping", "handoff",
        "watch", "down", "backoff", "ended"}

Init ==
  /\ alive = {} /\ signalled = {} /\ armed = {}
  /\ pc = "start" /\ fresh = None /\ attempt = 0
  /\ slot = None /\ lock = None /\ stopping = None
  /\ shuttingDown = FALSE /\ shell = "up" /\ late = 0 /\ orphans = {}

-----------------------------------------------------------------------------
(* The supervisor *)

Running == slot \in alive    \* sidecar_running(), under the mutex

(* The supervisor's thread ends: the kernel signals what it has started. *)
ThreadEnds == signalled' = signalled \cup (alive \cap armed)

(* Sidecar::spawn forks; the child arms its own death signal before it execs. *)
Spawn == \E s \in Servers \ (alive \cup {slot}) :
  /\ pc = "start"
  /\ alive' = alive \cup {s} /\ fresh' = s /\ pc' = "forked"
  /\ late' = IF shuttingDown THEN late + 1 ELSE late
  /\ UNCHANGED <<signalled, armed, attempt, handle, shuttingDown, shell, orphans>>

(* No free port, or the process cannot be started: supervise returns an error. *)
SpawnFails ==
  /\ pc = "start" /\ pc' = "ended"
  /\ ThreadEnds
  /\ UNCHANGED <<alive, armed, fresh, attempt, handle, shuttingDown, shell, late, orphans>>

(* Mutation: the child is started without its death signal. *)
Armed_not ==
  /\ pc = "forked" /\ pc' = "store"
  /\ UNCHANGED <<servers, fresh, attempt, handle, shuttingDown, shell, late, orphans>>

(* The child has called prctl, and spawn returns. *)
Armed ==
  /\ pc = "forked" /\ pc' = "store"
  /\ armed' = armed \cup ({fresh} \cap alive)
  /\ UNCHANGED <<alive, signalled, fresh, attempt, handle, shuttingDown, shell, late, orphans>>

(* set_sidecar.  The handle it replaces is dropped, and Drop has a process to *)
(* stop only if OneServer is false.                                         *)
SetSidecar ==
  /\ pc = "store" /\ lock = None
  /\ slot' = fresh /\ fresh' = None /\ pc' = "gate"
  /\ UNCHANGED <<servers, attempt, lock, stopping, shuttingDown, shell, late, orphans>>

(* Mutation: a server that came up clears the restart counter. *)
GateHealthy_resets ==
  /\ pc = "gate" /\ lock = None /\ Running
  /\ pc' = "handoff" /\ attempt' = 0
  /\ UNCHANGED <<servers, fresh, handle, shuttingDown, shell, late, orphans>>

(* wait_for_health: the endpoint answers 200. *)
GateHealthy ==
  /\ pc = "gate" /\ lock = None /\ Running
  /\ pc' = "handoff"
  /\ UNCHANGED <<servers, fresh, attempt, handle, shuttingDown, shell, late, orphans>>

(* The handle is empty, or its process has exited. *)
GateExited ==
  /\ pc = "gate" /\ lock = None /\ ~Running
  /\ pc' = "down"
  /\ UNCHANGED <<servers, fresh, attempt, handle, shuttingDown, shell, late, orphans>>

(* Mutation: the server that did not come up in time is left running. *)
GateTimeout_abandons ==
  /\ pc = "gate" /\ pc' = "down"
  /\ UNCHANGED <<servers, fresh, attempt, handle, shuttingDown, shell, late, orphans>>

(* The deadline has passed. *)
GateTimeout ==
  /\ pc = "gate" /\ pc' = "timedOut"
  /\ UNCHANGED <<servers, fresh, attempt, handle, shuttingDown, shell, late, orphans>>

(* stop_sidecar takes the handle; shutdown() does nothing for a dead process, *)
(* and otherwise sends SIGTERM and waits, the mutex held.                   *)
StopSidecar(by) ==
  /\ lock = None
  /\ slot' = None
  /\ IF Running
     THEN signalled' = signalled \cup {slot} /\ lock' = by /\ stopping' = slot
     ELSE UNCHANGED <<signalled, lock, stopping>>

Ended(s) == /\ alive' = alive \ {s}
            /\ signalled' = signalled \ {s} /\ armed' = armed \ {s}

(* The process has exited or the grace has run out and it is killed. *)
StopEnds(by) ==
  /\ lock = by
  /\ Ended(stopping)
  /\ lock' = None /\ stopping' = None
  /\ UNCHANGED slot

StopTimedOut ==
  /\ pc = "timedOut" /\ StopSidecar("supervisor")
  /\ pc' = IF Running THEN "stopping" ELSE "down"
  /\ UNCHANGED <<alive, armed, fresh, attempt, shuttingDown, shell, late, orphans>>

TimedOutStopped ==
  /\ pc = "stopping" /\ StopEnds("supervisor")
  /\ pc' = "down"
  /\ UNCHANGED <<fresh, attempt, shuttingDown, shell, late, orphans>>

(* wait_for_admin_password has an answer and the window goes to the server. *)
Handoff ==
  /\ pc = "handoff" /\ pc' = "watch"
  /\ UNCHANGED <<servers, fresh, attempt, handle, shuttingDown, shell, late, orphans>>

(* Mutation: the error is logged and the thread stays, with its server. *)
HandoffFails_stays ==
  /\ pc = "handoff" /\ pc' = "ended"
  /\ UNCHANGED <<servers, fresh, attempt, handle, shuttingDown, shell, late, orphans>>

(* The window cannot be navigated: supervise returns an error. *)
HandoffFails ==
  /\ pc = "handoff" /\ pc' = "ended"
  /\ ThreadEnds
  /\ UNCHANGED <<alive, armed, fresh, attempt, handle, shuttingDown, shell, late, orphans>>

(* The poll of every SUPERVISE_INTERVAL finds no running sidecar. *)
SeesItDown ==
  /\ pc = "watch" /\ lock = None /\ ~Running
  /\ pc' = "down"
  /\ UNCHANGED <<servers, fresh, attempt, handle, shuttingDown, shell, late, orphans>>

(* Mutation: the flag is not looked at. *)
Restart_onTheWayOut ==
  /\ pc = "down"
  /\ attempt < MaxRestarts
  /\ attempt' = attempt + 1 /\ pc' = "backoff"
  /\ UNCHANGED <<servers, fresh, handle, shuttingDown, shell, late, orphans>>

(* restart_delay has a delay left for this attempt. *)
Restart ==
  /\ pc = "down" /\ ~shuttingDown
  /\ attempt < MaxRestarts
  /\ attempt' = attempt + 1 /\ pc' = "backoff"
  /\ UNCHANGED <<servers, fresh, handle, shuttingDown, shell, late, orphans>>

(* The app is on its way out, or the budget is spent. *)
GiveUp ==
  /\ pc = "down" /\ (shuttingDown \/ attempt = MaxRestarts)
  /\ pc' = "ended"
  /\ ThreadEnds
  /\ UNCHANGED <<alive, armed, fresh, attempt, handle, shuttingDown, shell, late, orphans>>

(* The delay is over; the flag is not read again. *)
Wake ==
  /\ pc = "backoff" /\ pc' = "start"
  /\ UNCHANGED <<servers, fresh, attempt, handle, shuttingDown, shell, late, orphans>>

-----------------------------------------------------------------------------
(* The exit handler, and processes that end *)

(* RunEvent::Exit: shutdown() sets the flag. *)
Exit ==
  /\ shell = "up"
  /\ shell' = "exiting" /\ shuttingDown' = TRUE
  /\ UNCHANGED <<servers, pc, fresh, attempt, handle, late, orphans>>

(* Its stop_sidecar. *)
ExitStops ==
  /\ shell = "exiting" /\ StopSidecar("exit")
  /\ shell' = IF Running THEN "waiting" ELSE "stopped"
  /\ UNCHANGED <<alive, armed, pc, fresh, attempt, shuttingDown, late, orphans>>

ExitStopped ==
  /\ shell = "waiting" /\ StopEnds("exit")
  /\ shell' = "stopped"
  /\ UNCHANGED <<pc, fresh, attempt, shuttingDown, late, orphans>>

(* The process ends: after its handler, or killed at any moment.  A child   *)
(* that has not armed its signal yet is sent none.                          *)
ShellEnds ==
  /\ shell # "gone" /\ shell' = "gone"
  /\ ThreadEnds
  /\ orphans' = IF pc = "forked" THEN {fresh} \cap alive ELSE {}
  /\ pc' = "ended" /\ lock' = None /\ stopping' = None
  /\ UNCHANGED <<alive, armed, fresh, attempt, slot, shuttingDown, late>>

(* A server dies: of its own, or because it was told to. *)
ServerDies(s) ==
  /\ s \in alive /\ Ended(s)
  /\ UNCHANGED <<pc, fresh, attempt, handle, shuttingDown, shell, late, orphans>>

Obeys(s) == s \in signalled /\ ServerDies(s)

(* Nothing is left to do. *)
AllOver == shell = "gone" /\ UNCHANGED vars

Supervise ==
  \/ Spawn \/ SpawnFails \/ Armed \/ SetSidecar
  \/ GateHealthy \/ GateExited \/ GateTimeout \/ StopTimedOut \/ TimedOutStopped
  \/ Handoff \/ HandoffFails \/ SeesItDown \/ Restart \/ GiveUp \/ Wake

Next ==
  \/ Spawn \/ SpawnFails \/ Armed \/ SetSidecar
  \/ GateHealthy \/ GateExited \/ GateTimeout \/ StopTimedOut \/ TimedOutStopped
  \/ Handoff \/ HandoffFails \/ SeesItDown \/ Restart \/ GiveUp \/ Wake
  \/ Exit \/ ExitStops \/ ExitStopped \/ ShellEnds
  \/ \E s \in Servers : ServerDies(s)
  \/ AllOver

Spec == Init /\ [][Next]_vars

(* Both threads go on while they can; the handler returns and the process   *)
(* ends; a server that has been told to ends.                               *)
Fairness ==
  /\ WF_vars(Supervise)
  /\ WF_vars(ExitStops) /\ WF_vars(ExitStopped)
  /\ WF_vars(shell = "stopped" /\ ShellEnds)
  /\ \A s \in Servers : WF_vars(Obeys(s))

FairSpec == Spec /\ Fairness

-----------------------------------------------------------------------------
(* Properties *)

(* Every variable stays within its type; the mutex is held exactly over a   *)
(* wait, and never over one for a process the handle still names.           *)
DesktopTypeOK ==
  /\ alive \subseteq Servers /\ signalled \subseteq Servers /\ armed \subseteq Servers
  /\ pc \in PCs /\ fresh \in Servers \cup {None} /\ slot \in Servers \cup {None}
  /\ attempt \in 0..MaxRestarts
  /\ lock \in {None, "supervisor", "exit"} /\ stopping \in Servers \cup {None}
  /\ (lock = None <=> stopping = None)
  /\ (stopping # None => stopping # slot)
  /\ shell \in {"up", "exiting", "waiting", "stopped", "gone"}
  /\ shuttingDown \in BOOLEAN /\ late \in Nat /\ orphans \subseteq Servers

(* Two servers never run at once on the one storage database: neither a     *)
(* timeout nor an exit under way lets the supervisor start a second.        *)
OneServer == Cardinality(alive) <= 1

(* Once the app is exiting at most one more server is started: the one a    *)
(* supervisor was already waiting to start when the flag was set.           *)
OneLateStart == late <= 1

(* Nobody is left behind: when the supervisor's thread has ended, for want  *)
(* of budget, by an error, at the exit or with a killed shell, every server *)
(* still running has been told to stop, those a dying shell had only just   *)
(* forked excepted.                                                         *)
NoneLeftUntold == pc = "ended" => alive \subseteq signalled \cup orphans

(* The supervisor ends up watching a server or ended: it does not restart   *)
(* one for ever, however often they come up and die.                        *)
SupervisionSettles == <>[](pc \in {"watch", "ended"})

(* Once the app is exiting, or the shell has been killed, no server stays,  *)
(* those a dying shell had only just forked excepted.                       *)
TakenDown == (shell # "up") ~> (alive \subseteq orphans)

=============================================================================
