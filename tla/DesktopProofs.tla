---------------------------- MODULE DesktopProofs ----------------------------
(* The desktop shell for every set of servers and every restart budget.     *)
EXTENDS Desktop, FiniteSetTheorems, TLAPS

LEMMA StepCases ==
  ASSUME [Next]_vars
  PROVE  \/ Spawn \/ SpawnFails \/ Armed \/ SetSidecar
         \/ GateHealthy \/ GateExited \/ GateTimeout \/ StopTimedOut \/ TimedOutStopped
         \/ Handoff \/ HandoffFails \/ SeesItDown \/ Restart \/ GiveUp \/ Wake
         \/ Exit \/ ExitStops \/ ExitStopped \/ ShellEnds
         \/ \E s \in Servers : ServerDies(s)
         \/ UNCHANGED vars
BY DEF Next, AllOver

-----------------------------------------------------------------------------
(* Type correctness *)

(* While a thread waits for a process to stop the handle is empty: taking   *)
(* it and waiting happen under one lock.                                    *)
EmptyWhileStopping == stopping # None => slot = None

TypeInv == DesktopTypeOK /\ EmptyWhileStopping

LEMMA DesktopTypeStep == ASSUME TypeInv, [Next]_vars PROVE TypeInv'
<1> USE DesktopAssumption DEF TypeInv, DesktopTypeOK, EmptyWhileStopping, PCs
<1>1. CASE Spawn
  BY <1>1 DEF Spawn, handle
<1>2. CASE SpawnFails
  BY <1>2 DEF SpawnFails, ThreadEnds, handle
<1>3. CASE Armed
  BY <1>3 DEF Armed, handle
<1>4. CASE SetSidecar
  BY <1>4 DEF SetSidecar, servers
<1>5. CASE GateHealthy \/ GateExited \/ GateTimeout
  BY <1>5 DEF GateHealthy, GateExited, GateTimeout, servers, handle
<1>6. CASE StopTimedOut
  BY <1>6 DEF StopTimedOut, StopSidecar, Running
<1>7. CASE TimedOutStopped
  BY <1>7 DEF TimedOutStopped, StopEnds, Ended
<1>8. CASE Handoff \/ SeesItDown \/ Wake
  BY <1>8 DEF Handoff, SeesItDown, Wake, servers, handle
<1>9. CASE HandoffFails \/ GiveUp
  BY <1>9 DEF HandoffFails, GiveUp, ThreadEnds, handle
<1>10. CASE Restart
  BY <1>10 DEF Restart, servers, handle
<1>11. CASE Exit
  BY <1>11 DEF Exit, servers, handle
<1>12. CASE ExitStops
  BY <1>12 DEF ExitStops, StopSidecar, Running
<1>13. CASE ExitStopped
  BY <1>13 DEF ExitStopped, StopEnds, Ended
<1>14. CASE ShellEnds
  BY <1>14 DEF ShellEnds, ThreadEnds
<1>15. ASSUME NEW s \in Servers, ServerDies(s) PROVE TypeInv'
  BY <1>15 DEF ServerDies, Ended, handle
<1>16. CASE UNCHANGED vars
  BY <1>16 DEF vars, servers, handle
<1> QED BY <1>1, <1>2, <1>3, <1>4, <1>5, <1>6, <1>7, <1>8, <1>9, <1>10, <1>11, <1>12,
       <1>13, <1>14, <1>15, <1>16, StepCases

LEMMA DesktopTypeInit == Init => TypeInv
<1> SUFFICES ASSUME Init PROVE TypeInv
  OBVIOUS
<1>1. /\ alive = {} /\ signalled = {} /\ armed = {} /\ orphans = {}
      /\ late = 0 /\ attempt = 0 /\ shuttingDown = FALSE
      /\ pc = "start" /\ shell = "up"
      /\ fresh = None /\ slot = None /\ lock = None /\ stopping = None
  BY DEF Init
<1>2. attempt \in 0..MaxRestarts /\ late \in Nat
  BY <1>1, DesktopAssumption
<1>3. shuttingDown \in BOOLEAN
  BY <1>1
<1>4. pc \in PCs
  BY <1>1 DEF PCs
<1> QED BY <1>1, <1>2, <1>3, <1>4 DEF TypeInv, DesktopTypeOK, EmptyWhileStopping

(* The mutex around the handle is held exactly over a wait.                 *)
THEOREM DesktopTypeCorrect == Spec => []DesktopTypeOK
<1>1. Init => TypeInv
  BY DesktopTypeInit
<1>2. TypeInv => DesktopTypeOK
  BY DEF TypeInv
<1> QED BY <1>1, <1>2, DesktopTypeStep, PTL DEF Spec

-----------------------------------------------------------------------------
(* One server at a time *)

(* Where the supervisor is says which processes can be alive: none before a *)
(* start, the new one until it is stored, then the one the handle names or, *)
(* once the handle has been taken, the one a thread is waiting for.         *)
WhoIsAlive ==
  /\ \A s, t \in alive : s = t
  /\ pc \in {"start", "down", "backoff"} => alive = {}
  /\ pc \in {"forked", "store"} => alive \subseteq {fresh}
  /\ pc \in {"gate", "timedOut", "handoff", "watch", "stopping"} => alive \subseteq {slot, stopping}
  /\ pc = "stopping" => lock = "supervisor"

LEMMA AliveStep == ASSUME TypeInv, WhoIsAlive, [Next]_vars PROVE WhoIsAlive'
<1> USE DesktopAssumption DEF TypeInv, DesktopTypeOK, EmptyWhileStopping, WhoIsAlive
<1>1. CASE Spawn
  BY <1>1 DEF Spawn, handle
<1>2. CASE SpawnFails
  BY <1>2 DEF SpawnFails, handle
<1>3. CASE Armed
  BY <1>3 DEF Armed, handle
<1>4. CASE SetSidecar
  BY <1>4 DEF SetSidecar, servers
<1>5. CASE GateHealthy \/ GateTimeout
  BY <1>5 DEF GateHealthy, GateTimeout, servers, handle
<1>6. CASE GateExited \/ SeesItDown
  <2>1. alive \subseteq {slot, stopping} /\ stopping = None /\ slot \notin alive
    BY <1>6 DEF GateExited, SeesItDown, Running
  <2>2. alive = {}
    BY <2>1
  <2> QED BY <1>6, <2>2 DEF GateExited, SeesItDown, servers, handle
<1>7. CASE StopTimedOut
  <2>1. alive \subseteq {slot} /\ alive' = alive /\ pc = "timedOut"
    BY <1>7 DEF StopTimedOut, StopSidecar
  <2>2. CASE Running
    BY <1>7, <2>1, <2>2 DEF StopTimedOut, StopSidecar
  <2>3. CASE ~Running
    <3>1. alive = {}
      BY <2>1, <2>3 DEF Running
    <3> QED BY <1>7, <2>1, <2>3, <3>1 DEF StopTimedOut, StopSidecar
  <2> QED BY <2>2, <2>3
<1>8. CASE TimedOutStopped
  <2>1. alive \subseteq {slot, stopping} /\ slot = None /\ alive' = alive \ {stopping}
    BY <1>8 DEF TimedOutStopped, StopEnds, Ended
  <2>2. alive' = {}
    BY <2>1
  <2> QED BY <1>8, <2>2 DEF TimedOutStopped, StopEnds
<1>9. CASE Handoff \/ HandoffFails \/ GiveUp
  BY <1>9 DEF Handoff, HandoffFails, GiveUp, servers, handle
<1>10. CASE Restart \/ Wake
  BY <1>10 DEF Restart, Wake, servers, handle
<1>11. CASE Exit
  BY <1>11 DEF Exit, servers, handle
<1>12. CASE ExitStops
  <2>1. alive' = alive /\ pc' = pc /\ fresh' = fresh /\ lock = None /\ stopping = None /\ slot' = None
    BY <1>12 DEF ExitStops, StopSidecar
  <2>2. CASE Running
    <3>1. stopping' = slot
      BY <1>12, <2>2 DEF ExitStops, StopSidecar
    <3> QED BY <2>1, <3>1
  <2>3. CASE ~Running
    <3>1. stopping' = None /\ slot \notin alive
      BY <1>12, <2>1, <2>3 DEF ExitStops, StopSidecar, Running
    <3> QED BY <2>1, <3>1
  <2> QED BY <2>2, <2>3
<1>13. CASE ExitStopped
  <2>1. /\ pc' = pc /\ fresh' = fresh /\ slot' = slot /\ lock = "exit"
        /\ alive' = alive \ {stopping}
    BY <1>13 DEF ExitStopped, StopEnds, Ended
  <2>2. pc # "stopping"
    BY <2>1
  <2> QED BY <2>1, <2>2
<1>14. CASE ShellEnds
  BY <1>14 DEF ShellEnds
<1>15. ASSUME NEW s \in Servers, ServerDies(s) PROVE WhoIsAlive'
  BY <1>15 DEF ServerDies, Ended, handle
<1>16. CASE UNCHANGED vars
  BY <1>16 DEF vars, servers, handle
<1> QED BY <1>1, <1>2, <1>3, <1>4, <1>5, <1>6, <1>7, <1>8, <1>9, <1>10, <1>11, <1>12,
       <1>13, <1>14, <1>15, <1>16, StepCases

(* supervise() and the exit handler: never two servers on one database.     *)
THEOREM ServerIsOne == Spec => []OneServer
<1>1. Init => TypeInv /\ WhoIsAlive
  BY DesktopTypeInit DEF Init, WhoIsAlive
<1>2. WhoIsAlive => OneServer
  <2> SUFFICES ASSUME WhoIsAlive PROVE Cardinality(alive) <= 1
    BY DEF OneServer
  <2>1. CASE alive = {}
    BY <2>1, FS_EmptySet
  <2>2. CASE alive # {}
    <3>1. PICK s : alive = {s}
      BY <2>2 DEF WhoIsAlive
    <3>2. Cardinality({s}) = 1
      BY FS_Singleton
    <3> QED BY <3>1, <3>2
  <2> QED BY <2>1, <2>2
<1> QED BY <1>1, <1>2, DesktopTypeStep, AliveStep, PTL DEF Spec

-----------------------------------------------------------------------------
(* The last start *)

(* After a late start the supervisor is past its last look at the flag.     *)
LastStart ==
  /\ late \in {0, 1} /\ (late = 1 => shuttingDown)
  /\ late = 1 => pc \notin {"start", "backoff"}

LEMMA LateStep == ASSUME LastStart, [Next]_vars PROVE LastStart'
<1> USE DEF LastStart
<1>1. CASE Spawn
  <2>1. late = 0 /\ pc' = "forked" /\ shuttingDown' = shuttingDown
    BY <1>1 DEF Spawn
  <2>2. late' = IF shuttingDown THEN 1 ELSE 0
    BY <1>1, <2>1 DEF Spawn
  <2> QED BY <2>1, <2>2
<1>2. CASE Restart \/ Wake
  BY <1>2 DEF Restart, Wake
<1>3. CASE \/ SpawnFails \/ Armed \/ SetSidecar \/ GateHealthy \/ GateExited \/ GateTimeout
           \/ TimedOutStopped \/ Handoff \/ HandoffFails \/ SeesItDown \/ GiveUp \/ ShellEnds
  BY <1>3 DEF SpawnFails, Armed, SetSidecar, GateHealthy, GateExited, GateTimeout,
       TimedOutStopped, Handoff, HandoffFails, SeesItDown, GiveUp, ShellEnds
<1>4. CASE StopTimedOut
  BY <1>4 DEF StopTimedOut
<1>5. CASE Exit \/ ExitStops \/ ExitStopped \/ \E s \in Servers : ServerDies(s)
  BY <1>5 DEF Exit, ExitStops, ExitStopped, ServerDies
<1>6. CASE UNCHANGED vars
  BY <1>6 DEF vars
<1> QED BY <1>1, <1>2, <1>3, <1>4, <1>5, <1>6, StepCases

(* supervise() reads the flag before it waits, so one start can be late.    *)
THEOREM LateStartIsOne == Spec => []OneLateStart
<1>1. Init => LastStart
  BY DEF Init, LastStart
<1>2. LastStart => OneLateStart
  BY DEF LastStart, OneLateStart
<1> QED BY <1>1, <1>2, LateStep, PTL DEF Spec

-----------------------------------------------------------------------------
(* Nobody is left behind *)

(* A server runs armed with its death signal, but for the one just forked,  *)
(* and those forked by a shell that died; when the supervisor's thread ends *)
(* the armed ones are signalled.                                            *)
Guarded ==
  /\ alive \subseteq armed \cup orphans \cup (IF pc = "forked" THEN {fresh} ELSE {})
  /\ shell # "gone" => orphans = {}
  /\ shell = "gone" => pc = "ended"
  /\ NoneLeftUntold

LEMMA GuardedStep == ASSUME TypeInv, Guarded, [Next]_vars PROVE Guarded'
<1> USE DEF Guarded, NoneLeftUntold
<1>1. CASE Spawn
  BY <1>1 DEF Spawn
<1>2. CASE SpawnFails \/ HandoffFails \/ GiveUp
  BY <1>2 DEF SpawnFails, HandoffFails, GiveUp, ThreadEnds
<1>3. CASE Armed
  BY <1>3 DEF Armed
<1>4. CASE SetSidecar \/ Exit
  BY <1>4 DEF SetSidecar, Exit, servers
<1>5. CASE GateHealthy \/ GateExited \/ GateTimeout \/ Handoff \/ SeesItDown \/ Restart \/ Wake
  BY <1>5 DEF GateHealthy, GateExited, GateTimeout, Handoff, SeesItDown, Restart, Wake, servers
<1>6. CASE StopTimedOut
  BY <1>6 DEF StopTimedOut
<1>7. CASE ExitStops
  <2>1. signalled \subseteq signalled'
    BY <1>7 DEF ExitStops, StopSidecar
  <2> QED BY <1>7, <2>1 DEF ExitStops
<1>8. CASE TimedOutStopped \/ ExitStopped
  BY <1>8 DEF TimedOutStopped, ExitStopped, StopEnds, Ended
<1>9. CASE ShellEnds
  BY <1>9 DEF ShellEnds, ThreadEnds
<1>10. ASSUME NEW s \in Servers, ServerDies(s) PROVE Guarded'
  BY <1>10 DEF ServerDies, Ended
<1>11. CASE UNCHANGED vars
  BY <1>11 DEF vars, servers
<1> QED BY <1>1, <1>2, <1>3, <1>4, <1>5, <1>6, <1>7, <1>8, <1>9, <1>10, <1>11, StepCases

(* attach_parent_death_signal: however the supervisor's thread comes to its *)
(* end, what it has started is told to stop.                                *)
THEOREM NobodyIsLeftUntold == Spec => []NoneLeftUntold
<1>1. Init => TypeInv /\ Guarded
  BY DesktopTypeInit DEF Init, Guarded, NoneLeftUntold
<1>2. Guarded => NoneLeftUntold
  BY DEF Guarded
<1> QED BY <1>1, <1>2, DesktopTypeStep, GuardedStep, PTL DEF Spec

=============================================================================
