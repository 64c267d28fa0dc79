------------------------------ MODULE AgentRun ------------------------------
(***************************************************************************)
(* One agent run: its durable ledger, the run service every writer goes    *)
(* through, the drives that carry the run, the users who cancel it, and    *)
(* the death and restart of the server process                             *)
(* (src/src/lib/agent/{run-store,run-service,runtime,investigation}.ts).   *)
(*                                                                         *)
(* The code is single-threaded JavaScript: what runs between two awaits is *)
(* one action.  An append is two steps because its closed-stream check     *)
(* happens when it is called and its line is durable only when the write   *)
(* lands.  A read and the decision taken on it are one action; what the    *)
(* decision then writes is another, so every view may be stale by then.    *)
(***************************************************************************)
EXTENDS AgentLedger

CONSTANTS
  Drives,         \* concurrent calls of driveAgentRun (start route, drive route)
  Cancellers,     \* DELETE requests for the run
  MaxDeliveries,  \* bound: how often drives are delivered altogether
  MaxCrashes,     \* bound: how often the process dies
  MaxWork         \* model turns and tool calls one drive may spend (maxModelTurns)

Actors == Drives \cup Cancellers

ASSUME BoundsAssumption ==
  /\ MaxDeliveries \in Nat /\ MaxCrashes \in Nat /\ MaxWork \in Nat
  /\ Drives \cap Cancellers = {}

VARIABLES
  (* durable *)
  ledger,          \* the run's stream
  streamClosed,    \* the backend has closed the stream: later writes are dropped
  (* process memory, lost in a crash *)
  closedStreams,   \* run-store.ts: the run is in the closedStreams set
  activeDrives,    \* run-service.ts: the run is in the activeDrives set
  active,          \* ExecutionBudgetTracker: activeExecutions of the run
  held,            \* ExecutionBudgetTracker: an account exists for the run
  artifacts,       \* ExecutionArtifactStore: steps whose result rows are held
  pc,              \* where each actor is
  holds,           \* drives inside runInvestigation's try (they took the claim)
  seen,            \* the status a drive read in resume()
  step,            \* the step a drive is running
  ending,          \* the status an actor is about to end the run with
  outcome,         \* how a drive's step settled
  work,            \* turns and calls a drive has spent
  answer,          \* what a cancel request was told
  deliveries, crashes,
  (* history variables, read by the properties only *)
  performed,       \* how often each step reached the database
  foreignEnd       \* an actor ended the run while another was driving it

durable == <<ledger, streamClosed>>
memory  == <<closedStreams, activeDrives, active, held, artifacts>>
local   == <<holds, seen, step, ending, outcome, work, answer>>
bounds  == <<deliveries, crashes>>
ghost   == <<performed, foreignEnd>>
vars    == <<durable, memory, pc, local, bounds, ghost>>

-----------------------------------------------------------------------------
(* Building blocks *)

Goto(a, label) == pc' = [pc EXCEPT ![a] = label]

(* The backend's append: a write to a closed stream reports success and is *)
(* never read back.                                                        *)
Land(entry) == ledger' = IF streamClosed THEN ledger ELSE Append(ledger, entry)

(* Mutation: the claim is freed by a drive that does not hold it. *)
ReleaseDrive_anyone(d) ==
  /\ holds' = [holds EXCEPT ![d] = FALSE]
  /\ activeDrives' = FALSE

(* releaseDrive in the finally of runInvestigation. *)
ReleaseDrive(d) ==
  /\ holds' = [holds EXCEPT ![d] = FALSE]
  /\ activeDrives' = IF holds[d] THEN FALSE ELSE activeDrives

(* Mutation: the error of a drive is only logged. *)
DriveThrows_unrecorded(d) == ReleaseDrive(d) /\ Goto(d, "idle") /\ UNCHANGED ending

(* An error leaves the drive: the claim is released, and driveAgentRun     *)
(* owes the run the ending `failed` (recordDriveFailure), whose own        *)
(* failure is swallowed.                                                   *)
DriveThrows(d) ==
  /\ ReleaseDrive(d)
  /\ IF holds[d] THEN Goto(d, "finish") /\ ending' = [ending EXCEPT ![d] = "failed"]
                 ELSE Goto(d, "idle") /\ UNCHANGED ending

(* An error leaves cancel(): only RUN_ALREADY_CLOSED gets a second read.   *)
CancelThrows(c, reason) ==
  /\ IF reason = "RUN_ALREADY_CLOSED"
       THEN Goto(c, "reread") /\ UNCHANGED answer
       ELSE Goto(c, "answered") /\ answer' = [answer EXCEPT ![c] = "error"]
  /\ UNCHANGED <<holds, activeDrives, ending>>

Throws(a, reason) ==
  IF a \in Drives THEN DriveThrows(a) /\ UNCHANGED answer ELSE CancelThrows(a, reason)

(* store.append: refused in the process that closed the stream, else the   *)
(* write is under way.                                                     *)
AppendThen(a, label) ==
  IF closedStreams
    THEN Throws(a, "RUN_ALREADY_CLOSED")
    ELSE Goto(a, label) /\ UNCHANGED <<holds, activeDrives, ending, answer>>

-----------------------------------------------------------------------------
(* Opening and driving *)

Init ==
  /\ ledger = <<>> /\ streamClosed = FALSE
  /\ closedStreams = FALSE /\ activeDrives = FALSE
  /\ active = 0 /\ held = FALSE /\ artifacts = {}
  /\ pc = [a \in Actors |-> "idle"]
  /\ holds = [d \in Drives |-> FALSE]
  /\ seen = [d \in Drives |-> "queued"]
  /\ step \in [Drives -> Steps]
  /\ ending = [a \in Actors |-> "failed"]
  /\ outcome = [d \in Drives |-> "tool-refused"]
  /\ work = [d \in Drives |-> 0]
  /\ answer = [c \in Cancellers |-> "none"]
  /\ deliveries = 0 /\ crashes = 0
  /\ performed = [s \in Steps |-> 0] /\ foreignEnd = FALSE

(* service.start -> store.openRun: the run id is minted, so nobody else    *)
(* opens it.                                                               *)
OpenRun ==
  /\ ledger = <<>>
  /\ ledger' = <<Entry("run-opened", "none")>>
  /\ UNCHANGED <<streamClosed, memory, pc, local, bounds, ghost>>

(* driveAgentRun: called after the run is opened and by POST /agent/drive. *)
DriveAgentRun(d) ==
  /\ pc[d] = "idle" /\ ledger # <<>> /\ deliveries < MaxDeliveries
  /\ deliveries' = deliveries + 1
  /\ Goto(d, "prepare")
  /\ UNCHANGED <<durable, memory, local, crashes, ghost>>

(* resolveConnection, createDatabaseProvider, createAgentModel: each may   *)
(* throw, and then driveAgentRun records the failure.                      *)
Prepare(d) ==
  /\ pc[d] = "prepare"
  /\ \/ Goto(d, "resume") /\ UNCHANGED ending
     \/ Goto(d, "finish") /\ ending' = [ending EXCEPT ![d] = "failed"]
  /\ UNCHANGED <<durable, memory, holds, seen, step, outcome, work, answer, bounds, ghost>>

(* service.resume: RUN_NOT_RESUMABLE for an ended run. *)
Resume(d) ==
  /\ pc[d] = "resume"
  /\ IF Terminal(ledger)
       THEN /\ Goto(d, "finish") /\ ending' = [ending EXCEPT ![d] = "failed"]
            /\ UNCHANGED seen
       ELSE /\ Goto(d, "claim") /\ seen' = [seen EXCEPT ![d] = RunStatus(ledger)]
            /\ UNCHANGED ending
  /\ UNCHANGED <<durable, memory, holds, step, outcome, work, answer, bounds, ghost>>

(* claimDrive: a second drive is refused with RUN_ALREADY_DRIVEN, for      *)
(* which driveAgentRun writes nothing.  The read of resume() is older.     *)
ClaimDrive(d) ==
  /\ pc[d] = "claim"
  /\ IF activeDrives
       THEN Goto(d, "idle") /\ UNCHANGED <<activeDrives, holds, work>>
       ELSE /\ activeDrives' = TRUE
            /\ holds' = [holds EXCEPT ![d] = TRUE]
            /\ work' = [work EXCEPT ![d] = 0]
            /\ Goto(d, IF seen[d] = "queued" THEN "markRunning" ELSE "recordDriver")
  /\ UNCHANGED <<durable, closedStreams, active, held, artifacts, seen, step, ending, outcome,
                 answer, bounds, ghost>>

(* Mutation: markRunning trusts the status resume() has read. *)
MarkRunning_trustsResume(d) ==
  /\ pc[d] = "markRunning"
  /\ AppendThen(d, "landStarted")
  /\ UNCHANGED <<durable, closedStreams, active, held, artifacts, seen, step, outcome, work,
                 bounds, ghost>>

(* markRunning: RUN_NOT_STARTABLE unless the run reads queued. *)
MarkRunning(d) ==
  /\ pc[d] = "markRunning"
  /\ IF RunStatus(ledger) # "queued"
       THEN Throws(d, "RUN_NOT_STARTABLE")
       ELSE AppendThen(d, "landStarted")
  /\ UNCHANGED <<durable, closedStreams, active, held, artifacts, seen, step, outcome, work,
                 bounds, ghost>>

LandStarted(d) ==
  /\ pc[d] = "landStarted"
  /\ Land(Entry("run-started", "none"))
  /\ Goto(d, "recordDriver")
  /\ UNCHANGED <<streamClosed, memory, local, bounds, ghost>>

(* recordDriver: RUN_NOT_RUNNING unless the run reads running. *)
RecordDriver(d) ==
  /\ pc[d] = "recordDriver"
  /\ IF RunStatus(ledger) # "running"
       THEN Throws(d, "RUN_NOT_RUNNING")
       ELSE AppendThen(d, "loop")
  /\ UNCHANGED <<durable, closedStreams, active, held, artifacts, seen, step, outcome, work,
                 bounds, ghost>>

(* The head of the run loop: a pending cancellation, the deadline and the  *)
(* turn limit conclude the run, otherwise the model gets a turn.           *)
Loop(d) ==
  /\ pc[d] = "loop"
  /\ IF CancellationRequested(ledger)
       THEN Goto(d, "conclude") /\ ending' = [ending EXCEPT ![d] = "cancelled"] /\ UNCHANGED work
       ELSE \/ Goto(d, "conclude") /\ ending' = [ending EXCEPT ![d] = "failed"] /\ UNCHANGED work
            \/ /\ work[d] < MaxWork
               /\ work' = [work EXCEPT ![d] = @ + 1]
               /\ Goto(d, "turn") /\ UNCHANGED ending
  /\ UNCHANGED <<durable, memory, holds, seen, step, outcome, answer, bounds, ghost>>

(* driveTurn: the model stops or reports (succeeded), runs out of time     *)
(* (failed), fails (throws), makes ledger-only calls, or calls a tool.     *)
TurnEnds(d) ==
  /\ pc[d] = "turn"
  /\ \/ Goto(d, "loop") /\ UNCHANGED <<ending, holds, activeDrives>>
     \/ /\ \E s \in {"succeeded", "failed"} : ending' = [ending EXCEPT ![d] = s]
        /\ Goto(d, "conclude") /\ UNCHANGED <<holds, activeDrives>>
     \/ DriveThrows(d)
  /\ UNCHANGED <<durable, closedStreams, active, held, artifacts, seen, step, outcome, work,
                 answer, bounds, ghost>>

HandleCall(d) ==
  /\ pc[d] = "turn" /\ work[d] < MaxWork
  /\ work' = [work EXCEPT ![d] = @ + 1]
  /\ \E s \in Steps : step' = [step EXCEPT ![d] = s]
  /\ Goto(d, "runStep")
  /\ UNCHANGED <<durable, memory, holds, seen, ending, outcome, answer, bounds, ghost>>

-----------------------------------------------------------------------------
(* runStep: checkpoint, durable invocation, effect, durable outcome *)

(* Where a drive goes once a call has been answered: the next call of the  *)
(* same turn, or the head of the loop.                                     *)
NextCall(d) == \E label \in {"turn", "loop"} : Goto(d, label)

(* Mutation: only settled steps are recognised, an unsettled one is run. *)
RunStep_settledOnly(d) ==
  /\ pc[d] = "runStep" /\ RunStatus(ledger) = "running"
  /\ ~Settled(ledger, step[d]) /\ AppendThen(d, "landInvoked")
  /\ UNCHANGED <<durable, closedStreams, active, held, artifacts, seen, step, outcome, work,
                 bounds, ghost>>

RunStep(d) ==
  /\ pc[d] = "runStep"
  /\ \/ /\ RunStatus(ledger) # "running"       \* RUN_ALREADY_TERMINAL, RUN_NOT_RUNNING
        /\ Throws(d, "not running")
     \/ /\ RunStatus(ledger) = "running" /\ CancellationRequested(ledger)
        /\ Goto(d, "finalize") /\ ending' = [ending EXCEPT ![d] = "cancelled"]
        /\ UNCHANGED <<holds, activeDrives, answer>>
     \/ /\ RunStatus(ledger) = "running" /\ ~CancellationRequested(ledger)
        /\ Settled(ledger, step[d]) \/ Invoked(ledger, step[d])   \* replayed, indeterminate
        /\ NextCall(d) /\ UNCHANGED <<holds, activeDrives, ending, answer>>
     \/ /\ RunStatus(ledger) = "running" /\ ~CancellationRequested(ledger)
        /\ ~Settled(ledger, step[d]) /\ ~Invoked(ledger, step[d])
        /\ AppendThen(d, "landInvoked")
  /\ UNCHANGED <<durable, closedStreams, active, held, artifacts, seen, step, outcome, work,
                 bounds, ghost>>

(* Mutation: the effect does not wait for its invocation. *)
LandInvoked_skipped(d) ==
  /\ pc[d] = "landInvoked" /\ Goto(d, "execute")
  /\ UNCHANGED <<durable, memory, local, bounds, ghost>>

LandInvoked(d) ==
  /\ pc[d] = "landInvoked"
  /\ Land(Entry("tool-invoked", step[d]))
  /\ Goto(d, "execute")
  /\ UNCHANGED <<streamClosed, memory, local, bounds, ghost>>

(* The policy pipeline refuses (tool-refused), or the tool declines before *)
(* any database is reached (not-attempted: nothing is written).            *)
ExecuteDenied(d) ==
  /\ pc[d] = "execute"
  /\ \/ AppendThen(d, "landOutcome") /\ outcome' = [outcome EXCEPT ![d] = "tool-refused"]
     \/ NextCall(d) /\ UNCHANGED <<outcome, holds, activeDrives, ending, answer>>
  /\ UNCHANGED <<durable, closedStreams, active, held, artifacts, seen, step, work, bounds, ghost>>

(* tracker.beginExecution, then the statement is on its way. *)
BeginExecution(d) ==
  /\ pc[d] = "execute"
  /\ active' = active + 1 /\ held' = TRUE
  /\ performed' = [performed EXCEPT ![step[d]] = @ + 1]
  /\ Goto(d, "executing")
  /\ UNCHANGED <<durable, closedStreams, activeDrives, artifacts, local, bounds, foreignEnd>>

(* tracker.endExecution on every path; only a result leaves an artifact.   *)
(* A provider error is turned into a refusal by the tool or rethrown.      *)
EndExecution(d) ==
  /\ pc[d] = "executing"
  /\ active' = active - 1
  /\ \/ /\ artifacts' = artifacts \cup {step[d]}
        /\ AppendThen(d, "landOutcome") /\ outcome' = [outcome EXCEPT ![d] = "tool-completed"]
     \/ /\ AppendThen(d, "landOutcome") /\ outcome' = [outcome EXCEPT ![d] = "tool-refused"]
        /\ UNCHANGED artifacts
     \/ Throws(d, "provider error") /\ UNCHANGED <<artifacts, outcome>>
  /\ UNCHANGED <<durable, closedStreams, held, seen, step, work, bounds, ghost>>

LandOutcome(d) ==
  /\ pc[d] = "landOutcome"
  /\ Land(Entry(outcome[d], step[d]))
  /\ NextCall(d)
  /\ UNCHANGED <<streamClosed, memory, local, bounds, ghost>>

-----------------------------------------------------------------------------
(* Ending: conclude, finish, finalize *)

(* conclude: a closing statement, if there is one, is recorded first, and  *)
(* recordEvent refuses on a run that does not read running.                *)
Conclude(d) ==
  /\ pc[d] = "conclude"
  /\ \/ Goto(d, "finish") /\ UNCHANGED <<holds, activeDrives, ending, answer>>
     \/ IF RunStatus(ledger) = "running"
          THEN AppendThen(d, "finish")
          ELSE Throws(d, "RUN_NOT_RUNNING")
  /\ UNCHANGED <<durable, closedStreams, active, held, artifacts, seen, step, outcome, work,
                 bounds, ghost>>

(* finish: RUN_ALREADY_TERMINAL for an ended run. *)
Finish(d) ==
  /\ pc[d] = "finish"
  /\ IF Terminal(ledger)
       THEN Throws(d, "RUN_ALREADY_TERMINAL")
       ELSE Goto(d, "finalize") /\ UNCHANGED <<holds, activeDrives, ending, answer>>
  /\ UNCHANGED <<durable, closedStreams, active, held, artifacts, seen, step, outcome, work,
                 bounds, ghost>>

(* finalize, step by step.  First: nothing may be in flight. *)
FinalizeCheck(a) ==
  /\ pc[a] = "finalize"
  /\ IF active > 0
       THEN Throws(a, "RUN_HAS_LIVE_EXECUTION")
       ELSE Goto(a, "finalizeRead") /\ UNCHANGED <<holds, activeDrives, ending, answer>>
  /\ UNCHANGED <<durable, closedStreams, active, held, artifacts, seen, step, outcome, work,
                 bounds, ghost>>

(* Mutation: the stream is closed before the ending is written. *)
FinalizeRead_closesFirst(a) ==
  /\ pc[a] = "finalizeRead" /\ Goto(a, "release")
  /\ UNCHANGED <<durable, memory, local, bounds, ghost>>

(* The read the verdict is computed from, then the append of the ending. *)
FinalizeRead(a) ==
  /\ pc[a] = "finalizeRead"
  /\ AppendThen(a, "landFinished")
  /\ UNCHANGED <<durable, closedStreams, active, held, artifacts, seen, step, outcome, work,
                 bounds, ghost>>

LandFinished(a) ==
  /\ pc[a] = "landFinished"
  /\ Land(Entry("run-finished", ending[a]))
  /\ foreignEnd' = (foreignEnd \/ \E d \in Drives \ {a} : holds[d])
  /\ Goto(a, "history")
  /\ UNCHANGED <<streamClosed, memory, local, bounds, performed>>

(* recordHistoryFinish writes to the actor's own index, a stream no run     *)
(* operation reads, and its failure is swallowed: what matters here is     *)
(* that the ending is on the ledger and the stream still open meanwhile.   *)
RecordHistory(a) ==
  /\ pc[a] = "history"
  /\ Goto(a, "release")
  /\ UNCHANGED <<durable, memory, local, bounds, ghost>>

(* Mutations: the artifacts are forgotten; the close is not in a finally.  *)
ReleaseAndClose_keepsArtifacts(a) ==
  /\ pc[a] = "release"
  /\ closedStreams' = TRUE
  /\ IF active > 0 THEN Goto(a, "closeThenThrow") /\ UNCHANGED held
                   ELSE Goto(a, "close") /\ held' = FALSE
  /\ UNCHANGED <<durable, activeDrives, active, artifacts, local, bounds, ghost>>

ReleaseAndClose_noFinally(a) ==
  /\ pc[a] = "release"
  /\ IF active > 0
       THEN Throws(a, "BudgetAccountingError") /\ UNCHANGED <<closedStreams, held, artifacts>>
       ELSE /\ Goto(a, "close") /\ closedStreams' = TRUE /\ held' = FALSE /\ artifacts' = {}
            /\ UNCHANGED <<activeDrives, holds, ending, answer>>
  /\ UNCHANGED <<durable, active, seen, step, outcome, work, bounds, ghost>>

(* releaseExecutionRun, then (finally) store.close, which marks the stream *)
(* closed in this process before it asks the backend to close it.          *)
ReleaseAndClose(a) ==
  /\ pc[a] = "release"
  /\ closedStreams' = TRUE
  /\ IF active > 0      \* tracker.endRun throws; the artifacts stay too
       THEN Goto(a, "closeThenThrow") /\ UNCHANGED <<held, artifacts>>
       ELSE Goto(a, "close") /\ held' = FALSE /\ artifacts' = {}
  /\ UNCHANGED <<durable, activeDrives, active, local, bounds, ghost>>

CloseStream(a) ==
  /\ pc[a] \in {"close", "closeThenThrow"}
  /\ streamClosed' = TRUE
  /\ IF pc[a] = "closeThenThrow"
       THEN Throws(a, "BudgetAccountingError")
       ELSE /\ UNCHANGED <<ending, answer>>
            /\ IF a \in Drives THEN ReleaseDrive(a) /\ Goto(a, "idle")
                               ELSE Goto(a, "report") /\ UNCHANGED <<holds, activeDrives>>
  /\ UNCHANGED <<ledger, closedStreams, active, held, artifacts, seen, step, outcome,
                 work, bounds, ghost>>

-----------------------------------------------------------------------------
(* Cancelling *)

(* What a 200 tells the user about the view it was computed from. *)
Report(l) == IF Terminal(l) THEN "ended"
             ELSE IF CancellationRequested(l) THEN "pending" ELSE "neither"

Answer(c, what) == answer' = [answer EXCEPT ![c] = what] /\ Goto(c, "answered")

(* cancel: an ended run is reported, a queued one ended here, a running    *)
(* one asked to stop.                                                      *)
Cancel(c) ==
  /\ pc[c] = "idle" /\ ledger # <<>>
  /\ \/ /\ Terminal(ledger)
        /\ Answer(c, "ended") /\ UNCHANGED <<holds, activeDrives, ending>>
     \/ /\ RunStatus(ledger) = "queued"
        /\ Goto(c, "finalize") /\ ending' = [ending EXCEPT ![c] = "cancelled"]
        /\ UNCHANGED <<holds, activeDrives, answer>>
     \/ /\ RunStatus(ledger) = "running"
        /\ AppendThen(c, "landCancel")
  /\ UNCHANGED <<durable, closedStreams, active, held, artifacts, seen, step, outcome, work,
                 bounds, ghost>>

(* Mutation: the request is acknowledged without being recorded. *)
LandCancel_dropped(c) ==
  /\ pc[c] = "landCancel" /\ Goto(c, "report")
  /\ UNCHANGED <<durable, memory, local, bounds, ghost>>

LandCancel(c) ==
  /\ pc[c] = "landCancel"
  /\ Land(Entry("cancellation-requested", "none"))
  /\ Goto(c, "report")
  /\ UNCHANGED <<streamClosed, memory, local, bounds, ghost>>

CancelReport(c) ==
  /\ pc[c] = "report"
  /\ Answer(c, Report(ledger))
  /\ UNCHANGED <<durable, memory, holds, seen, step, ending, outcome, work, bounds, ghost>>

(* The run was closed under the request: a terminal view answers it, and   *)
(* anything else is rethrown.                                              *)
CancelReread(c) ==
  /\ pc[c] = "reread"
  /\ Answer(c, IF Terminal(ledger) THEN "ended" ELSE "error")
  /\ UNCHANGED <<durable, memory, holds, seen, step, ending, outcome, work, bounds, ghost>>

-----------------------------------------------------------------------------
(* The process dies and is started again: the ledger and the state of its  *)
(* stream survive, everything else is gone.                                *)
Crash ==
  /\ crashes < MaxCrashes
  /\ crashes' = crashes + 1
  /\ closedStreams' = FALSE /\ activeDrives' = FALSE
  /\ active' = 0 /\ held' = FALSE /\ artifacts' = {}
  /\ pc' = [a \in Actors |-> IF a \in Drives \/ pc[a] = "idle" THEN "idle" ELSE "answered"]
  /\ holds' = [d \in Drives |-> FALSE]
  /\ UNCHANGED <<durable, seen, step, ending, outcome, work, answer, deliveries, ghost>>

DriveStep(d) ==
  \/ Prepare(d) \/ Resume(d) \/ ClaimDrive(d) \/ MarkRunning(d) \/ LandStarted(d)
  \/ RecordDriver(d) \/ Loop(d) \/ TurnEnds(d) \/ HandleCall(d)
  \/ RunStep(d) \/ LandInvoked(d) \/ ExecuteDenied(d) \/ BeginExecution(d)
  \/ EndExecution(d) \/ LandOutcome(d) \/ Conclude(d) \/ Finish(d)

FinalizeStep(a) ==
  \/ FinalizeCheck(a) \/ FinalizeRead(a) \/ LandFinished(a) \/ RecordHistory(a)
  \/ ReleaseAndClose(a) \/ CloseStream(a)

CancelStep(c) == LandCancel(c) \/ CancelReport(c) \/ CancelReread(c)

Next ==
  \/ OpenRun \/ Crash
  \/ \E d \in Drives : DriveAgentRun(d) \/ DriveStep(d)
  \/ \E c \in Cancellers : Cancel(c) \/ CancelStep(c)
  \/ \E a \in Actors : FinalizeStep(a)

Spec == Init /\ [][Next]_vars

(* The event loop runs every continuation; model calls and statements end  *)
(* (both are under a timeout); the start route drives the run it opened,   *)
(* once: nobody owes it another delivery.                                  *)
Fairness ==
  /\ WF_vars(OpenRun)
  /\ WF_vars(deliveries = 0 /\ \E d \in Drives : DriveAgentRun(d))
  /\ \A d \in Drives : WF_vars(DriveStep(d))
  /\ \A c \in Cancellers : WF_vars(CancelStep(c))
  /\ \A a \in Actors : WF_vars(FinalizeStep(a))

FairSpec == Spec /\ Fairness

-----------------------------------------------------------------------------
(* Properties *)

Labels == {"idle", "prepare", "resume", "claim", "markRunning", "landStarted", "recordDriver",
           "loop", "turn", "runStep", "landInvoked", "execute", "executing", "landOutcome",
           "conclude", "finish", "finalize", "finalizeRead", "landFinished", "history",
           "release", "close", "closeThenThrow", "report", "reread", "landCancel", "answered"}

(* What a throw may change. *)
ControlOK ==
  /\ pc \in [Actors -> Labels]
  /\ holds \in [Drives -> BOOLEAN] /\ activeDrives \in BOOLEAN
  /\ ending \in [Actors -> Terminals]
  /\ answer \in [Cancellers -> {"none", "ended", "pending", "neither", "error"}]

StateOK ==
  /\ ledger \in Seq(LedgerEntry)
  /\ streamClosed \in BOOLEAN /\ closedStreams \in BOOLEAN
  /\ active \in Nat /\ held \in BOOLEAN /\ artifacts \subseteq Steps
  /\ seen \in [Drives -> {"queued", "running"}]
  /\ step \in [Drives -> Steps]
  /\ outcome \in [Drives -> {"tool-completed", "tool-refused"}]
  /\ work \in [Drives -> 0 .. MaxWork]
  /\ deliveries \in 0 .. MaxDeliveries /\ crashes \in 0 .. MaxCrashes
  /\ performed \in [Steps -> Nat] /\ foreignEnd \in BOOLEAN

(* Every variable stays in its set; in particular the count of live        *)
(* executions never goes below zero, whoever ends the run.                 *)
TypeOK == ControlOK /\ StateOK

(* claimDrive and the finally of runInvestigation: one drive at a time is  *)
(* inside the loop of a process, and the claim is free when none is.  A    *)
(* refused drive must not free the claim of the drive that refused it.     *)
OneDriver ==
  /\ \A d, e \in Drives : holds[d] /\ holds[e] => d = e
  /\ activeDrives <=> \E d \in Drives : holds[d]

(* cancel() relies on it when it re-reads: finalize is the only caller of  *)
(* close and has written run-finished by then, so a closed stream, here or *)
(* at the backend, always shows an ending, restarts included.              *)
ClosedMeansFinished == closedStreams \/ streamClosed => Finished(ledger)

(* The ledger is written ahead of the effect and read before it, across    *)
(* crashes, redeliveries and competing endings: a step reaches the         *)
(* database at most once, as long as no run-started follows a run-finished.*)
AtMostOnce == ~Resurrected(ledger) => \A s \in Steps : performed[s] <= 1

(* runStep: what reached the database is on the ledger, unless somebody    *)
(* ended the run under the drive that was carrying it.                     *)
WriteAhead == ~foreignEnd => \A s \in Steps : performed[s] > 0 => Invoked(ledger, s)

(* finalize: once the stream is closed the run holds neither budget nor    *)
(* artifacts in this process, unless it was ended under another drive; and *)
(* as long as the process lives, an ended run is closed, or somebody is on *)
(* the way to closing it, whatever the release throws.                     *)
ReleasedTogether ==
  /\ closedStreams /\ ~foreignEnd => ~held /\ artifacts = {}
  /\ Finished(ledger) /\ ~streamClosed /\ crashes = 0 =>
       \E a \in Actors : pc[a] \in {"history", "release", "close", "closeThenThrow"}

(* cancel(): a 200 is never a lost request.  Whoever was answered was told *)
(* that the run ended, or the request is on the ledger for the loop.       *)
CancelNotLost ==
  \A c \in Cancellers :
    /\ answer[c] = "neither" => Resurrected(ledger)
    /\ answer[c] = "pending" => CancellationRequested(ledger)
    /\ answer[c] = "ended" => Finished(ledger)

(* What a client of the run sees of it. *)
Phase ==
  IF ledger = <<>> THEN "none" ELSE IF Terminal(ledger) THEN "ended" ELSE RunStatus(ledger)

AtTheDatabase == {step[d] : d \in {e \in Drives : pc[e] = "executing"}}

Contract == INSTANCE RunContract WITH phase <- Phase, live <- AtTheDatabase, broken <- foreignEnd

(* The ledger, the claim, the tracker and the closed stream together keep   *)
(* the contract of a run, across crashes, redeliveries and requests that    *)
(* race: it starts before its steps and ends once, behind the last of them; *)
(* no step is repeated, none runs beside another or in an ended run.        *)
KeepsContract == Contract!Spec

(* run-store.ts: "no tool execution is performed twice", without proviso.  *)
NoStepTwice == \A s \in Steps : performed[s] <= 1

(* Every run that is opened ends, whatever its drives and users do, when   *)
(* the process stays up.                                                   *)
RunEnds == ledger # <<>> ~> Finished(ledger)

(* finalize closes in a finally: a recorded ending does not leave the      *)
(* readers of the timeline waiting.                                        *)
ReadersReleased == Finished(ledger) ~> streamClosed
=============================================================================
