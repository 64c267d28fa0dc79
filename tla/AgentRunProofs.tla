--------------------------- MODULE AgentRunProofs ---------------------------
(* Safety of AgentRun for every set of drives, cancel requests and steps,  *)
(* and for every bound.                                                    *)
EXTENDS AgentRun, AgentLedgerProofs

-----------------------------------------------------------------------------
(* What each action preserves rests on three facts about the drives:       *)
(* the claim is held by one of them, whoever is inside the loop holds it,  *)
(* and the tracker counts exactly the execution under way.                 *)

Carrying == {"markRunning", "landStarted", "recordDriver", "loop", "turn", "runStep",
             "landInvoked", "execute", "executing", "landOutcome", "conclude"}

CarriersHold == \A d \in Drives : pc[d] \in Carrying => holds[d]

LiveCount ==
  /\ \A d \in Drives : pc[d] = "executing" => active = 1
  /\ (\A d \in Drives : pc[d] # "executing") => active = 0

DriveInv == TypeOK /\ OneDriver /\ CarriersHold /\ LiveCount

-----------------------------------------------------------------------------
(* Type correctness *)

(* The labels and endings the actions name, so that the sets stay folded. *)
LEMMA Names ==
  /\ {"idle", "prepare", "resume", "claim", "markRunning", "landStarted", "recordDriver"} \subseteq Labels
  /\ {"loop", "turn", "runStep", "landInvoked", "execute", "executing", "landOutcome"} \subseteq Labels
  /\ {"conclude", "finish", "finalize", "finalizeRead", "landFinished", "history"} \subseteq Labels
  /\ {"release", "close", "closeThenThrow", "report", "reread", "landCancel", "answered"} \subseteq Labels
  /\ "succeeded" \in Terminals /\ "failed" \in Terminals /\ "cancelled" \in Terminals
BY DEF Labels, Terminals

LEMMA Zero == 0 \in 0 .. MaxWork /\ 0 \in 0 .. MaxDeliveries /\ 0 \in 0 .. MaxCrashes
BY BoundsAssumption

LEMMA TypeInit == Init => TypeOK
<1> SUFFICES ASSUME Init PROVE TypeOK
  OBVIOUS
<1>1. ControlOK
  BY Names DEF Init, ControlOK
<1>2. <<>> \in Seq(LedgerEntry) /\ \A s \in Steps : 0 \in Nat
  OBVIOUS
<1>3. StateOK
  BY <1>2, Zero DEF Init, StateOK
<1> QED BY <1>1, <1>3 DEF TypeOK

(* Every entry the service writes is a ledger entry. *)
LEMMA Entries ==
  /\ Entry("run-opened", "none") \in LedgerEntry
  /\ Entry("run-started", "none") \in LedgerEntry
  /\ Entry("cancellation-requested", "none") \in LedgerEntry
  /\ \A t \in Terminals : Entry("run-finished", t) \in LedgerEntry
  /\ \A s \in Steps : /\ Entry("tool-invoked", s) \in LedgerEntry
                      /\ Entry("tool-completed", s) \in LedgerEntry
                      /\ Entry("tool-refused", s) \in LedgerEntry
BY DEF Entry, LedgerEntry

LEMMA LandType ==
  ASSUME TypeOK, NEW e \in LedgerEntry, Land(e)
  PROVE  ledger' \in Seq(LedgerEntry)
BY AppendKeeps DEF TypeOK, StateOK, Land

(* The ways an action moves an actor on: it goes to a label, with or       *)
(* without choosing an ending, or it throws.                               *)
LEMMA GotoType ==
  ASSUME TypeOK, NEW a \in Actors, NEW label \in Labels, Goto(a, label),
         UNCHANGED <<holds, activeDrives, answer>>
  PROVE  /\ UNCHANGED ending => ControlOK'
         /\ \A t \in Terminals : ending' = [ending EXCEPT ![a] = t] => ControlOK'
BY DEF Goto, TypeOK, ControlOK

LEMMA ThrowsType ==
  ASSUME TypeOK, NEW a \in Actors, NEW reason, Throws(a, reason)
  PROVE  ControlOK'
<1>1. CASE a \in Drives
  BY <1>1, Names DEF Throws, DriveThrows, ReleaseDrive, Goto, TypeOK, ControlOK
<1>2. CASE a \notin Drives
  BY <1>2, Names DEF Throws, CancelThrows, Goto, TypeOK, ControlOK, Actors
<1> QED BY <1>1, <1>2

LEMMA AppendThenType ==
  ASSUME TypeOK, NEW a \in Actors, NEW label \in Labels, AppendThen(a, label)
  PROVE  ControlOK'
BY ThrowsType, GotoType DEF AppendThen

(* One step per action: each writes only members of the variables' sets. *)
LEMMA TypeStep == DriveInv /\ [Next]_vars => TypeOK'
<1> SUFFICES ASSUME DriveInv, [Next]_vars PROVE ControlOK' /\ StateOK'
  BY DEF TypeOK
<1>0. TypeOK
  BY DEF DriveInv
<1> USE <1>0, Names DEF durable, memory, local, bounds, ghost
<1>1. CASE OpenRun
  <2>1. ledger' \in Seq(LedgerEntry)
    BY <1>1, Entries DEF OpenRun
  <2>2. ControlOK'
    BY <1>1 DEF OpenRun, TypeOK, ControlOK
  <2>3. StateOK'
    BY <1>1, <2>1 DEF OpenRun, TypeOK, StateOK
  <2> QED BY <2>2, <2>3
<1>2. CASE Crash
  <2>1. pc' \in [Actors -> Labels]
    BY <1>2 DEF Crash, TypeOK, ControlOK
  <2>2. ControlOK'
    BY <1>2, <2>1 DEF Crash, TypeOK, ControlOK
  <2>0. crashes' \in 0 .. MaxCrashes
    BY <1>2, BoundsAssumption DEF Crash, TypeOK, StateOK
  <2>3. StateOK'
    BY <1>2, <2>0 DEF Crash, TypeOK, StateOK
  <2> QED BY <2>2, <2>3
<1>3. ASSUME NEW d \in Drives, DriveAgentRun(d) PROVE ControlOK' /\ StateOK'
  <2>1. ControlOK'
    BY <1>3, GotoType DEF DriveAgentRun, Actors
  <2>2. StateOK'
    BY <1>3, BoundsAssumption DEF DriveAgentRun, TypeOK, StateOK
  <2> QED BY <2>1, <2>2
<1>4. ASSUME NEW d \in Drives, DriveStep(d) PROVE ControlOK' /\ StateOK'
  <2>0. d \in Actors
    BY DEF Actors
  <2>1. CASE Prepare(d)
    <3>1. ControlOK'
      BY <2>1, <2>0, GotoType DEF Prepare
    <3>2. StateOK'
      BY <2>1 DEF Prepare, TypeOK, StateOK
    <3> QED BY <3>1, <3>2
  <2>2. CASE Resume(d)
    <3>0. ~Terminal(ledger) => RunStatus(ledger) \in {"queued", "running"}
      BY StatusType DEF TypeOK, StateOK, Terminal
    <3>1. ControlOK'
      BY <2>2, <2>0, GotoType DEF Resume
    <3>2. StateOK'
      BY <2>2, <3>0 DEF Resume, TypeOK, StateOK
    <3> QED BY <3>1, <3>2
  <2>3. CASE ClaimDrive(d)
    <3>1. ControlOK'
      BY <2>3, <2>0 DEF ClaimDrive, Goto, TypeOK, ControlOK
    <3>2. StateOK'
      BY <2>3, Zero DEF ClaimDrive, TypeOK, StateOK
    <3> QED BY <3>1, <3>2
  <2>4. CASE MarkRunning(d)
    <3>1. ControlOK'
      BY <2>4, <2>0, GotoType, ThrowsType, AppendThenType DEF MarkRunning
    <3>2. StateOK'
      BY <2>4 DEF MarkRunning, TypeOK, StateOK
    <3> QED BY <3>1, <3>2
  <2>5. CASE LandStarted(d)
    <3>0. ledger' \in Seq(LedgerEntry)
      BY <2>5, LandType, Entries DEF LandStarted, TypeOK
    <3>1. ControlOK'
      BY <2>5, <2>0, GotoType DEF LandStarted
    <3>2. StateOK'
      BY <2>5, <3>0 DEF LandStarted, TypeOK, StateOK
    <3> QED BY <3>1, <3>2
  <2>6. CASE RecordDriver(d)
    <3>1. ControlOK'
      BY <2>6, <2>0, GotoType, ThrowsType, AppendThenType DEF RecordDriver
    <3>2. StateOK'
      BY <2>6 DEF RecordDriver, TypeOK, StateOK
    <3> QED BY <3>1, <3>2
  <2>7. CASE Loop(d)
    <3>1. ControlOK'
      BY <2>7, <2>0, GotoType DEF Loop
    <3>0. work' \in [Drives -> 0 .. MaxWork]
      <4>1. CASE UNCHANGED work
        BY <4>1 DEF TypeOK, StateOK
      <4>2. CASE work[d] < MaxWork /\ work' = [work EXCEPT ![d] = @ + 1]
        BY <4>2, BoundsAssumption DEF TypeOK, StateOK
      <4> QED BY <2>7, <4>1, <4>2 DEF Loop
    <3>2. StateOK'
      BY <2>7, <3>0 DEF Loop, TypeOK, StateOK
    <3> QED BY <3>1, <3>2
  <2>8. CASE TurnEnds(d)
    <3>1. ControlOK'
      BY <2>8, <2>0, GotoType, ThrowsType DEF TurnEnds, Throws
    <3>2. StateOK'
      BY <2>8 DEF TurnEnds, TypeOK, StateOK
    <3> QED BY <3>1, <3>2
  <2>9. CASE HandleCall(d)
    <3>1. ControlOK'
      BY <2>9, <2>0, GotoType DEF HandleCall
    <3>2. StateOK'
      BY <2>9, BoundsAssumption DEF HandleCall, TypeOK, StateOK
    <3> QED BY <3>1, <3>2
  <2>10. CASE RunStep(d)
    <3>1. ControlOK'
      BY <2>10, <2>0, GotoType, ThrowsType, AppendThenType DEF RunStep, NextCall
    <3>2. StateOK'
      BY <2>10 DEF RunStep, TypeOK, StateOK, NextCall
    <3> QED BY <3>1, <3>2
  <2>11. CASE LandInvoked(d)
    <3>0. ledger' \in Seq(LedgerEntry)
      BY <2>11, LandType, Entries DEF LandInvoked, TypeOK, StateOK
    <3>1. ControlOK'
      BY <2>11, <2>0, GotoType DEF LandInvoked
    <3>2. StateOK'
      BY <2>11, <3>0 DEF LandInvoked, TypeOK, StateOK
    <3> QED BY <3>1, <3>2
  <2>12. CASE ExecuteDenied(d)
    <3>1. ControlOK'
      BY <2>12, <2>0, GotoType, AppendThenType DEF ExecuteDenied, NextCall
    <3>2. StateOK'
      BY <2>12 DEF ExecuteDenied, TypeOK, StateOK
    <3> QED BY <3>1, <3>2
  <2>13. CASE BeginExecution(d)
    <3>1. ControlOK'
      BY <2>13, <2>0, GotoType DEF BeginExecution
    <3>2. StateOK'
      BY <2>13 DEF BeginExecution, TypeOK, StateOK
    <3> QED BY <3>1, <3>2
  <2>14. CASE EndExecution(d)
    <3>a. active = 1
      BY <2>14 DEF EndExecution, DriveInv, LiveCount
    <3>0. active - 1 \in Nat
      BY <3>a
    <3>1. ControlOK'
      BY <2>14, <2>0, GotoType, ThrowsType, AppendThenType DEF EndExecution
    <3>2. StateOK'
      BY <2>14, <3>0 DEF EndExecution, TypeOK, StateOK
    <3> QED BY <3>1, <3>2
  <2>15. CASE LandOutcome(d)
    <3>0. ledger' \in Seq(LedgerEntry)
      BY <2>15, LandType, Entries DEF LandOutcome, TypeOK, StateOK
    <3>1. ControlOK'
      BY <2>15, <2>0, GotoType DEF LandOutcome, NextCall
    <3>2. StateOK'
      BY <2>15, <3>0 DEF LandOutcome, TypeOK, StateOK
    <3> QED BY <3>1, <3>2
  <2>16. CASE Conclude(d)
    <3>1. ControlOK'
      BY <2>16, <2>0, GotoType, ThrowsType, AppendThenType DEF Conclude
    <3>2. StateOK'
      BY <2>16 DEF Conclude, TypeOK, StateOK
    <3> QED BY <3>1, <3>2
  <2>17. CASE Finish(d)
    <3>1. ControlOK'
      BY <2>17, <2>0, GotoType, ThrowsType DEF Finish
    <3>2. StateOK'
      BY <2>17 DEF Finish, TypeOK, StateOK
    <3> QED BY <3>1, <3>2
  <2> QED BY <1>4, <2>1, <2>2, <2>3, <2>4, <2>5, <2>6, <2>7, <2>8, <2>9, <2>10, <2>11,
             <2>12, <2>13, <2>14, <2>15, <2>16, <2>17 DEF DriveStep
<1>5. ASSUME NEW c \in Cancellers, Cancel(c) \/ CancelStep(c) PROVE ControlOK' /\ StateOK'
  <2>0. c \in Actors
    BY DEF Actors
  <2>1. CASE Cancel(c)
    <3>1. ControlOK'
      BY <2>1, <2>0, GotoType, AppendThenType DEF Cancel, Answer, Goto, TypeOK, ControlOK
    <3>2. StateOK'
      BY <2>1 DEF Cancel, TypeOK, StateOK
    <3> QED BY <3>1, <3>2
  <2>2. CASE LandCancel(c)
    <3>0. ledger' \in Seq(LedgerEntry)
      BY <2>2, LandType, Entries DEF LandCancel, TypeOK
    <3>1. ControlOK'
      BY <2>2, <2>0, GotoType DEF LandCancel
    <3>2. StateOK'
      BY <2>2, <3>0 DEF LandCancel, TypeOK, StateOK
    <3> QED BY <3>1, <3>2
  <2>3. CASE CancelReport(c)
    <3>1. ControlOK'
      BY <2>3, <2>0 DEF CancelReport, Answer, Report, Goto, TypeOK, ControlOK
    <3>2. StateOK'
      BY <2>3 DEF CancelReport, TypeOK, StateOK
    <3> QED BY <3>1, <3>2
  <2>4. CASE CancelReread(c)
    <3>1. ControlOK'
      BY <2>4, <2>0 DEF CancelReread, Answer, Goto, TypeOK, ControlOK
    <3>2. StateOK'
      BY <2>4 DEF CancelReread, TypeOK, StateOK
    <3> QED BY <3>1, <3>2
  <2> QED BY <1>5, <2>1, <2>2, <2>3, <2>4 DEF CancelStep
<1>6. ASSUME NEW a \in Actors, FinalizeStep(a) PROVE ControlOK' /\ StateOK'
  <2>1. CASE FinalizeCheck(a)
    <3>1. ControlOK'
      BY <2>1, GotoType, ThrowsType DEF FinalizeCheck
    <3>2. StateOK'
      BY <2>1 DEF FinalizeCheck, TypeOK, StateOK
    <3> QED BY <3>1, <3>2
  <2>2. CASE FinalizeRead(a)
    <3>1. ControlOK'
      BY <2>2, GotoType, AppendThenType DEF FinalizeRead
    <3>2. StateOK'
      BY <2>2 DEF FinalizeRead, TypeOK, StateOK
    <3> QED BY <3>1, <3>2
  <2>3. CASE LandFinished(a)
    <3>0. ledger' \in Seq(LedgerEntry)
      BY <2>3, LandType, Entries DEF LandFinished, TypeOK, ControlOK
    <3>1. ControlOK'
      BY <2>3, GotoType DEF LandFinished
    <3>2. StateOK'
      BY <2>3, <3>0 DEF LandFinished, TypeOK, StateOK
    <3> QED BY <3>1, <3>2
  <2>4. CASE RecordHistory(a)
    <3>1. ControlOK'
      BY <2>4, GotoType DEF RecordHistory
    <3>2. StateOK'
      BY <2>4 DEF RecordHistory, TypeOK, StateOK
    <3> QED BY <3>1, <3>2
  <2>5. CASE ReleaseAndClose(a)
    <3>1. ControlOK'
      BY <2>5, GotoType DEF ReleaseAndClose
    <3>2. StateOK'
      BY <2>5 DEF ReleaseAndClose, TypeOK, StateOK
    <3> QED BY <3>1, <3>2
  <2>6. CASE CloseStream(a)
    <3>1. ControlOK'
      BY <2>6, GotoType, ThrowsType DEF CloseStream, ReleaseDrive, Goto, TypeOK, ControlOK
    <3>2. StateOK'
      BY <2>6 DEF CloseStream, TypeOK, StateOK
    <3> QED BY <3>1, <3>2
  <2> QED BY <1>6, <2>1, <2>2, <2>3, <2>4, <2>5, <2>6 DEF FinalizeStep
<1>7. CASE UNCHANGED vars
  <2>1. ControlOK'
    BY <1>7 DEF vars, TypeOK, ControlOK
  <2>2. StateOK'
    BY <1>7 DEF vars, TypeOK, StateOK
  <2> QED BY <2>1, <2>2
<1> QED BY <1>1, <1>2, <1>3, <1>4, <1>5, <1>6, <1>7 DEF Next

-----------------------------------------------------------------------------
(* One driver *)

LEMMA DriveInvInit == Init => DriveInv
<1> SUFFICES ASSUME Init PROVE DriveInv
  OBVIOUS
<1>1. OneDriver /\ CarriersHold /\ LiveCount
  BY DEF Init, OneDriver, CarriersHold, LiveCount, Carrying, Actors
<1> QED BY <1>1, TypeInit DEF DriveInv

(* Moving on without touching the claim. *)
LEMMA GotoKeepsClaim ==
  ASSUME DriveInv, NEW a \in Actors, NEW label, Goto(a, label), UNCHANGED <<holds, activeDrives>>,
         a \in Drives /\ label \in Carrying => holds[a]
  PROVE  OneDriver' /\ CarriersHold'
BY DEF DriveInv, OneDriver, CarriersHold, Goto, Actors, TypeOK, ControlOK

(* releaseDrive frees the claim exactly when the drive had it. *)
LEMMA ReleaseKeepsClaim ==
  ASSUME DriveInv, NEW d \in Drives, ReleaseDrive(d), NEW label, Goto(d, label), label \notin Carrying
  PROVE  OneDriver' /\ CarriersHold'
<1>1. \A e \in Drives : holds'[e] = (holds[e] /\ e # d)
  BY DEF DriveInv, TypeOK, ControlOK, ReleaseDrive
<1>2. OneDriver'
  BY <1>1 DEF DriveInv, OneDriver, ReleaseDrive
<1>3. \A e \in Drives : pc'[e] = IF e = d THEN label ELSE pc[e]
  BY DEF DriveInv, TypeOK, ControlOK, Goto, Actors
<1>4. CarriersHold'
  BY <1>1, <1>3 DEF DriveInv, CarriersHold
<1> QED BY <1>2, <1>4

LEMMA ThrowsGoes ==
  ASSUME NEW a, NEW reason, Throws(a, reason)
  PROVE  \E label \in {"finish", "idle", "reread", "answered"} :
           /\ Goto(a, label)
           /\ a \in Drives => ReleaseDrive(a)
           /\ a \notin Drives => UNCHANGED <<holds, activeDrives>>
BY DEF Throws, DriveThrows, CancelThrows

LEMMA ThrowsKeepsClaim ==
  ASSUME DriveInv, NEW a \in Actors, NEW reason, Throws(a, reason)
  PROVE  OneDriver' /\ CarriersHold'
<1>1. PICK label \in {"finish", "idle", "reread", "answered"} :
           /\ Goto(a, label)
           /\ a \in Drives => ReleaseDrive(a)
           /\ a \notin Drives => UNCHANGED <<holds, activeDrives>>
  BY ThrowsGoes
<1>2. label \notin Carrying
  BY DEF Carrying
<1> QED BY <1>1, <1>2, ReleaseKeepsClaim, GotoKeepsClaim

LEMMA AppendKeepsClaim ==
  ASSUME DriveInv, NEW a \in Actors, NEW label, AppendThen(a, label),
         a \in Drives /\ label \in Carrying => holds[a]
  PROVE  OneDriver' /\ CarriersHold'
BY ThrowsKeepsClaim, GotoKeepsClaim DEF AppendThen

(* Nothing but beginExecution and endExecution changes the live count. *)
LEMMA GotoKeepsCount ==
  ASSUME DriveInv, NEW a \in Actors, NEW label, Goto(a, label), UNCHANGED active,
         pc[a] # "executing", label # "executing"
  PROVE  LiveCount'
<1>1. \A e \in Drives : pc'[e] = "executing" <=> pc[e] = "executing"
  BY DEF DriveInv, TypeOK, ControlOK, Goto, Actors
<1> QED BY <1>1 DEF DriveInv, LiveCount

LEMMA ThrowsKeepsCount ==
  ASSUME DriveInv, NEW a \in Actors, NEW reason, Throws(a, reason), UNCHANGED active,
         pc[a] # "executing"
  PROVE  LiveCount'
BY ThrowsGoes, GotoKeepsCount

LEMMA AppendKeepsCount ==
  ASSUME DriveInv, NEW a \in Actors, NEW label, AppendThen(a, label), UNCHANGED active,
         pc[a] # "executing", label # "executing"
  PROVE  LiveCount'
BY ThrowsKeepsCount, GotoKeepsCount DEF AppendThen

(* Only one drive executes, and when it is done none does. *)
LEMMA EndOfExecution ==
  ASSUME DriveInv, NEW d \in Drives, pc[d] = "executing", active' = active - 1,
         NEW label, Goto(d, label), label # "executing"
  PROVE  LiveCount'
<1>1. active = 1
  BY DEF DriveInv, LiveCount
<1>2. \A e \in Drives : pc[e] = "executing" => e = d
  BY DEF DriveInv, CarriersHold, OneDriver, Carrying
<1>3. \A e \in Drives : pc'[e] # "executing"
  BY <1>2 DEF DriveInv, TypeOK, ControlOK, Goto, Actors
<1> QED BY <1>1, <1>3 DEF LiveCount

LEMMA DriveInvStep == DriveInv /\ [Next]_vars => DriveInv'
<1> SUFFICES ASSUME DriveInv, [Next]_vars PROVE (OneDriver /\ CarriersHold)' /\ LiveCount'
  BY TypeStep DEF DriveInv
<1> USE DEF durable, memory, local, bounds, ghost
<1>1. CASE OpenRun
  BY <1>1 DEF OpenRun, DriveInv, OneDriver, CarriersHold, LiveCount
<1>2. CASE Crash
  <2>1. \A d \in Drives : pc'[d] = "idle" /\ ~holds'[d]
    BY <1>2 DEF Crash, Actors
  <2> QED BY <1>2, <2>1 DEF Crash, OneDriver, CarriersHold, LiveCount, Carrying
<1>3. ASSUME NEW d \in Drives, DriveAgentRun(d) PROVE (OneDriver /\ CarriersHold)' /\ LiveCount'
  BY <1>3, GotoKeepsClaim, GotoKeepsCount DEF DriveAgentRun, Carrying, Actors
<1>4. ASSUME NEW d \in Drives, DriveStep(d) PROVE (OneDriver /\ CarriersHold)' /\ LiveCount'
  <2>0. d \in Actors /\ (pc[d] \in Carrying => holds[d])
    BY DEF Actors, DriveInv, CarriersHold
  <2>1. CASE Prepare(d)
    <3>1. (OneDriver /\ CarriersHold)'
      BY <2>1, <2>0, GotoKeepsClaim DEF Prepare, Carrying
    <3>2. LiveCount'
      BY <2>1, <2>0, GotoKeepsCount DEF Prepare
    <3> QED BY <3>1, <3>2
  <2>2. CASE Resume(d)
    <3>1. (OneDriver /\ CarriersHold)'
      BY <2>2, <2>0, GotoKeepsClaim DEF Resume, Carrying
    <3>2. LiveCount'
      BY <2>2, <2>0, GotoKeepsCount DEF Resume
    <3> QED BY <3>1, <3>2
  <2>3. CASE ClaimDrive(d)
    <3>1. CASE activeDrives
      BY <2>3, <2>0, <3>1, GotoKeepsClaim, GotoKeepsCount DEF ClaimDrive, Carrying
    <3>2. CASE ~activeDrives
      <4>1. PICK label \in {"markRunning", "recordDriver"} : Goto(d, label)
        BY <2>3, <3>2 DEF ClaimDrive
      <4>2. \A e \in Drives : ~holds[e] /\ holds'[e] = (e = d)
        BY <2>3, <3>2 DEF ClaimDrive, DriveInv, OneDriver, TypeOK, ControlOK
      <4>3. OneDriver'
        BY <2>3, <3>2, <4>2 DEF ClaimDrive, OneDriver
      <4>4. \A e \in Drives : e # d => pc'[e] = pc[e]
        BY <4>1 DEF Goto, DriveInv, TypeOK, ControlOK, Actors
      <4>5. CarriersHold'
        BY <4>2, <4>4 DEF CarriersHold, DriveInv
      <4>6. LiveCount'
        BY <2>3, <2>0, <4>1, GotoKeepsCount DEF ClaimDrive
      <4> QED BY <4>3, <4>5, <4>6
    <3> QED BY <3>1, <3>2
  <2>4. CASE MarkRunning(d)
    <3>1. (OneDriver /\ CarriersHold)'
      BY <2>4, <2>0, GotoKeepsClaim, ThrowsKeepsClaim, AppendKeepsClaim DEF MarkRunning, Carrying
    <3>2. LiveCount'
      BY <2>4, <2>0, GotoKeepsCount, ThrowsKeepsCount, AppendKeepsCount DEF MarkRunning
    <3> QED BY <3>1, <3>2
  <2>5. CASE LandStarted(d)
    <3>1. (OneDriver /\ CarriersHold)'
      BY <2>5, <2>0, GotoKeepsClaim DEF LandStarted, Carrying
    <3>2. LiveCount'
      BY <2>5, <2>0, GotoKeepsCount DEF LandStarted
    <3> QED BY <3>1, <3>2
  <2>6. CASE RecordDriver(d)
    <3>1. (OneDriver /\ CarriersHold)'
      BY <2>6, <2>0, GotoKeepsClaim, ThrowsKeepsClaim, AppendKeepsClaim DEF RecordDriver, Carrying
    <3>2. LiveCount'
      BY <2>6, <2>0, GotoKeepsCount, ThrowsKeepsCount, AppendKeepsCount DEF RecordDriver
    <3> QED BY <3>1, <3>2
  <2>7. CASE Loop(d)
    <3>1. (OneDriver /\ CarriersHold)'
      BY <2>7, <2>0, GotoKeepsClaim DEF Loop, Carrying
    <3>2. LiveCount'
      BY <2>7, <2>0, GotoKeepsCount DEF Loop
    <3> QED BY <3>1, <3>2
  <2>8. CASE TurnEnds(d)
    <3>1. (OneDriver /\ CarriersHold)'
      BY <2>8, <2>0, GotoKeepsClaim, ThrowsKeepsClaim DEF TurnEnds, Carrying, Throws
    <3>2. LiveCount'
      BY <2>8, <2>0, GotoKeepsCount, ThrowsKeepsCount DEF TurnEnds, Throws
    <3> QED BY <3>1, <3>2
  <2>9. CASE HandleCall(d)
    <3>1. (OneDriver /\ CarriersHold)'
      BY <2>9, <2>0, GotoKeepsClaim DEF HandleCall, Carrying
    <3>2. LiveCount'
      BY <2>9, <2>0, GotoKeepsCount DEF HandleCall
    <3> QED BY <3>1, <3>2
  <2>10. CASE RunStep(d)
    <3>1. (OneDriver /\ CarriersHold)'
      BY <2>10, <2>0, GotoKeepsClaim, ThrowsKeepsClaim, AppendKeepsClaim DEF RunStep, Carrying, NextCall
    <3>2. LiveCount'
      BY <2>10, <2>0, GotoKeepsCount, ThrowsKeepsCount, AppendKeepsCount DEF RunStep, NextCall
    <3> QED BY <3>1, <3>2
  <2>11. CASE LandInvoked(d)
    <3>1. (OneDriver /\ CarriersHold)'
      BY <2>11, <2>0, GotoKeepsClaim DEF LandInvoked, Carrying
    <3>2. LiveCount'
      BY <2>11, <2>0, GotoKeepsCount DEF LandInvoked
    <3> QED BY <3>1, <3>2
  <2>12. CASE ExecuteDenied(d)
    <3>1. (OneDriver /\ CarriersHold)'
      BY <2>12, <2>0, GotoKeepsClaim, AppendKeepsClaim DEF ExecuteDenied, Carrying, NextCall
    <3>2. LiveCount'
      BY <2>12, <2>0, GotoKeepsCount, AppendKeepsCount DEF ExecuteDenied, NextCall
    <3> QED BY <3>1, <3>2
  <2>13. CASE BeginExecution(d)
    <3>1. (OneDriver /\ CarriersHold)'
      BY <2>13, <2>0, GotoKeepsClaim DEF BeginExecution, Carrying
    <3>2. \A e \in Drives : pc[e] # "executing"
      BY <2>13 DEF BeginExecution, DriveInv, CarriersHold, OneDriver, Carrying
    <3>3. active' = 1
      BY <2>13, <3>2 DEF BeginExecution, DriveInv, LiveCount
    <3>4. pc'[d] = "executing"
      BY <2>13, <2>0 DEF BeginExecution, Goto, DriveInv, TypeOK, ControlOK
    <3> QED BY <3>1, <3>3, <3>4 DEF LiveCount
  <2>14. CASE EndExecution(d)
    <3>1. (OneDriver /\ CarriersHold)'
      BY <2>14, <2>0, ThrowsKeepsClaim, AppendKeepsClaim DEF EndExecution, Carrying
    <3>2. PICK label \in {"finish", "idle", "reread", "answered", "landOutcome"} : Goto(d, label)
      BY <2>14, ThrowsGoes DEF EndExecution, AppendThen
    <3>3. LiveCount'
      BY <2>14, <3>2, EndOfExecution DEF EndExecution
    <3> QED BY <3>1, <3>3
  <2>15. CASE LandOutcome(d)
    <3>1. (OneDriver /\ CarriersHold)'
      BY <2>15, <2>0, GotoKeepsClaim DEF LandOutcome, Carrying, NextCall
    <3>2. LiveCount'
      BY <2>15, <2>0, GotoKeepsCount DEF LandOutcome, NextCall
    <3> QED BY <3>1, <3>2
  <2>16. CASE Conclude(d)
    <3>1. (OneDriver /\ CarriersHold)'
      BY <2>16, <2>0, GotoKeepsClaim, ThrowsKeepsClaim, AppendKeepsClaim DEF Conclude, Carrying
    <3>2. LiveCount'
      BY <2>16, <2>0, GotoKeepsCount, ThrowsKeepsCount, AppendKeepsCount DEF Conclude
    <3> QED BY <3>1, <3>2
  <2>17. CASE Finish(d)
    <3>1. (OneDriver /\ CarriersHold)'
      BY <2>17, <2>0, GotoKeepsClaim, ThrowsKeepsClaim DEF Finish, Carrying
    <3>2. LiveCount'
      BY <2>17, <2>0, GotoKeepsCount, ThrowsKeepsCount DEF Finish
    <3> QED BY <3>1, <3>2
  <2> QED BY <1>4, <2>1, <2>2, <2>3, <2>4, <2>5, <2>6, <2>7, <2>8, <2>9, <2>10, <2>11,
             <2>12, <2>13, <2>14, <2>15, <2>16, <2>17 DEF DriveStep
<1>5. ASSUME NEW c \in Cancellers, Cancel(c) \/ CancelStep(c)
      PROVE  (OneDriver /\ CarriersHold)' /\ LiveCount'
  <2>0. c \in Actors /\ c \notin Drives
    BY BoundsAssumption DEF Actors
  <2>1. CASE Cancel(c)
    <3>1. (OneDriver /\ CarriersHold)'
      BY <2>1, <2>0, GotoKeepsClaim, AppendKeepsClaim DEF Cancel, Carrying, Answer
    <3>2. LiveCount'
      BY <2>1, <2>0, GotoKeepsCount, AppendKeepsCount DEF Cancel, Answer
    <3> QED BY <3>1, <3>2
  <2>2. CASE LandCancel(c)
    <3>1. (OneDriver /\ CarriersHold)'
      BY <2>2, <2>0, GotoKeepsClaim DEF LandCancel, Carrying
    <3>2. LiveCount'
      BY <2>2, <2>0, GotoKeepsCount DEF LandCancel
    <3> QED BY <3>1, <3>2
  <2>3. CASE CancelReport(c)
    <3>1. (OneDriver /\ CarriersHold)'
      BY <2>3, <2>0, GotoKeepsClaim DEF CancelReport, Carrying, Answer
    <3>2. LiveCount'
      BY <2>3, <2>0, GotoKeepsCount DEF CancelReport, Answer
    <3> QED BY <3>1, <3>2
  <2>4. CASE CancelReread(c)
    <3>1. (OneDriver /\ CarriersHold)'
      BY <2>4, <2>0, GotoKeepsClaim DEF CancelReread, Carrying, Answer
    <3>2. LiveCount'
      BY <2>4, <2>0, GotoKeepsCount DEF CancelReread, Answer
    <3> QED BY <3>1, <3>2
  <2> QED BY <1>5, <2>1, <2>2, <2>3, <2>4 DEF CancelStep
<1>6. ASSUME NEW a \in Actors, FinalizeStep(a)
      PROVE  (OneDriver /\ CarriersHold)' /\ LiveCount'
  <2>0. a \in Actors
    OBVIOUS
  <2>1. CASE FinalizeCheck(a)
    <3>1. (OneDriver /\ CarriersHold)'
      BY <2>1, <2>0, GotoKeepsClaim, ThrowsKeepsClaim DEF FinalizeCheck, Carrying
    <3>2. LiveCount'
      BY <2>1, <2>0, GotoKeepsCount, ThrowsKeepsCount DEF FinalizeCheck
    <3> QED BY <3>1, <3>2
  <2>2. CASE FinalizeRead(a)
    <3>1. (OneDriver /\ CarriersHold)'
      BY <2>2, <2>0, GotoKeepsClaim, AppendKeepsClaim DEF FinalizeRead, Carrying
    <3>2. LiveCount'
      BY <2>2, <2>0, GotoKeepsCount, AppendKeepsCount DEF FinalizeRead
    <3> QED BY <3>1, <3>2
  <2>3. CASE LandFinished(a)
    <3>1. (OneDriver /\ CarriersHold)'
      BY <2>3, <2>0, GotoKeepsClaim DEF LandFinished, Carrying
    <3>2. LiveCount'
      BY <2>3, <2>0, GotoKeepsCount DEF LandFinished
    <3> QED BY <3>1, <3>2
  <2>4. CASE RecordHistory(a)
    <3>1. (OneDriver /\ CarriersHold)'
      BY <2>4, <2>0, GotoKeepsClaim DEF RecordHistory, Carrying
    <3>2. LiveCount'
      BY <2>4, <2>0, GotoKeepsCount DEF RecordHistory
    <3> QED BY <3>1, <3>2
  <2>5. CASE ReleaseAndClose(a)
    <3>1. (OneDriver /\ CarriersHold)'
      BY <2>5, <2>0, GotoKeepsClaim DEF ReleaseAndClose, Carrying
    <3>2. LiveCount'
      BY <2>5, <2>0, GotoKeepsCount DEF ReleaseAndClose
    <3> QED BY <3>1, <3>2
  <2>6. CASE CloseStream(a)
    <3>1. (OneDriver /\ CarriersHold)'
      BY <2>6, <2>0, GotoKeepsClaim, ThrowsKeepsClaim, ReleaseKeepsClaim DEF CloseStream, Carrying
    <3>2. LiveCount'
      BY <2>6, <2>0, GotoKeepsCount, ThrowsKeepsCount DEF CloseStream
    <3> QED BY <3>1, <3>2
  <2> QED BY <1>6, <2>1, <2>2, <2>3, <2>4, <2>5, <2>6 DEF FinalizeStep
<1>7. CASE UNCHANGED vars
  BY <1>7 DEF vars, DriveInv, OneDriver, CarriersHold, LiveCount
<1> QED BY <1>1, <1>2, <1>3, <1>4, <1>5, <1>6, <1>7 DEF Next

(* Every variable of the run model stays in its set; the count of live     *)
(* executions is never released twice.                                     *)
THEOREM TypeCorrect == Spec => []TypeOK
<1>1. Spec => []DriveInv
  BY DriveInvInit, DriveInvStep, PTL DEF Spec
<1> QED BY <1>1, PTL DEF DriveInv

(* claimDrive and its release: at most one drive of the process is inside  *)
(* the loop, and the claim is taken exactly while one is.                  *)
THEOREM OneDriverAlways == Spec => []OneDriver
<1>1. Spec => []DriveInv
  BY DriveInvInit, DriveInvStep, PTL DEF Spec
<1> QED BY <1>1, PTL DEF DriveInv

-----------------------------------------------------------------------------
(* Endings, and steps that run at most once *)

(* Whoever is past the append of run-finished has it on the ledger. *)
Ending == {"history", "release", "close", "closeThenThrow"}

EndedInv ==
  /\ ClosedMeansFinished
  /\ \A a \in Actors : pc[a] \in Ending => Finished(ledger)

(* A performed step is on the ledger, or the stream was closed before its  *)
(* invocation could land; a drive about to perform one has not done so.    *)
OnceInv ==
  ~Resurrected(ledger) =>
    /\ \A s \in Steps : performed[s] <= 1
    /\ \A s \in Steps : performed[s] > 0 => Invoked(ledger, s) \/ streamClosed
    /\ \A d \in Drives : pc[d] \in {"landInvoked", "execute"} => performed[step[d]] = 0
    /\ \A d \in Drives : pc[d] = "execute" => Invoked(ledger, step[d]) \/ streamClosed

RunInv == DriveInv /\ EndedInv /\ OnceInv

LEMMA RunInvInit == Init => RunInv
<1> SUFFICES ASSUME Init PROVE RunInv
  OBVIOUS
<1>1. EndedInv
  BY DEF Init, EndedInv, ClosedMeansFinished, Ending
<1>2. OnceInv
  BY DEF Init, OnceInv, Actors
<1> QED BY <1>1, <1>2, DriveInvInit DEF RunInv

(* The ledger only grows. *)
Grows == ledger' = ledger \/ \E e \in LedgerEntry : ledger' = Append(ledger, e)

LEMMA GrowsKeeps ==
  ASSUME TypeOK, Grows
  PROVE  /\ Finished(ledger) => Finished(ledger')
         /\ \A s : Invoked(ledger, s) => Invoked(ledger', s)
         /\ Resurrected(ledger) => Resurrected(ledger')
         /\ CancellationRequested(ledger) => CancellationRequested(ledger')
BY AppendKeeps DEF TypeOK, StateOK, Grows, Finished, CancellationRequested

LEMMA LandGrows ==
  ASSUME NEW e \in LedgerEntry, Land(e)
  PROVE  Grows
BY DEF Land, Grows

(* Most steps neither end a run nor perform anything: the invariant is     *)
(* carried over whatever they append.                                      *)
LEMMA QuietStep ==
  ASSUME RunInv, NEW a \in Actors, NEW label, Goto(a, label), Grows,
         UNCHANGED <<streamClosed, closedStreams, performed>>,
         \A d \in Drives : d # a => step'[d] = step[d],
         label \notin Ending \cup {"landInvoked", "execute"}
  PROVE  EndedInv' /\ OnceInv'
<1>1. TypeOK /\ EndedInv /\ OnceInv
  BY DEF RunInv, DriveInv
<1>2. \A b \in Actors : pc'[b] = IF b = a THEN label ELSE pc[b]
  BY <1>1 DEF Goto, TypeOK, ControlOK
<1>3. EndedInv'
  BY <1>1, <1>2, GrowsKeeps DEF EndedInv, ClosedMeansFinished
<1>4. OnceInv'
  BY <1>1, <1>2, GrowsKeeps DEF OnceInv, Actors
<1> QED BY <1>3, <1>4

LEMMA QuietThrow ==
  ASSUME RunInv, NEW a \in Actors, NEW reason, Throws(a, reason),
         UNCHANGED <<ledger, streamClosed, closedStreams, performed, step>>
  PROVE  EndedInv' /\ OnceInv'
<1>1. PICK label \in {"finish", "idle", "reread", "answered"} : Goto(a, label)
  BY ThrowsGoes
<1>2. label \notin Ending \cup {"landInvoked", "execute"}
  BY DEF Ending
<1> QED BY <1>1, <1>2, QuietStep DEF Grows

LEMMA QuietAppend ==
  ASSUME RunInv, NEW a \in Actors, NEW label, AppendThen(a, label),
         UNCHANGED <<ledger, streamClosed, closedStreams, performed, step>>,
         label \notin Ending \cup {"landInvoked", "execute"}
  PROVE  EndedInv' /\ OnceInv'
BY QuietThrow, QuietStep DEF AppendThen, Grows

(* A run that does not read ended has an open stream, so what its ledger   *)
(* does not show as invoked was never performed.                           *)
LEMMA UninvokedIsUnperformed ==
  ASSUME RunInv, NEW s \in Steps, RunStatus(ledger) = "running", ~Invoked(ledger, s),
         ~Resurrected(ledger)
  PROVE  performed[s] = 0
<1>1. ledger \in Seq(LedgerEntry) /\ performed[s] \in Nat
  BY DEF RunInv, DriveInv, TypeOK, StateOK
<1>2. ~Finished(ledger)
  BY <1>1, FinishedIsTerminal, RunningIsNotTerminal
<1>3. ~streamClosed
  BY <1>2 DEF RunInv, EndedInv, ClosedMeansFinished
<1>4. ~(performed[s] > 0)
  BY <1>3 DEF RunInv, OnceInv
<1> QED BY <1>1, <1>4

LEMMA RunInvStep == RunInv /\ [Next]_vars => RunInv'
<1> SUFFICES ASSUME RunInv, [Next]_vars PROVE EndedInv' /\ OnceInv'
  BY DriveInvStep DEF RunInv
<1>0. TypeOK /\ DriveInv /\ EndedInv /\ OnceInv
  BY DEF RunInv, DriveInv
<1> USE DEF durable, memory, local, bounds, ghost
<1>1. CASE OpenRun
  <2>1. ledger' = Append(ledger, Entry("run-opened", "none"))
    BY <1>1 DEF OpenRun
  <2>2. Grows
    BY <2>1, Entries DEF Grows
  <2>3. EndedInv'
    BY <1>0, <1>1, <2>2, GrowsKeeps DEF OpenRun, EndedInv, ClosedMeansFinished
  <2>4. OnceInv'
    BY <1>0, <1>1, <2>2, GrowsKeeps DEF OpenRun, OnceInv
  <2> QED BY <2>3, <2>4
<1>2. CASE Crash
  <2>1. \A a \in Actors : pc'[a] \in {"idle", "answered"}
    BY <1>2 DEF Crash
  <2>2. EndedInv'
    BY <1>0, <1>2, <2>1 DEF Crash, EndedInv, ClosedMeansFinished, Ending
  <2>3. OnceInv'
    BY <1>0, <1>2, <2>1 DEF Crash, OnceInv, Actors
  <2> QED BY <2>2, <2>3
<1>3. ASSUME NEW d \in Drives, DriveAgentRun(d) PROVE EndedInv' /\ OnceInv'
  BY <1>3, QuietStep DEF DriveAgentRun, Ending, Actors, Grows
<1>4. ASSUME NEW d \in Drives, DriveStep(d) PROVE EndedInv' /\ OnceInv'
  <2>0. d \in Actors /\ step[d] \in Steps
    BY <1>0 DEF Actors, TypeOK, StateOK
  <2>1. CASE Prepare(d)
    BY <2>1, <2>0, QuietStep DEF Prepare, Ending, Grows
  <2>2. CASE Resume(d)
    BY <2>2, <2>0, QuietStep DEF Resume, Ending, Grows
  <2>3. CASE ClaimDrive(d)
    BY <2>3, <2>0, QuietStep DEF ClaimDrive, Ending, Grows
  <2>4. CASE MarkRunning(d)
    BY <2>4, <2>0, QuietStep, QuietThrow, QuietAppend DEF MarkRunning, Ending, Grows
  <2>5. CASE LandStarted(d)
    <3>1. Grows
      BY <1>0, <2>5, <2>0, LandGrows, Entries DEF LandStarted, TypeOK, StateOK
    <3> QED BY <2>5, <2>0, <3>1, QuietStep DEF LandStarted, Ending, NextCall
  <2>6. CASE RecordDriver(d)
    BY <2>6, <2>0, QuietStep, QuietThrow, QuietAppend DEF RecordDriver, Ending, Grows
  <2>7. CASE Loop(d)
    BY <2>7, <2>0, QuietStep DEF Loop, Ending, Grows
  <2>8. CASE TurnEnds(d)
    BY <2>8, <2>0, QuietStep, QuietThrow DEF TurnEnds, Ending, Grows, Throws
  <2>9. CASE HandleCall(d)
    <3>1. \A e \in Drives : e # d => step'[e] = step[e]
      BY <1>0, <2>9 DEF HandleCall, TypeOK, StateOK
    <3> QED BY <2>9, <2>0, <3>1, QuietStep DEF HandleCall, Ending, Grows
  <2>10. CASE RunStep(d)
    <3>1. UNCHANGED <<ledger, streamClosed, closedStreams, performed, step>>
      BY <2>10 DEF RunStep
    <3>2. CASE Goto(d, "landInvoked") /\ RunStatus(ledger) = "running" /\ ~Invoked(ledger, step[d])
      <4>1. \A b \in Actors : pc'[b] = IF b = d THEN "landInvoked" ELSE pc[b]
        BY <1>0, <3>2 DEF Goto, TypeOK, ControlOK
      <4>2. EndedInv'
        BY <1>0, <3>1, <4>1 DEF EndedInv, ClosedMeansFinished, Ending
      <4>3. ~Resurrected(ledger) => performed[step[d]] = 0
        BY <2>0, <3>2, UninvokedIsUnperformed
      <4>4. OnceInv'
        BY <1>0, <3>1, <4>1, <4>3 DEF OnceInv, Actors
      <4> QED BY <4>2, <4>4
    <3>3. CASE \E reason : Throws(d, reason)
      BY <2>0, <3>1, <3>3, QuietThrow
    <3>4. CASE \E label \in {"finalize", "turn", "loop"} : Goto(d, label)
      BY <2>0, <3>1, <3>4, QuietStep DEF Ending, Grows
    <3> QED BY <2>10, <3>2, <3>3, <3>4 DEF RunStep, AppendThen, NextCall
  <2>11. CASE LandInvoked(d)
    <3>1. /\ Land(Entry("tool-invoked", step[d])) /\ Goto(d, "execute") /\ pc[d] = "landInvoked"
          /\ UNCHANGED <<streamClosed, closedStreams, performed, step>>
      BY <2>11 DEF LandInvoked
    <3>2. Grows
      BY <2>0, <3>1, LandGrows, Entries
    <3>3. \A b \in Actors : pc'[b] = IF b = d THEN "execute" ELSE pc[b]
      BY <1>0, <3>1 DEF Goto, TypeOK, ControlOK
    <3>4. EndedInv'
      BY <1>0, <3>1, <3>2, <3>3, GrowsKeeps DEF EndedInv, ClosedMeansFinished, Ending
    <3>5. Invoked(ledger', step[d]) \/ streamClosed
      BY <1>0, <2>0, <3>1, AppendShows, Entries DEF Land, TypeOK, StateOK
    <3>6. OnceInv'
      BY <1>0, <3>1, <3>2, <3>3, <3>5, GrowsKeeps DEF OnceInv, Actors
    <3> QED BY <3>4, <3>6
  <2>12. CASE ExecuteDenied(d)
    BY <2>12, <2>0, QuietStep, QuietAppend DEF ExecuteDenied, Ending, Grows, NextCall
  <2>13. CASE BeginExecution(d)
    <3>1. /\ pc[d] = "execute" /\ Goto(d, "executing")
          /\ performed' = [performed EXCEPT ![step[d]] = @ + 1]
          /\ UNCHANGED <<ledger, streamClosed, closedStreams, step>>
      BY <2>13 DEF BeginExecution
    <3>2. \A b \in Actors : pc'[b] = IF b = d THEN "executing" ELSE pc[b]
      BY <1>0, <3>1 DEF Goto, TypeOK, ControlOK
    <3>3. EndedInv'
      BY <1>0, <3>1, <3>2 DEF EndedInv, ClosedMeansFinished, Ending
    <3>4. \A e \in Drives : pc[e] \in {"landInvoked", "execute"} => e = d
      BY <1>0, <3>1 DEF DriveInv, OneDriver, CarriersHold, Carrying
    <3>5. \A s \in Steps : performed'[s] = IF s = step[d] THEN performed[s] + 1 ELSE performed[s]
      BY <1>0, <2>0, <3>1 DEF TypeOK, StateOK
    <3>6. OnceInv'
      BY <1>0, <2>0, <3>1, <3>2, <3>4, <3>5 DEF OnceInv, Actors
    <3> QED BY <3>3, <3>6
  <2>14. CASE EndExecution(d)
    BY <2>14, <2>0, QuietStep, QuietThrow, QuietAppend DEF EndExecution, Ending, Grows
  <2>15. CASE LandOutcome(d)
    <3>1. Grows
      BY <1>0, <2>15, <2>0, LandGrows, Entries DEF LandOutcome, TypeOK, StateOK
    <3> QED BY <2>15, <2>0, <3>1, QuietStep DEF LandOutcome, Ending, NextCall
  <2>16. CASE Conclude(d)
    BY <2>16, <2>0, QuietStep, QuietThrow, QuietAppend DEF Conclude, Ending, Grows
  <2>17. CASE Finish(d)
    BY <2>17, <2>0, QuietStep, QuietThrow DEF Finish, Ending, Grows
  <2> QED BY <1>4, <2>1, <2>2, <2>3, <2>4, <2>5, <2>6, <2>7, <2>8, <2>9, <2>10, <2>11,
             <2>12, <2>13, <2>14, <2>15, <2>16, <2>17 DEF DriveStep
<1>5. ASSUME NEW c \in Cancellers, Cancel(c) \/ CancelStep(c) PROVE EndedInv' /\ OnceInv'
  <2>0. c \in Actors
    BY DEF Actors
  <2>1. CASE Cancel(c)
    BY <2>0, <2>1, QuietStep, QuietAppend DEF Cancel, Answer, Ending, Grows
  <2>2. CASE LandCancel(c)
    <3>1. Grows
      BY <2>2, LandGrows, Entries DEF LandCancel
    <3> QED BY <2>0, <2>2, <3>1, QuietStep DEF LandCancel, Ending
  <2>3. CASE CancelReport(c)
    BY <2>0, <2>3, QuietStep DEF CancelReport, Answer, Ending, Grows
  <2>4. CASE CancelReread(c)
    BY <2>0, <2>4, QuietStep DEF CancelReread, Answer, Ending, Grows
  <2> QED BY <1>5, <2>1, <2>2, <2>3, <2>4 DEF CancelStep
<1>6. ASSUME NEW a \in Actors, FinalizeStep(a) PROVE EndedInv' /\ OnceInv'
  <2>1. CASE FinalizeCheck(a)
    BY <2>1, QuietStep, QuietThrow DEF FinalizeCheck, Ending, Grows
  <2>2. CASE FinalizeRead(a)
    BY <2>2, QuietAppend DEF FinalizeRead, Ending
  <2>3. CASE LandFinished(a)
    <3>1. /\ Land(Entry("run-finished", ending[a])) /\ Goto(a, "history")
          /\ UNCHANGED <<streamClosed, closedStreams, performed, step>>
          /\ Entry("run-finished", ending[a]) \in LedgerEntry
          /\ Entry("run-finished", ending[a]).kind = "run-finished"
      BY <1>0, <2>3, Entries DEF LandFinished, TypeOK, ControlOK, Entry
    <3>2. Grows
      BY <3>1, LandGrows
    <3>3. Finished(ledger')
      BY <1>0, <3>1, AppendShows DEF Land, Finished, EndedInv, ClosedMeansFinished, TypeOK, StateOK
    <3>4. EndedInv'
      BY <3>3 DEF EndedInv, ClosedMeansFinished
    <3>5. \A b \in Actors : pc'[b] = IF b = a THEN "history" ELSE pc[b]
      BY <1>0, <3>1 DEF Goto, TypeOK, ControlOK
    <3>6. OnceInv'
      BY <1>0, <3>1, <3>2, <3>5, GrowsKeeps DEF OnceInv, Actors
    <3> QED BY <3>4, <3>6
  <2>4. CASE RecordHistory(a) \/ ReleaseAndClose(a) \/ CloseStream(a)
    <3>1. pc[a] \in Ending /\ UNCHANGED <<ledger, performed, step>> /\ (streamClosed => streamClosed')
      BY <1>0, <2>4 DEF RecordHistory, ReleaseAndClose, CloseStream, Ending, TypeOK, StateOK
    <3>2. Finished(ledger')
      BY <1>0, <3>1 DEF EndedInv
    <3>3. EndedInv'
      BY <3>2 DEF EndedInv, ClosedMeansFinished
    <3>4. PICK label : Goto(a, label) /\ label \notin {"landInvoked", "execute"}
      BY <2>4, ThrowsGoes DEF RecordHistory, ReleaseAndClose, CloseStream
    <3>5. \A b \in Actors : pc'[b] = IF b = a THEN label ELSE pc[b]
      BY <1>0, <3>4 DEF Goto, TypeOK, ControlOK
    <3>6. OnceInv'
      BY <1>0, <3>1, <3>4, <3>5 DEF OnceInv, Actors
    <3> QED BY <3>3, <3>6
  <2> QED BY <1>6, <2>1, <2>2, <2>3, <2>4 DEF FinalizeStep
<1>7. CASE UNCHANGED vars
  <2>1. EndedInv'
    BY <1>0, <1>7 DEF vars, EndedInv, ClosedMeansFinished
  <2>2. OnceInv'
    BY <1>0, <1>7 DEF vars, OnceInv
  <2> QED BY <2>1, <2>2
<1> QED BY <1>1, <1>2, <1>3, <1>4, <1>5, <1>6, <1>7 DEF Next

LEMMA RunInvAlways == Spec => []RunInv
BY RunInvInit, RunInvStep, PTL DEF Spec

(* The premise of cancel()'s second read: a stream closed in this process  *)
(* or at the backend has an ending on its ledger, across restarts.         *)
THEOREM ClosedIsFinished == Spec => []ClosedMeansFinished
<1>1. RunInv => ClosedMeansFinished
  BY DEF RunInv, EndedInv
<1> QED BY <1>1, RunInvAlways, PTL

(* "No tool execution is performed twice", for every number of drives,     *)
(* cancel requests, steps and restarts, on every ledger whose run-started  *)
(* entries precede its run-finished entries.                               *)
THEOREM StepsAtMostOnce == Spec => []AtMostOnce
<1>1. RunInv => AtMostOnce
  BY DEF RunInv, OnceInv, AtMostOnce
<1> QED BY <1>1, RunInvAlways, PTL

-----------------------------------------------------------------------------
(* What holds until somebody ends the run under the drive that carries it *)

(* Where a drive is inside the run: its start is being written or the loop *)
(* has begun.                                                              *)
Inside == {"landStarted", "loop", "turn", "runStep", "landInvoked", "execute", "executing",
           "landOutcome", "conclude"}

(* Ended in order: no start behind an ending, no drive inside an ended run.*)
EndedInOrder ==
  ~foreignEnd =>
    /\ ~Resurrected(ledger)
    /\ Finished(ledger) => \A d \in Drives : pc[d] \notin Inside

(* A run closed in this process holds nothing. *)
ReleasedHere == closedStreams /\ ~foreignEnd => ~held /\ artifacts = {}

OrderInv == EndedInOrder /\ WriteAhead /\ ReleasedHere

LEMMA OrderInit == Init => OrderInv
<1> SUFFICES ASSUME Init PROVE OrderInv
  OBVIOUS
<1>1. ~Resurrected(ledger) /\ ~Finished(ledger)
  BY DEF Init, Resurrected, Finished, Has
<1> QED BY <1>1 DEF Init, OrderInv, EndedInOrder, WriteAhead, ReleasedHere

(* Entries that neither start nor end a run. *)
Quietly ==
  \/ ledger' = ledger
  \/ \E e \in LedgerEntry : ledger' = Append(ledger, e) /\ e.kind \notin {"run-started", "run-finished"}

LEMMA QuietlyKeeps ==
  ASSUME TypeOK, Quietly
  PROVE  /\ Grows
         /\ Finished(ledger') => Finished(ledger)
         /\ Resurrected(ledger') => Resurrected(ledger)
<1>1. ledger \in Seq(LedgerEntry)
  BY DEF TypeOK, StateOK
<1>2. CASE ledger' = ledger
  BY <1>2 DEF Grows
<1>3. ASSUME NEW e \in LedgerEntry, ledger' = Append(ledger, e),
             e.kind \notin {"run-started", "run-finished"}
      PROVE  /\ Grows
             /\ Finished(ledger') => Finished(ledger)
             /\ Resurrected(ledger') => Resurrected(ledger)
  <2>1. /\ Finished(Append(ledger, e)) => Finished(ledger)
        /\ Resurrected(Append(ledger, e)) => Resurrected(ledger)
    BY <1>1, <1>3, AppendAdds
  <2>2. Grows
    BY <1>3 DEF Grows
  <2> QED BY <1>3, <2>1, <2>2
<1> QED BY <1>2, <1>3 DEF Quietly

(* A drive gets inside a run only while the run has no ending. *)
LEMMA OrderQuiet ==
  ASSUME TypeOK, OrderInv, NEW a \in Actors, NEW label, Goto(a, label), Quietly,
         UNCHANGED <<closedStreams, held, artifacts, performed, foreignEnd>>,
         a \in Drives /\ label \in Inside /\ ~foreignEnd => pc[a] \in Inside \/ ~Finished(ledger)
  PROVE  OrderInv'
<1>1. \A d \in Drives : pc'[d] = IF d = a THEN label ELSE pc[d]
  BY DEF Goto, TypeOK, ControlOK, Actors
<1>2. EndedInOrder'
  BY <1>1, QuietlyKeeps DEF OrderInv, EndedInOrder
<1>3. WriteAhead'
  BY QuietlyKeeps, GrowsKeeps DEF OrderInv, WriteAhead
<1>4. ReleasedHere'
  BY DEF OrderInv, ReleasedHere
<1> QED BY <1>2, <1>3, <1>4 DEF OrderInv

LEMMA OrderThrow ==
  ASSUME TypeOK, OrderInv, NEW a \in Actors, NEW reason, Throws(a, reason),
         UNCHANGED <<ledger, closedStreams, held, artifacts, performed, foreignEnd>>
  PROVE  OrderInv'
<1>1. PICK label \in {"finish", "idle", "reread", "answered"} : Goto(a, label)
  BY ThrowsGoes
<1>2. label \notin Inside
  BY DEF Inside
<1> QED BY <1>1, <1>2, OrderQuiet DEF Quietly

LEMMA OrderAppend ==
  ASSUME TypeOK, OrderInv, NEW a \in Actors, NEW label, AppendThen(a, label),
         UNCHANGED <<ledger, closedStreams, held, artifacts, performed, foreignEnd>>,
         a \in Drives /\ label \in Inside /\ ~foreignEnd => pc[a] \in Inside \/ ~Finished(ledger)
  PROVE  OrderInv'
BY OrderThrow, OrderQuiet DEF AppendThen, Quietly

LEMMA LandQuietly ==
  ASSUME NEW e \in LedgerEntry, Land(e), e.kind \notin {"run-started", "run-finished"}
  PROVE  Quietly
BY DEF Land, Quietly

(* An ended run does not read queued or running, until a start is written  *)
(* behind its ending.                                                      *)
LEMMA OpenIsUnfinished ==
  ASSUME TypeOK, OrderInv, ~foreignEnd, RunStatus(ledger) \in {"queued", "running"}
  PROVE  ~Finished(ledger)
<1>1. ledger \in Seq(LedgerEntry) /\ ~Resurrected(ledger)
  BY DEF TypeOK, StateOK, OrderInv, EndedInOrder
<1> QED BY <1>1, FinishedIsTerminal, RunningIsNotTerminal

(* The kinds of the entries written inside a run. *)
LEMMA QuietKinds ==
  /\ \A s \in Steps : Entry("tool-invoked", s).kind = "tool-invoked"
  /\ \A k \in {"tool-completed", "tool-refused"}, s \in Steps : Entry(k, s).kind = k
  /\ Entry("cancellation-requested", "none").kind = "cancellation-requested"
  /\ Entry("run-opened", "none").kind = "run-opened"
  /\ Entry("run-started", "none").kind = "run-started"
  /\ \A t \in Terminals : Entry("run-finished", t).kind = "run-finished"
BY DEF Entry

(* What a drive does inside a run. *)
LEMMA OrderDrive ==
  ASSUME RunInv, OrderInv, NEW d \in Drives, DriveStep(d)
  PROVE  OrderInv'
<1>0. TypeOK /\ d \in Actors /\ step[d] \in Steps /\ outcome[d] \in {"tool-completed", "tool-refused"}
  BY DEF RunInv, DriveInv, Actors, TypeOK, StateOK
<1> USE <1>0 DEF durable, memory, local, bounds, ghost
<1>1. CASE Prepare(d)
  BY <1>1, OrderQuiet DEF Prepare, Inside, Quietly
<1>2. CASE Resume(d)
  BY <1>2, OrderQuiet DEF Resume, Inside, Quietly
<1>3. CASE ClaimDrive(d)
  BY <1>3, OrderQuiet DEF ClaimDrive, Inside, Quietly
<1>4. CASE MarkRunning(d)
  <2>1. RunStatus(ledger) = "queued" /\ ~foreignEnd => ~Finished(ledger)
    BY OpenIsUnfinished
  <2> QED BY <1>4, <2>1, OrderThrow, OrderAppend DEF MarkRunning
<1>5. CASE LandStarted(d)
  <2>1. /\ Land(Entry("run-started", "none")) /\ Goto(d, "recordDriver") /\ pc[d] = "landStarted"
        /\ UNCHANGED <<closedStreams, held, artifacts, performed, foreignEnd>>
    BY <1>5 DEF LandStarted
  <2>2. ~foreignEnd => ~Resurrected(ledger) /\ ~Finished(ledger)
    BY <2>1 DEF OrderInv, EndedInOrder, Inside
  <2>3. Grows
    BY <2>1, LandGrows, Entries
  <2>4. ~foreignEnd => ~Resurrected(ledger') /\ ~Finished(ledger')
    <3>1. ledger \in Seq(LedgerEntry)
      BY DEF TypeOK, StateOK
    <3>2. ledger' = ledger \/ ledger' = Append(ledger, Entry("run-started", "none"))
      BY <2>1 DEF Land
    <3>3. Entry("run-started", "none") \in LedgerEntry /\ Entry("run-started", "none").kind = "run-started"
      BY Entries, QuietKinds
    <3>4. /\ Finished(Append(ledger, Entry("run-started", "none"))) => Finished(ledger)
          /\ Resurrected(Append(ledger, Entry("run-started", "none"))) => Resurrected(ledger) \/ Finished(ledger)
      BY <3>1, <3>3, AppendAdds
    <3> QED BY <2>2, <3>2, <3>4
  <2>5. EndedInOrder' /\ ReleasedHere'
    BY <2>1, <2>4 DEF EndedInOrder, OrderInv, ReleasedHere
  <2>6. WriteAhead'
    BY <2>1, <2>3, GrowsKeeps DEF OrderInv, WriteAhead
  <2> QED BY <2>5, <2>6 DEF OrderInv
<1>6. CASE RecordDriver(d)
  <2>1. RunStatus(ledger) = "running" /\ ~foreignEnd => ~Finished(ledger)
    BY OpenIsUnfinished
  <2> QED BY <1>6, <2>1, OrderThrow, OrderAppend DEF RecordDriver
<1>7. CASE Loop(d)
  BY <1>7, OrderQuiet DEF Loop, Inside, Quietly
<1>8. CASE TurnEnds(d)
  BY <1>8, OrderQuiet, OrderThrow DEF TurnEnds, Throws, Inside, Quietly
<1>9. CASE HandleCall(d)
  BY <1>9, OrderQuiet DEF HandleCall, Inside, Quietly
<1>10. CASE RunStep(d)
  BY <1>10, OrderQuiet, OrderThrow, OrderAppend DEF RunStep, NextCall, Inside, Quietly
<1>11. CASE LandInvoked(d)
  <2>1. Quietly
    BY <1>11, LandQuietly, Entries, QuietKinds DEF LandInvoked
  <2> QED BY <1>11, <2>1, OrderQuiet DEF LandInvoked, Inside
<1>12. CASE ExecuteDenied(d)
  BY <1>12, OrderQuiet, OrderAppend DEF ExecuteDenied, NextCall, Inside, Quietly
<1>13. CASE BeginExecution(d)
  <2>1. /\ pc[d] = "execute" /\ Goto(d, "executing")
        /\ performed' = [performed EXCEPT ![step[d]] = @ + 1]
        /\ UNCHANGED <<ledger, streamClosed, closedStreams, artifacts, step, foreignEnd>>
    BY <1>13 DEF BeginExecution
  <2>2. ~foreignEnd => ~Finished(ledger) /\ ~Resurrected(ledger)
    BY <2>1 DEF OrderInv, EndedInOrder, Inside
  <2>3. ~foreignEnd => Invoked(ledger, step[d])
    BY <2>1, <2>2 DEF RunInv, EndedInv, ClosedMeansFinished, OnceInv
  <2>4. \A s \in Steps : s # step[d] => performed'[s] = performed[s]
    BY <2>1 DEF TypeOK, StateOK
  <2>5. WriteAhead'
    BY <2>1, <2>3, <2>4 DEF OrderInv, WriteAhead
  <2>6. EndedInOrder'
    BY <2>1, <2>2 DEF EndedInOrder
  <2>7. ReleasedHere'
    BY <2>1, <2>2 DEF ReleasedHere, RunInv, EndedInv, ClosedMeansFinished
  <2> QED BY <2>5, <2>6, <2>7 DEF OrderInv
<1>14. CASE EndExecution(d)
  <2>1. CASE artifacts' = artifacts
    BY <1>14, <2>1, OrderThrow, OrderAppend DEF EndExecution, Inside
  <2>2. CASE artifacts' # artifacts
    <3>1. /\ pc[d] = "executing" /\ AppendThen(d, "landOutcome")
          /\ UNCHANGED <<ledger, streamClosed, closedStreams, held, performed, foreignEnd>>
      BY <1>14, <2>2 DEF EndExecution
    <3>2. PICK label : Goto(d, label)
      BY <3>1, ThrowsGoes DEF AppendThen
    <3>3. ~foreignEnd => ~Finished(ledger) /\ ~Resurrected(ledger)
      BY <3>1 DEF OrderInv, EndedInOrder, Inside
    <3>4. EndedInOrder' /\ WriteAhead'
      BY <3>1, <3>3 DEF OrderInv, EndedInOrder, WriteAhead
    <3>5. ReleasedHere'
      BY <3>1, <3>3 DEF ReleasedHere, RunInv, EndedInv, ClosedMeansFinished
    <3> QED BY <3>4, <3>5 DEF OrderInv
  <2> QED BY <2>1, <2>2
<1>15. CASE LandOutcome(d)
  <2>1. Quietly
    BY <1>15, LandQuietly, Entries, QuietKinds DEF LandOutcome
  <2> QED BY <1>15, <2>1, OrderQuiet DEF LandOutcome, NextCall, Inside
<1>16. CASE Conclude(d)
  BY <1>16, OrderQuiet, OrderThrow, OrderAppend DEF Conclude, Inside, Quietly
<1>17. CASE Finish(d)
  BY <1>17, OrderQuiet, OrderThrow DEF Finish, Inside, Quietly
<1> QED BY <1>1, <1>2, <1>3, <1>4, <1>5, <1>6, <1>7, <1>8, <1>9, <1>10, <1>11,
           <1>12, <1>13, <1>14, <1>15, <1>16, <1>17 DEF DriveStep

(* Ending the run: whoever writes the ending while another carries the run *)
(* sets foreignEnd, so otherwise nobody is inside when it lands.           *)
LEMMA OrderFinalize ==
  ASSUME RunInv, OrderInv, NEW a \in Actors, FinalizeStep(a)
  PROVE  OrderInv'
<1>0. TypeOK
  BY DEF RunInv, DriveInv
<1> USE <1>0 DEF durable, memory, local, bounds, ghost
<1>1. CASE FinalizeCheck(a)
  BY <1>1, OrderQuiet, OrderThrow DEF FinalizeCheck, Inside, Quietly
<1>2. CASE FinalizeRead(a)
  BY <1>2, OrderAppend DEF FinalizeRead, Inside
<1>3. CASE LandFinished(a)
  <2>1. /\ Land(Entry("run-finished", ending[a])) /\ Goto(a, "history")
        /\ foreignEnd' = (foreignEnd \/ \E d \in Drives \ {a} : holds[d])
        /\ UNCHANGED <<closedStreams, held, artifacts, performed>>
        /\ Entry("run-finished", ending[a]) \in LedgerEntry
        /\ Entry("run-finished", ending[a]).kind = "run-finished"
    BY <1>3, Entries DEF LandFinished, TypeOK, ControlOK, Entry
  <2>2. Grows
    BY <2>1, LandGrows
  <2>3. \A d \in Drives : pc'[d] = IF d = a THEN "history" ELSE pc[d]
    BY <2>1 DEF Goto, TypeOK, ControlOK, Actors
  <2>4. ~foreignEnd' => ~foreignEnd /\ \A d \in Drives \ {a} : ~holds[d]
    BY <2>1
  <2>5. ~foreignEnd' => \A d \in Drives : pc'[d] \notin Inside
    <3>1. Inside \subseteq Carrying /\ "history" \notin Inside
      BY DEF Inside, Carrying
    <3> QED BY <2>3, <2>4, <3>1 DEF RunInv, DriveInv, CarriersHold
  <2>6. ~foreignEnd' => ~Resurrected(ledger')
    <3>1. ledger \in Seq(LedgerEntry)
      BY DEF TypeOK, StateOK
    <3>2. ledger' = ledger \/ ledger' = Append(ledger, Entry("run-finished", ending[a]))
      BY <2>1 DEF Land
    <3>3. Resurrected(Append(ledger, Entry("run-finished", ending[a]))) => Resurrected(ledger)
      BY <2>1, <3>1, AppendAdds
    <3>4. ~foreignEnd => ~Resurrected(ledger)
      BY DEF OrderInv, EndedInOrder
    <3> QED BY <2>4, <3>2, <3>3, <3>4
  <2>7. EndedInOrder'
    BY <2>5, <2>6 DEF EndedInOrder
  <2>8. WriteAhead'
    BY <2>1, <2>2, <2>4, GrowsKeeps DEF OrderInv, WriteAhead
  <2>9. ReleasedHere'
    BY <2>1, <2>4 DEF OrderInv, ReleasedHere
  <2> QED BY <2>7, <2>8, <2>9 DEF OrderInv
<1>4. CASE RecordHistory(a)
  BY <1>4, OrderQuiet DEF RecordHistory, Inside, Quietly
<1>5. CASE ReleaseAndClose(a)
  <2>1. /\ pc[a] = "release" /\ UNCHANGED <<ledger, performed, foreignEnd>>
        /\ active = 0 => held' = FALSE /\ artifacts' = {}
    BY <1>5 DEF ReleaseAndClose, TypeOK, StateOK
  <2>2. PICK label \in {"closeThenThrow", "close"} : Goto(a, label)
    BY <1>5 DEF ReleaseAndClose
  <2>3. \A d \in Drives : pc'[d] \in Inside => pc[d] \in Inside
    BY <2>2 DEF Goto, TypeOK, ControlOK, Actors, Inside
  <2>4. EndedInOrder' /\ WriteAhead'
    BY <2>1, <2>3 DEF OrderInv, EndedInOrder, WriteAhead
  <2>5. ~foreignEnd => \A d \in Drives : pc[d] # "executing"
    BY <2>1 DEF RunInv, EndedInv, Ending, OrderInv, EndedInOrder, Inside
  <2>6. ~foreignEnd => active = 0
    BY <2>5 DEF RunInv, DriveInv, LiveCount
  <2>7. ReleasedHere'
    BY <2>1, <2>6 DEF ReleasedHere
  <2> QED BY <2>4, <2>7 DEF OrderInv
<1>6. CASE CloseStream(a)
  BY <1>6, OrderQuiet, OrderThrow DEF CloseStream, Inside, Quietly
<1> QED BY <1>1, <1>2, <1>3, <1>4, <1>5, <1>6 DEF FinalizeStep

LEMMA OrderStep == RunInv /\ OrderInv /\ [Next]_vars => OrderInv'
<1> SUFFICES ASSUME RunInv, OrderInv, [Next]_vars PROVE OrderInv'
  OBVIOUS
<1>0. TypeOK
  BY DEF RunInv, DriveInv
<1> USE <1>0 DEF durable, memory, local, bounds, ghost
<1>1. CASE OpenRun
  <2>1. Quietly /\ UNCHANGED <<pc, closedStreams, held, artifacts, performed, foreignEnd>>
    BY <1>1, Entries, QuietKinds DEF OpenRun, Quietly
  <2>2. EndedInOrder' /\ ReleasedHere'
    BY <2>1, QuietlyKeeps DEF OrderInv, EndedInOrder, ReleasedHere
  <2>3. WriteAhead'
    BY <2>1, QuietlyKeeps, GrowsKeeps DEF OrderInv, WriteAhead
  <2> QED BY <2>2, <2>3 DEF OrderInv
<1>2. CASE Crash
  <2>1. \A d \in Drives : pc'[d] \notin Inside
    BY <1>2 DEF Crash, Actors, Inside
  <2>2. EndedInOrder' /\ WriteAhead' /\ ReleasedHere'
    BY <1>2, <2>1 DEF Crash, OrderInv, EndedInOrder, WriteAhead, ReleasedHere
  <2> QED BY <2>2 DEF OrderInv
<1>3. ASSUME NEW d \in Drives, DriveAgentRun(d) PROVE OrderInv'
  BY <1>3, OrderQuiet DEF DriveAgentRun, Actors, Inside, Quietly
<1>4. ASSUME NEW d \in Drives, DriveStep(d) PROVE OrderInv'
  BY <1>4, OrderDrive
<1>5. ASSUME NEW c \in Cancellers, Cancel(c) \/ CancelStep(c) PROVE OrderInv'
  <2>0. c \in Actors
    BY DEF Actors
  <2>1. CASE Cancel(c)
    BY <2>0, <2>1, OrderQuiet, OrderAppend DEF Cancel, Answer, Inside, Quietly
  <2>2. CASE LandCancel(c)
    <3>1. Quietly
      BY <2>2, LandQuietly, Entries, QuietKinds DEF LandCancel
    <3> QED BY <2>0, <2>2, <3>1, OrderQuiet DEF LandCancel, Inside
  <2>3. CASE CancelReport(c) \/ CancelReread(c)
    BY <2>0, <2>3, OrderQuiet DEF CancelReport, CancelReread, Answer, Inside, Quietly
  <2> QED BY <1>5, <2>1, <2>2, <2>3 DEF CancelStep
<1>6. ASSUME NEW a \in Actors, FinalizeStep(a) PROVE OrderInv'
  BY <1>6, OrderFinalize
<1>7. CASE UNCHANGED vars
  BY <1>7 DEF vars, OrderInv, EndedInOrder, WriteAhead, ReleasedHere
<1> QED BY <1>1, <1>2, <1>3, <1>4, <1>5, <1>6, <1>7 DEF Next

LEMMA OrderAlways == Spec => []OrderInv
BY RunInvAlways, OrderInit, OrderStep, PTL DEF Spec

(* runStep: what reached the database is on the ledger, for every number   *)
(* of drives, cancel requests and restarts, unless the run was ended under *)
(* the drive that was carrying it.                                         *)
THEOREM EffectsAreRecorded == Spec => []WriteAhead
<1>1. OrderInv => WriteAhead
  BY DEF OrderInv
<1> QED BY <1>1, OrderAlways, PTL

(* An ended run is being closed: whoever wrote the ending goes on to the    *)
(* close, and nothing but the death of the process keeps it from there.    *)
Closing == {"history", "release", "close", "closeThenThrow"}

BeingClosed ==
  Finished(ledger) /\ ~streamClosed /\ crashes = 0 => \E a \in Actors : pc[a] \in Closing

LEMMA ClosingGoesOn ==
  ASSUME TypeOK, BeingClosed, NEW a \in Actors, NEW label, Goto(a, label), Quietly,
         UNCHANGED <<streamClosed, crashes>>, pc[a] \in Closing => label \in Closing
  PROVE  BeingClosed'
<1>1. \A b \in Actors : pc'[b] = IF b = a THEN label ELSE pc[b]
  BY DEF Goto, TypeOK, ControlOK
<1> QED BY <1>1, QuietlyKeeps DEF BeingClosed

LEMMA ClosingThrow ==
  ASSUME TypeOK, BeingClosed, NEW a \in Actors, NEW reason, NEW label,
         Throws(a, reason) \/ AppendThen(a, label),
         UNCHANGED <<ledger, streamClosed, crashes>>, pc[a] \notin Closing
  PROVE  BeingClosed'
<1>1. PICK l : Goto(a, l)
  BY ThrowsGoes DEF AppendThen
<1> QED BY <1>1, ClosingGoesOn DEF Quietly

LEMMA ClosingDrive ==
  ASSUME TypeOK, BeingClosed, NEW d \in Drives, DriveStep(d)
  PROVE  BeingClosed'
<1>0. d \in Actors /\ step[d] \in Steps /\ outcome[d] \in {"tool-completed", "tool-refused"}
  BY DEF Actors, TypeOK, StateOK
<1> USE <1>0 DEF durable, memory, local, bounds, ghost
<1>1. CASE Prepare(d) \/ Resume(d) \/ ClaimDrive(d) \/ Loop(d) \/ HandleCall(d)
  BY <1>1, ClosingGoesOn DEF Prepare, Resume, ClaimDrive, Loop, HandleCall, Closing, Quietly
<1>2. CASE MarkRunning(d)
  BY <1>2, ClosingThrow DEF MarkRunning, Closing
<1>3. CASE LandStarted(d)
  <2>1. /\ Land(Entry("run-started", "none")) /\ Goto(d, "recordDriver") /\ pc[d] = "landStarted"
        /\ UNCHANGED <<streamClosed, crashes>>
    BY <1>3 DEF LandStarted
  <2>2. Finished(ledger') => Finished(ledger)
    <3>1. ledger \in Seq(LedgerEntry)
      BY DEF TypeOK, StateOK
    <3>2. ledger' = ledger \/ ledger' = Append(ledger, Entry("run-started", "none"))
      BY <2>1 DEF Land
    <3>3. Entry("run-started", "none") \in LedgerEntry /\ Entry("run-started", "none").kind = "run-started"
      BY Entries, QuietKinds
    <3>4. Finished(Append(ledger, Entry("run-started", "none"))) => Finished(ledger)
      BY <3>1, <3>3, AppendAdds
    <3> QED BY <3>2, <3>4
  <2>3. \A b \in Actors : pc[b] \in Closing => pc'[b] \in Closing
    BY <2>1 DEF Goto, TypeOK, ControlOK, Closing
  <2> QED BY <2>1, <2>2, <2>3 DEF BeingClosed
<1>4. CASE RecordDriver(d)
  BY <1>4, ClosingThrow DEF RecordDriver, Closing
<1>5. CASE TurnEnds(d)
  BY <1>5, ClosingThrow, ClosingGoesOn DEF TurnEnds, Throws, Closing, Quietly
<1>6. CASE RunStep(d)
  BY <1>6, ClosingThrow, ClosingGoesOn DEF RunStep, NextCall, Closing, Quietly
<1>7. CASE LandInvoked(d)
  <2>1. Quietly
    BY <1>7, LandQuietly, Entries, QuietKinds DEF LandInvoked
  <2> QED BY <1>7, <2>1, ClosingGoesOn DEF LandInvoked, Closing
<1>8. CASE ExecuteDenied(d)
  BY <1>8, ClosingThrow, ClosingGoesOn DEF ExecuteDenied, NextCall, Closing, Quietly
<1>9. CASE BeginExecution(d)
  BY <1>9, ClosingGoesOn DEF BeginExecution, Closing, Quietly
<1>10. CASE EndExecution(d)
  BY <1>10, ClosingThrow DEF EndExecution, Closing
<1>11. CASE LandOutcome(d)
  <2>1. Quietly
    BY <1>11, LandQuietly, Entries, QuietKinds DEF LandOutcome
  <2> QED BY <1>11, <2>1, ClosingGoesOn DEF LandOutcome, NextCall, Closing
<1>12. CASE Conclude(d)
  BY <1>12, ClosingThrow, ClosingGoesOn DEF Conclude, Closing, Quietly
<1>13. CASE Finish(d)
  BY <1>13, ClosingThrow, ClosingGoesOn DEF Finish, Closing, Quietly
<1> QED BY <1>1, <1>2, <1>3, <1>4, <1>5, <1>6, <1>7, <1>8, <1>9, <1>10, <1>11, <1>12, <1>13
           DEF DriveStep

LEMMA ClosingStep == TypeOK /\ BeingClosed /\ [Next]_vars => BeingClosed'
<1> SUFFICES ASSUME TypeOK, BeingClosed, [Next]_vars PROVE BeingClosed'
  OBVIOUS
<1> USE DEF durable, memory, local, bounds, ghost
<1>1. CASE OpenRun
  <2>1. Quietly /\ UNCHANGED <<pc, streamClosed, crashes>>
    BY <1>1, Entries, QuietKinds DEF OpenRun, Quietly
  <2> QED BY <2>1, QuietlyKeeps DEF BeingClosed
<1>2. CASE Crash
  <2>1. crashes' # 0
    BY <1>2 DEF Crash, TypeOK, StateOK
  <2> QED BY <2>1 DEF BeingClosed
<1>3. ASSUME NEW d \in Drives, DriveAgentRun(d) PROVE BeingClosed'
  BY <1>3, ClosingGoesOn DEF DriveAgentRun, Actors, Closing, Quietly
<1>4. ASSUME NEW d \in Drives, DriveStep(d) PROVE BeingClosed'
  BY <1>4, ClosingDrive
<1>5. ASSUME NEW c \in Cancellers, Cancel(c) \/ CancelStep(c) PROVE BeingClosed'
  <2>0. c \in Actors
    BY DEF Actors
  <2>1. CASE Cancel(c)
    BY <2>0, <2>1, ClosingGoesOn, ClosingThrow DEF Cancel, Answer, Closing, Quietly
  <2>2. CASE LandCancel(c)
    <3>1. Quietly
      BY <2>2, LandQuietly, Entries, QuietKinds DEF LandCancel
    <3> QED BY <2>0, <2>2, <3>1, ClosingGoesOn DEF LandCancel, Closing
  <2>3. CASE CancelReport(c) \/ CancelReread(c)
    BY <2>0, <2>3, ClosingGoesOn DEF CancelReport, CancelReread, Answer, Closing, Quietly
  <2> QED BY <1>5, <2>1, <2>2, <2>3 DEF CancelStep
<1>6. ASSUME NEW a \in Actors, FinalizeStep(a) PROVE BeingClosed'
  <2>1. CASE FinalizeCheck(a) \/ FinalizeRead(a)
    BY <2>1, ClosingGoesOn, ClosingThrow DEF FinalizeCheck, FinalizeRead, Closing, Quietly
  <2>2. CASE LandFinished(a)
    <3>1. pc'[a] \in Closing
      BY <2>2 DEF LandFinished, Goto, TypeOK, ControlOK, Closing
    <3> QED BY <3>1 DEF BeingClosed
  <2>3. CASE RecordHistory(a) \/ ReleaseAndClose(a)
    <3>1. PICK label \in Closing : Goto(a, label)
      BY <2>3 DEF RecordHistory, ReleaseAndClose, Closing
    <3> QED BY <2>3, <3>1, ClosingGoesOn DEF RecordHistory, ReleaseAndClose, Quietly
  <2>4. CASE CloseStream(a)
    BY <2>4 DEF CloseStream, BeingClosed
  <2> QED BY <1>6, <2>1, <2>2, <2>3, <2>4 DEF FinalizeStep
<1>7. CASE UNCHANGED vars
  BY <1>7 DEF vars, BeingClosed
<1> QED BY <1>1, <1>2, <1>3, <1>4, <1>5, <1>6, <1>7 DEF Next

(* finalize: a run closed in this process holds no budget and no artifact, *)
(* under the same proviso; and one that is ended is closed, or about to be.*)
THEOREM ClosedIsReleased == Spec => []ReleasedTogether
<1>1. Init => BeingClosed
  <2>1. Init => ~Finished(ledger)
    BY DEF Init, Finished, Has
  <2> QED BY <2>1 DEF BeingClosed
<1>2. OrderInv /\ BeingClosed => ReleasedTogether
  BY DEF OrderInv, ReleasedHere, ReleasedTogether, BeingClosed, Closing
<1> QED BY <1>1, <1>2, OrderAlways, ClosingStep, TypeCorrect, PTL DEF Spec

-----------------------------------------------------------------------------
(* What a cancel request is told *)

CancelInv ==
  /\ CancelNotLost
  /\ \A c \in Cancellers : pc[c] = "report" => Finished(ledger) \/ CancellationRequested(ledger)

LEMMA CancelInit == Init => CancelInv
<1> SUFFICES ASSUME Init PROVE CancelInv
  OBVIOUS
<1>1. \A c \in Cancellers : answer[c] = "none" /\ pc[c] = "idle"
  BY DEF Init, Actors
<1> QED BY <1>1 DEF CancelInv, CancelNotLost

(* An answer once true stays true: the ledger only grows. *)
LEMMA CancelQuiet ==
  ASSUME TypeOK, CancelInv, NEW a \in Actors, NEW label, Goto(a, label), Grows,
         \A c \in Cancellers : answer'[c] \in {answer[c], "error"},
         label = "report" => Finished(ledger') \/ CancellationRequested(ledger')
  PROVE  CancelInv'
<1>1. \A b \in Actors : pc'[b] = IF b = a THEN label ELSE pc[b]
  BY DEF Goto, TypeOK, ControlOK
<1>2. CancelNotLost'
  BY GrowsKeeps DEF CancelInv, CancelNotLost
<1> QED BY <1>1, <1>2, GrowsKeeps DEF CancelInv, Actors

LEMMA CancelThrow ==
  ASSUME TypeOK, CancelInv, NEW a \in Actors, NEW reason, Throws(a, reason), UNCHANGED ledger
  PROVE  CancelInv'
<1>1. PICK label \in {"finish", "idle", "reread", "answered"} : Goto(a, label)
  BY ThrowsGoes
<1>2. \A c \in Cancellers : answer'[c] \in {answer[c], "error"}
  BY DEF Throws, CancelThrows, TypeOK, ControlOK
<1> QED BY <1>1, <1>2, CancelQuiet DEF Grows

LEMMA CancelAppend ==
  ASSUME TypeOK, CancelInv, NEW a \in Actors, NEW label, AppendThen(a, label), UNCHANGED ledger,
         label # "report"
  PROVE  CancelInv'
BY CancelThrow, CancelQuiet DEF AppendThen, Grows

(* An answer is computed from what the ledger shows. *)
LEMMA CancelAnswer ==
  ASSUME TypeOK, CancelInv, NEW c \in Cancellers, NEW what, Answer(c, what), UNCHANGED ledger,
         what = "neither" => Resurrected(ledger),
         what = "pending" => CancellationRequested(ledger),
         what = "ended" => Finished(ledger)
  PROVE  CancelInv'
<1>1. \A b \in Actors : pc'[b] = IF b = c THEN "answered" ELSE pc[b]
  BY DEF Answer, Goto, TypeOK, ControlOK
<1>2. \A b \in Cancellers : answer'[b] = IF b = c THEN what ELSE answer[b]
  BY DEF Answer, TypeOK, ControlOK
<1>3. CancelNotLost'
  BY <1>2 DEF CancelInv, CancelNotLost
<1> QED BY <1>1, <1>3 DEF CancelInv, Actors

LEMMA CancelStepKeeps ==
  ASSUME RunInv, CancelInv, NEW c \in Cancellers, Cancel(c) \/ CancelStep(c)
  PROVE  CancelInv'
<1>0. TypeOK /\ c \in Actors /\ ledger \in Seq(LedgerEntry)
  BY DEF RunInv, DriveInv, Actors, TypeOK, StateOK
<1> USE <1>0 DEF durable, memory, local, bounds, ghost
<1>0a. Terminal(ledger) => Finished(ledger)
  BY TerminalIsFinished
<1>1. CASE Cancel(c)
  <2>1. CASE RunStatus(ledger) = "queued" /\ Goto(c, "finalize") /\ UNCHANGED answer
    BY <1>1, <2>1, CancelQuiet DEF Cancel, Grows
  <2>2. CASE Terminal(ledger) /\ Answer(c, "ended")
    BY <1>1, <2>2, <1>0a, CancelAnswer DEF Cancel
  <2>3. CASE AppendThen(c, "landCancel")
    BY <1>1, <2>3, CancelAppend DEF Cancel
  <2> QED BY <1>1, <2>1, <2>2, <2>3 DEF Cancel
<1>2. CASE LandCancel(c)
  <2>1. /\ Land(Entry("cancellation-requested", "none")) /\ Goto(c, "report") /\ UNCHANGED answer
    BY <1>2 DEF LandCancel
  <2>2. Grows
    BY <2>1, LandGrows, Entries
  <2>3. streamClosed => Finished(ledger)
    BY DEF RunInv, EndedInv, ClosedMeansFinished
  <2>4. ~streamClosed => CancellationRequested(ledger')
    BY <2>1, AppendShows, Entries, QuietKinds DEF Land, CancellationRequested
  <2>5. Finished(ledger') \/ CancellationRequested(ledger')
    BY <2>2, <2>3, <2>4, GrowsKeeps
  <2> QED BY <2>1, <2>2, <2>5, CancelQuiet
<1>3. CASE CancelReport(c)
  <2>1. Answer(c, Report(ledger)) /\ pc[c] = "report" /\ UNCHANGED ledger
    BY <1>3 DEF CancelReport
  <2>2. Finished(ledger) \/ CancellationRequested(ledger)
    BY <2>1 DEF CancelInv
  <2>3. Finished(ledger) /\ ~Terminal(ledger) => Resurrected(ledger)
    BY FinishedIsTerminal
  <2>4. /\ Report(ledger) = "neither" => Resurrected(ledger)
        /\ Report(ledger) = "pending" => CancellationRequested(ledger)
        /\ Report(ledger) = "ended" => Finished(ledger)
    BY <1>0a, <2>2, <2>3 DEF Report
  <2> QED BY <2>1, <2>4, CancelAnswer
<1>4. CASE CancelReread(c)
  BY <1>4, <1>0a, CancelAnswer DEF CancelReread
<1> QED BY <1>1, <1>2, <1>3, <1>4 DEF CancelStep

LEMMA CancelDrive ==
  ASSUME RunInv, CancelInv, NEW d \in Drives, DriveAgentRun(d) \/ DriveStep(d)
  PROVE  CancelInv'
<1>0. TypeOK /\ d \in Actors /\ step[d] \in Steps /\ outcome[d] \in {"tool-completed", "tool-refused"}
  BY DEF RunInv, DriveInv, Actors, TypeOK, StateOK
<1> USE <1>0 DEF durable, memory, local, bounds, ghost
<1>1. CASE LandStarted(d) \/ LandInvoked(d) \/ LandOutcome(d)
  <2>1. Grows
    BY <1>1, LandGrows, Entries DEF LandStarted, LandInvoked, LandOutcome
  <2>2. PICK label \in {"recordDriver", "execute", "turn", "loop"} : Goto(d, label) /\ UNCHANGED answer
    BY <1>1 DEF LandStarted, LandInvoked, LandOutcome, NextCall
  <2> QED BY <2>1, <2>2, CancelQuiet
<1>2. CASE DriveAgentRun(d) \/ Prepare(d) \/ Resume(d) \/ ClaimDrive(d) \/ Loop(d) \/ HandleCall(d) \/ BeginExecution(d)
  <2>1. PICK label \in {"prepare", "resume", "finish", "claim", "idle", "markRunning", "recordDriver",
                        "conclude", "turn", "runStep", "executing"} :
          Goto(d, label) /\ UNCHANGED <<answer, ledger>>
    BY <1>2 DEF DriveAgentRun, Prepare, Resume, ClaimDrive, Loop, HandleCall, BeginExecution
  <2> QED BY <2>1, CancelQuiet DEF Grows
<1>3. CASE MarkRunning(d) \/ RecordDriver(d)
  BY <1>3, CancelThrow, CancelAppend DEF MarkRunning, RecordDriver
<1>4. CASE TurnEnds(d)
  BY <1>4, CancelQuiet, CancelThrow DEF TurnEnds, Throws, Grows
<1>5. CASE RunStep(d)
  BY <1>5, CancelQuiet, CancelThrow, CancelAppend DEF RunStep, NextCall, Grows
<1>6. CASE ExecuteDenied(d)
  BY <1>6, CancelQuiet, CancelAppend DEF ExecuteDenied, NextCall, Grows
<1>7. CASE EndExecution(d)
  BY <1>7, CancelThrow, CancelAppend DEF EndExecution
<1>8. CASE Conclude(d) \/ Finish(d)
  BY <1>8, CancelQuiet, CancelThrow, CancelAppend DEF Conclude, Finish, Grows
<1> QED BY <1>1, <1>2, <1>3, <1>4, <1>5, <1>6, <1>7, <1>8 DEF DriveStep

LEMMA CancelFinalize ==
  ASSUME RunInv, CancelInv, NEW a \in Actors, FinalizeStep(a)
  PROVE  CancelInv'
<1>0. TypeOK
  BY DEF RunInv, DriveInv
<1> USE <1>0 DEF durable, memory, local, bounds, ghost
<1>1. CASE FinalizeCheck(a)
  BY <1>1, CancelQuiet, CancelThrow DEF FinalizeCheck, Grows
<1>2. CASE FinalizeRead(a)
  BY <1>2, CancelAppend DEF FinalizeRead
<1>3. CASE LandFinished(a)
  <2>1. Land(Entry("run-finished", ending[a])) /\ Goto(a, "history") /\ UNCHANGED answer
        /\ Entry("run-finished", ending[a]) \in LedgerEntry
    BY <1>3, Entries DEF LandFinished, TypeOK, ControlOK
  <2> QED BY <2>1, LandGrows, CancelQuiet
<1>4. CASE RecordHistory(a) \/ ReleaseAndClose(a)
  BY <1>4, CancelQuiet DEF RecordHistory, ReleaseAndClose, Grows
<1>5. CASE CloseStream(a)
  <2>1. pc[a] \in Ending /\ UNCHANGED ledger
    BY <1>5 DEF CloseStream, Ending
  <2>2. Finished(ledger')
    BY <2>1 DEF RunInv, EndedInv
  <2> QED BY <1>5, <2>2, CancelQuiet, CancelThrow DEF CloseStream, Grows
<1> QED BY <1>1, <1>2, <1>3, <1>4, <1>5 DEF FinalizeStep

LEMMA CancelNext == RunInv /\ CancelInv /\ [Next]_vars => CancelInv'
<1> SUFFICES ASSUME RunInv, CancelInv, [Next]_vars PROVE CancelInv'
  OBVIOUS
<1>0. TypeOK
  BY DEF RunInv, DriveInv
<1> USE <1>0 DEF durable, memory, local, bounds, ghost
<1>1. CASE OpenRun
  <2>1. Grows /\ UNCHANGED <<pc, answer>>
    BY <1>1, Entries DEF OpenRun, Grows
  <2> QED BY <2>1, GrowsKeeps DEF CancelInv, CancelNotLost
<1>2. CASE Crash
  <2>1. \A c \in Cancellers : pc'[c] # "report"
    BY <1>2 DEF Crash, Actors
  <2> QED BY <1>2, <2>1 DEF Crash, CancelInv, CancelNotLost
<1>3. CASE UNCHANGED vars
  BY <1>3 DEF vars, CancelInv, CancelNotLost
<1> QED BY <1>1, <1>2, <1>3, CancelDrive, CancelStepKeeps, CancelFinalize DEF Next

(* cancel(): a 200 is never a lost request, for every number of requests   *)
(* and drives and across restarts.                                         *)
THEOREM CancelIsKept == Spec => []CancelNotLost
<1>1. CancelInv => CancelNotLost
  BY DEF CancelInv
<1> QED BY <1>1, RunInvAlways, CancelInit, CancelNext, PTL DEF Spec
-----------------------------------------------------------------------------
(* The contract of a run *)

(* Inside a run that has been started: past the check of recordDriver.      *)
Within == Inside \ {"landStarted"}

(* Nobody acts on a run before it is opened, and whoever is past the check  *)
(* of recordDriver has found it started.                                    *)
StartInv ==
  /\ ledger = <<>> => \A a \in Actors : pc[a] = "idle"
  /\ \A d \in Drives : pc[d] \in Within => Has(ledger, "run-started")

(* What a client of the run cannot see: an actor moves on without starting, *)
(* ending or performing anything.                                           *)
Unseen(a) ==
  \E label : /\ Goto(a, label) /\ pc[a] # "executing" /\ label # "executing"
             /\ Quietly /\ UNCHANGED <<performed, foreignEnd>>
             /\ \A d \in Drives \ {a} : step'[d] = step[d]

LEMMA UnseenThrow ==
  ASSUME NEW a, NEW reason, Throws(a, reason), pc[a] # "executing",
         UNCHANGED <<ledger, performed, foreignEnd, step>>
  PROVE  Unseen(a)
BY ThrowsGoes DEF Unseen, Quietly

LEMMA UnseenAppend ==
  ASSUME NEW a, NEW label, AppendThen(a, label), pc[a] # "executing", label # "executing",
         UNCHANGED <<ledger, performed, foreignEnd, step>>
  PROVE  Unseen(a)
BY UnseenThrow DEF AppendThen, Unseen, Quietly

(* Of the steps of a drive three can be seen: run-started lands, a          *)
(* statement is sent, and it settles.                                       *)
LEMMA DriveUnseen ==
  ASSUME TypeOK, NEW d \in Drives, DriveStep(d)
  PROVE  /\ pc[d] # "idle" /\ Grows
         /\ LandStarted(d) \/ BeginExecution(d) \/ EndExecution(d) \/ Unseen(d)
<1>0. step[d] \in Steps /\ outcome[d] \in {"tool-completed", "tool-refused"}
  BY DEF TypeOK, StateOK
<1> USE <1>0 DEF durable, memory, local, bounds, ghost
<1>1. CASE Prepare(d)
  BY <1>1 DEF Prepare, Unseen, Quietly, Grows
<1>2. CASE Resume(d)
  BY <1>2 DEF Resume, Unseen, Quietly, Grows
<1>3. CASE ClaimDrive(d)
  BY <1>3 DEF ClaimDrive, Unseen, Quietly, Grows
<1>4. CASE MarkRunning(d)
  BY <1>4, UnseenThrow, UnseenAppend DEF MarkRunning, Grows
<1>5. CASE LandStarted(d)
  BY <1>5, LandGrows, Entries DEF LandStarted
<1>6. CASE RecordDriver(d)
  BY <1>6, UnseenThrow, UnseenAppend DEF RecordDriver, Grows
<1>7. CASE Loop(d)
  BY <1>7 DEF Loop, Unseen, Quietly, Grows
<1>8. CASE TurnEnds(d)
  <2>1. DriveThrows(d) => \E label \in {"finish", "idle"} : Goto(d, label)
    BY DEF DriveThrows
  <2> QED BY <1>8, <2>1 DEF TurnEnds, Unseen, Quietly, Grows
<1>9. CASE HandleCall(d)
  <2>1. \A e \in Drives \ {d} : step'[e] = step[e]
    BY <1>9 DEF HandleCall, TypeOK, StateOK
  <2> QED BY <1>9, <2>1 DEF HandleCall, Unseen, Quietly, Grows
<1>10. CASE RunStep(d)
  BY <1>10, UnseenThrow, UnseenAppend DEF RunStep, NextCall, Unseen, Quietly, Grows
<1>11. CASE LandInvoked(d)
  BY <1>11, LandQuietly, LandGrows, Entries, QuietKinds DEF LandInvoked, Unseen
<1>12. CASE ExecuteDenied(d)
  BY <1>12, UnseenAppend DEF ExecuteDenied, NextCall, Unseen, Quietly, Grows
<1>13. CASE BeginExecution(d)
  BY <1>13 DEF BeginExecution, Grows
<1>14. CASE EndExecution(d)
  BY <1>14 DEF EndExecution, Grows
<1>15. CASE LandOutcome(d)
  BY <1>15, LandQuietly, LandGrows, Entries, QuietKinds DEF LandOutcome, NextCall, Unseen
<1>16. CASE Conclude(d)
  BY <1>16, UnseenThrow, UnseenAppend DEF Conclude, Unseen, Quietly, Grows
<1>17. CASE Finish(d)
  BY <1>17, UnseenThrow DEF Finish, Unseen, Quietly, Grows
<1> QED BY <1>1, <1>2, <1>3, <1>4, <1>5, <1>6, <1>7, <1>8, <1>9, <1>10, <1>11,
           <1>12, <1>13, <1>14, <1>15, <1>16, <1>17 DEF DriveStep

(* A cancel request is never seen, and of an ending only its landing.       *)
LEMMA CancelUnseen ==
  ASSUME TypeOK, NEW c \in Cancellers, Cancel(c) \/ CancelStep(c)
  PROVE  (pc[c] # "idle" \/ ledger # <<>>) /\ Grows /\ Unseen(c)
<1> USE DEF durable, memory, local, bounds, ghost
<1>1. CASE Cancel(c)
  BY <1>1, UnseenAppend DEF Cancel, Answer, Unseen, Quietly, Grows
<1>2. CASE LandCancel(c)
  BY <1>2, LandQuietly, LandGrows, Entries, QuietKinds DEF LandCancel, Unseen
<1>3. CASE CancelReport(c) \/ CancelReread(c)
  BY <1>3 DEF CancelReport, CancelReread, Answer, Unseen, Quietly, Grows
<1> QED BY <1>1, <1>2, <1>3 DEF CancelStep

LEMMA FinalizeUnseen ==
  ASSUME TypeOK, NEW a \in Actors, FinalizeStep(a)
  PROVE  /\ pc[a] # "idle" /\ Grows
         /\ LandFinished(a) \/ Unseen(a)
<1> USE DEF durable, memory, local, bounds, ghost
<1>1. CASE FinalizeCheck(a)
  BY <1>1, UnseenThrow DEF FinalizeCheck, Unseen, Quietly, Grows
<1>2. CASE FinalizeRead(a)
  BY <1>2, UnseenAppend DEF FinalizeRead, Grows
<1>3. CASE LandFinished(a)
  <2>1. Entry("run-finished", ending[a]) \in LedgerEntry
    BY Entries DEF TypeOK, ControlOK
  <2> QED BY <1>3, <2>1, LandGrows DEF LandFinished
<1>4. CASE RecordHistory(a)
  BY <1>4 DEF RecordHistory, Unseen, Quietly, Grows
<1>5. CASE ReleaseAndClose(a)
  BY <1>5 DEF ReleaseAndClose, Unseen, Quietly, Grows
<1>6. CASE CloseStream(a)
  BY <1>6, UnseenThrow DEF CloseStream, Unseen, Quietly, Grows
<1> QED BY <1>1, <1>2, <1>3, <1>4, <1>5, <1>6 DEF FinalizeStep

LEMMA StartInit == Init => StartInv
BY DEF Init, StartInv, Within, Inside, Actors

(* A ledger that has lines keeps them.                                      *)
LEMMA GrowsStarts ==
  ASSUME TypeOK, Grows
  PROVE  /\ ledger # <<>> => ledger' # <<>>
         /\ Has(ledger, "run-started") => Has(ledger', "run-started")
<1>1. ledger \in Seq(LedgerEntry)
  BY DEF TypeOK, StateOK
<1>2. \A e \in LedgerEntry : Append(ledger, e) # <<>>
  <2>1. \A e \in LedgerEntry : Len(Append(ledger, e)) = Len(ledger) + 1 /\ Len(ledger) \in Nat
    BY <1>1
  <2>2. Len(<<>>) = 0
    OBVIOUS
  <2> QED BY <2>1, <2>2
<1> QED BY <1>1, <1>2, AppendKeeps DEF Grows

LEMMA StartKept ==
  ASSUME TypeOK, StartInv, NEW a \in Actors, NEW label, Goto(a, label), Grows, ledger # <<>>,
         a \in Drives /\ label \in Within => pc[a] \in Within \/ Has(ledger, "run-started")
  PROVE  StartInv'
<1>1. \A b \in Actors : pc'[b] = IF b = a THEN label ELSE pc[b]
  BY DEF Goto, TypeOK, ControlOK
<1>2. \A d \in Drives : pc'[d] \in Within => Has(ledger, "run-started")
  BY <1>1 DEF StartInv, Actors
<1> QED BY <1>2, GrowsStarts DEF StartInv

LEMMA StartThrow ==
  ASSUME TypeOK, StartInv, NEW a \in Actors, NEW reason, Throws(a, reason), UNCHANGED ledger,
         ledger # <<>>
  PROVE  StartInv'
<1>1. PICK label \in {"finish", "idle", "reread", "answered"} : Goto(a, label)
  BY ThrowsGoes
<1>2. label \notin Within
  BY DEF Within, Inside
<1> QED BY <1>1, <1>2, StartKept DEF Grows

LEMMA StartAppend ==
  ASSUME TypeOK, StartInv, NEW a \in Actors, NEW label, AppendThen(a, label), UNCHANGED ledger,
         ledger # <<>>,
         a \in Drives /\ label \in Within => pc[a] \in Within \/ Has(ledger, "run-started")
  PROVE  StartInv'
BY StartThrow, StartKept DEF AppendThen, Grows

LEMMA StartDrive ==
  ASSUME TypeOK, StartInv, NEW d \in Drives, DriveStep(d)
  PROVE  StartInv'
<1>0. d \in Actors /\ ledger # <<>> /\ Grows /\ ledger \in Seq(LedgerEntry)
  BY DriveUnseen DEF Actors, StartInv, TypeOK, StateOK
<1>1. ASSUME NEW label, Goto(d, label), label \in Within => pc[d] \in Within PROVE StartInv'
  BY <1>0, <1>1, StartKept
<1> USE DEF Within, Inside
<1>2. CASE Prepare(d) \/ Resume(d) \/ ClaimDrive(d) \/ LandStarted(d)
  BY <1>1, <1>2 DEF Prepare, Resume, ClaimDrive, LandStarted
<1>3. CASE MarkRunning(d)
  BY <1>0, <1>3, StartThrow, StartAppend DEF MarkRunning, durable
<1>4. CASE RecordDriver(d)
  <2>1. RunStatus(ledger) = "running" => Has(ledger, "run-started")
    BY <1>0, RunningIsStarted
  <2> QED BY <1>0, <1>4, <2>1, StartThrow, StartAppend DEF RecordDriver, durable
<1>5. CASE Loop(d) \/ HandleCall(d) \/ LandInvoked(d) \/ BeginExecution(d) \/ LandOutcome(d)
  BY <1>1, <1>5 DEF Loop, HandleCall, LandInvoked, BeginExecution, LandOutcome, NextCall
<1>6. CASE TurnEnds(d)
  <2>1. DriveThrows(d) => \E label \in {"finish", "idle"} : Goto(d, label)
    BY DEF DriveThrows
  <2> QED BY <1>1, <1>6, <2>1 DEF TurnEnds
<1>7. CASE RunStep(d)
  BY <1>0, <1>1, <1>7, StartThrow, StartAppend DEF RunStep, NextCall, durable
<1>8. CASE ExecuteDenied(d)
  BY <1>0, <1>1, <1>8, StartAppend DEF ExecuteDenied, NextCall, durable
<1>9. CASE EndExecution(d)
  BY <1>0, <1>9, StartThrow, StartAppend DEF EndExecution, durable
<1>10. CASE Conclude(d) \/ Finish(d)
  BY <1>0, <1>1, <1>10, StartThrow, StartAppend DEF Conclude, Finish, durable
<1> QED BY <1>2, <1>3, <1>4, <1>5, <1>6, <1>7, <1>8, <1>9, <1>10 DEF DriveStep

LEMMA StartStep == TypeOK /\ StartInv /\ [Next]_vars => StartInv'
<1> SUFFICES ASSUME TypeOK, StartInv, [Next]_vars PROVE StartInv'
  OBVIOUS
<1> USE DEF Within, Inside
<1>1. CASE OpenRun
  <2>1. ledger' = <<Entry("run-opened", "none")>> /\ ledger = <<>> /\ pc' = pc
    BY <1>1 DEF OpenRun
  <2>2. \A a \in Actors : pc[a] = "idle"
    BY <2>1 DEF StartInv
  <2>3. ledger' # <<>>
    <3>1. Len(ledger') = 1 /\ Len(<<>>) = 0
      BY <2>1
    <3> QED BY <3>1
  <2> QED BY <2>1, <2>2, <2>3 DEF StartInv, Actors
<1>2. CASE Crash
  <2>1. UNCHANGED ledger /\ \A a \in Actors : pc'[a] = "idle" \/ (pc'[a] = "answered" /\ pc[a] # "idle")
    BY <1>2 DEF Crash, durable
  <2>2. \A d \in Drives : pc'[d] \notin Within
    BY <2>1 DEF Actors
  <2>3. ledger = <<>> => \A a \in Actors : pc'[a] = "idle"
    BY <2>1 DEF StartInv
  <2> QED BY <2>1, <2>2, <2>3 DEF StartInv
<1>3. ASSUME NEW d \in Drives, DriveAgentRun(d) PROVE StartInv'
  BY <1>3, StartKept DEF DriveAgentRun, Actors, Grows, durable
<1>4. ASSUME NEW d \in Drives, DriveStep(d) PROVE StartInv'
  BY <1>4, StartDrive
<1>5. ASSUME NEW c \in Cancellers, Cancel(c) \/ CancelStep(c) PROVE StartInv'
  <2>1. c \in Actors /\ c \notin Drives /\ Grows /\ Unseen(c) /\ ledger # <<>>
    BY <1>5, CancelUnseen, BoundsAssumption DEF Actors, StartInv
  <2> QED BY <2>1, StartKept DEF Unseen
<1>6. ASSUME NEW a \in Actors, FinalizeStep(a) PROVE StartInv'
  <2>0. ledger # <<>> /\ Grows
    BY <1>6, FinalizeUnseen DEF StartInv
  <2>1. ASSUME NEW label, Goto(a, label), label \notin Within PROVE StartInv'
    BY <2>0, <2>1, StartKept
  <2>2. CASE FinalizeCheck(a) \/ FinalizeRead(a)
    BY <2>0, <2>1, <2>2, StartThrow, StartAppend DEF FinalizeCheck, FinalizeRead, durable
  <2>3. CASE LandFinished(a) \/ RecordHistory(a) \/ ReleaseAndClose(a)
    BY <2>1, <2>3 DEF LandFinished, RecordHistory, ReleaseAndClose
  <2>4. CASE CloseStream(a)
    BY <2>0, <2>1, <2>4, StartThrow DEF CloseStream
  <2> QED BY <1>6, <2>2, <2>3, <2>4 DEF FinalizeStep
<1>7. CASE UNCHANGED vars
  BY <1>7 DEF vars, durable, StartInv
<1> QED BY <1>1, <1>2, <1>3, <1>4, <1>5, <1>6, <1>7 DEF Next

(* What cannot be seen is a stutter of the contract.                        *)
LEMMA UnseenStutters ==
  ASSUME TypeOK, NEW a \in Actors, Unseen(a), ledger # <<>>
  PROVE  UNCHANGED Contract!vars
<1>1. PICK label : /\ Goto(a, label) /\ pc[a] # "executing" /\ label # "executing"
                   /\ Quietly /\ UNCHANGED <<performed, foreignEnd>>
                   /\ \A d \in Drives \ {a} : step'[d] = step[d]
  BY DEF Unseen
<1>2. ledger \in Seq(LedgerEntry)
  BY DEF TypeOK, StateOK
<1>3. RunStatus(ledger') = RunStatus(ledger)
  BY <1>1, <1>2, AppendKeepsStatus DEF Quietly
<1>4. ledger' # <<>>
  BY <1>1, QuietlyKeeps, GrowsStarts
<1>5. Phase' = Phase
  BY <1>3, <1>4 DEF Phase, Terminal
<1>6. \A d \in Drives : pc'[d] = IF d = a THEN label ELSE pc[d]
  BY <1>1 DEF Goto, TypeOK, ControlOK, Actors
<1>7. AtTheDatabase' = AtTheDatabase
  <2>1. \A d \in Drives : pc'[d] = "executing" <=> pc[d] = "executing"
    BY <1>1, <1>6
  <2>2. \A d \in Drives : pc[d] = "executing" => step'[d] = step[d]
    BY <1>1
  <2> QED BY <2>1, <2>2 DEF AtTheDatabase
<1> QED BY <1>1, <1>5, <1>7 DEF Contract!vars

ContractInv == RunInv /\ OrderInv /\ StartInv

(* A drive at the database is alone there.                                  *)
LEMMA AloneAtTheDatabase ==
  ASSUME RunInv, NEW d \in Drives, pc[d] \in {"execute", "executing"}
  PROVE  AtTheDatabase = IF pc[d] = "executing" THEN {step[d]} ELSE {}
<1>1. \A e \in Drives : pc[e] = "executing" => e = d
  BY DEF RunInv, DriveInv, CarriersHold, OneDriver, Carrying
<1> QED BY <1>1 DEF AtTheDatabase

LEMMA StartMaps ==
  ASSUME ContractInv, NEW d \in Drives, LandStarted(d), ~foreignEnd'
  PROVE  Contract!Start \/ UNCHANGED Contract!vars
<1> USE DEF durable, memory, local, bounds, ghost
<1>0. TypeOK /\ d \in Actors /\ ledger \in Seq(LedgerEntry) /\ ledger # <<>>
  BY DEF ContractInv, RunInv, DriveInv, TypeOK, StateOK, StartInv, LandStarted, Actors
<1>1. /\ Land(Entry("run-started", "none")) /\ Goto(d, "recordDriver") /\ pc[d] = "landStarted"
      /\ UNCHANGED <<performed, foreignEnd, step>>
  BY DEF LandStarted
<1>2. ~Finished(ledger) /\ ~streamClosed
  BY <1>1 DEF ContractInv, OrderInv, EndedInOrder, Inside, RunInv, EndedInv, ClosedMeansFinished
<1>3. ledger' = Append(ledger, Entry("run-started", "none"))
  BY <1>1, <1>2 DEF Land
<1>4. RunStatus(ledger') = "running"
  BY <1>0, <1>3, AppendDecidesStatus, Entries, QuietKinds
<1>5. ledger' # <<>>
  BY <1>0, <1>3, GrowsStarts, Entries DEF Grows
<1>6. Phase' = "running"
  BY <1>4, <1>5, RunningIsNotTerminal DEF Phase
<1>7. ~Terminal(ledger)
  BY <1>0, <1>2, TerminalIsFinished
<1>8. Phase \in {"queued", "running"}
  BY <1>0, <1>7, StatusType DEF Phase, Terminal
<1>9. AtTheDatabase' = AtTheDatabase
  <2>1. \A e \in Drives : pc'[e] = IF e = d THEN "recordDriver" ELSE pc[e]
    BY <1>0, <1>1 DEF Goto, TypeOK, ControlOK, Actors
  <2> QED BY <1>1, <2>1 DEF AtTheDatabase
<1> QED BY <1>1, <1>6, <1>8, <1>9 DEF Contract!Start, Contract!vars

LEMMA BeginMaps ==
  ASSUME ContractInv, NEW d \in Drives, BeginExecution(d), ~foreignEnd'
  PROVE  Contract!Begin(step[d])
<1> USE DEF durable, memory, local, bounds, ghost
<1>0. /\ TypeOK /\ d \in Actors /\ ledger \in Seq(LedgerEntry) /\ ledger # <<>>
      /\ step[d] \in Steps /\ performed \in [Steps -> Nat]
  BY DEF ContractInv, RunInv, DriveInv, TypeOK, StateOK, StartInv, BeginExecution, Actors
<1>1. /\ pc[d] = "execute" /\ Goto(d, "executing") /\ ~foreignEnd
      /\ performed' = [performed EXCEPT ![step[d]] = @ + 1]
      /\ UNCHANGED <<ledger, step>>
  BY DEF BeginExecution
<1>2. ~Finished(ledger) /\ ~Resurrected(ledger) /\ Has(ledger, "run-started")
  BY <1>1 DEF ContractInv, OrderInv, EndedInOrder, StartInv, Within, Inside
<1>3. Phase = "running"
  BY <1>0, <1>2, StartedIsRunning, RunningIsNotTerminal DEF Phase
<1>4. AtTheDatabase = {}
  BY <1>1, AloneAtTheDatabase DEF ContractInv
<1>5. performed[step[d]] = 0
  BY <1>1, <1>2 DEF ContractInv, RunInv, OnceInv
<1>6. performed' = [performed EXCEPT ![step[d]] = 1]
  BY <1>0, <1>1, <1>5
<1>7. AtTheDatabase' = {step[d]}
  <2>1. \A e \in Drives : pc'[e] = IF e = d THEN "executing" ELSE pc[e]
    BY <1>0, <1>1 DEF Goto, TypeOK, ControlOK, Actors
  <2>2. \A e \in Drives : pc[e] # "executing"
    BY <1>4 DEF AtTheDatabase
  <2>3. \A e \in Drives : pc'[e] = "executing" <=> e = d
    BY <2>1, <2>2
  <2> QED BY <1>1, <2>3 DEF AtTheDatabase
<1>8. Phase' = Phase
  BY <1>1 DEF Phase
<1> QED BY <1>3, <1>4, <1>5, <1>6, <1>7, <1>8 DEF Contract!Begin

LEMMA EndExecutionMaps ==
  ASSUME ContractInv, NEW d \in Drives, EndExecution(d)
  PROVE  Contract!Return
<1> USE DEF durable, memory, local, bounds, ghost
<1>0. TypeOK /\ d \in Actors
  BY DEF ContractInv, RunInv, DriveInv, Actors
<1>1. /\ pc[d] = "executing" /\ UNCHANGED <<ledger, performed, step>>
      /\ \E label \in {"finish", "idle", "reread", "answered", "landOutcome"} : Goto(d, label)
  BY ThrowsGoes DEF EndExecution, AppendThen
<1>2. \A e \in Drives : pc[e] = "executing" => e = d
  BY <1>1 DEF ContractInv, RunInv, DriveInv, CarriersHold, OneDriver, Carrying
<1>3. \A e \in Drives : pc'[e] # "executing"
  BY <1>0, <1>1, <1>2 DEF Goto, TypeOK, ControlOK, Actors
<1>4. AtTheDatabase' = {}
  BY <1>3 DEF AtTheDatabase
<1>5. Phase' = Phase
  BY <1>1 DEF Phase
<1> QED BY <1>1, <1>4, <1>5 DEF Contract!Return

LEMMA EndMaps ==
  ASSUME ContractInv, NEW a \in Actors, LandFinished(a), ~foreignEnd'
  PROVE  Contract!End \/ UNCHANGED Contract!vars
<1> USE DEF durable, memory, local, bounds, ghost
<1>0. /\ TypeOK /\ ledger \in Seq(LedgerEntry) /\ ledger # <<>>
      /\ ending[a] \in Terminals
  BY DEF ContractInv, RunInv, DriveInv, TypeOK, StateOK, ControlOK, StartInv, LandFinished
<1>1. /\ Land(Entry("run-finished", ending[a])) /\ Goto(a, "history") /\ pc[a] = "landFinished"
      /\ UNCHANGED <<performed, step>> /\ ~foreignEnd
      /\ \A d \in Drives \ {a} : ~holds[d]
  BY DEF LandFinished
<1>1a. UNCHANGED foreignEnd
  <2>1. foreignEnd \in BOOLEAN
    BY <1>0 DEF TypeOK, StateOK
  <2>2. (\E d \in Drives \ {a} : holds[d]) = FALSE
    BY <1>1
  <2>3. foreignEnd' = (foreignEnd \/ \E d \in Drives \ {a} : holds[d])
    BY DEF LandFinished
  <2> QED BY <1>1, <2>1, <2>2, <2>3
<1>2. \A d \in Drives : pc[d] # "executing"
  BY <1>1 DEF ContractInv, RunInv, DriveInv, CarriersHold, Carrying
<1>3. \A d \in Drives : pc'[d] # "executing"
  BY <1>0, <1>1, <1>2 DEF Goto, TypeOK, ControlOK, Actors
<1>4. AtTheDatabase = {} /\ AtTheDatabase' = {}
  BY <1>2, <1>3 DEF AtTheDatabase
<1>5. CASE streamClosed
  <2>1. Phase' = Phase
    BY <1>1, <1>5 DEF Land, Phase
  <2> QED BY <1>1, <1>1a, <1>4, <2>1 DEF Contract!vars
<1>6. CASE ~streamClosed
  <2>1. ledger' = Append(ledger, Entry("run-finished", ending[a]))
    BY <1>1, <1>6 DEF Land
  <2>2. Entry("run-finished", ending[a]) \in LedgerEntry
        /\ Entry("run-finished", ending[a]).kind = "run-finished"
        /\ Entry("run-finished", ending[a]).of = ending[a]
    BY <1>0, Entries DEF Entry
  <2>3. RunStatus(ledger') = ending[a]
    BY <1>0, <2>1, <2>2, AppendDecidesStatus
  <2>4. ledger' # <<>>
    BY <1>0, <2>1, <2>2, GrowsStarts DEF Grows
  <2>5. Phase' = "ended"
    BY <1>0, <2>3, <2>4 DEF Phase, Terminal
  <2>6. Phase \in {"queued", "running", "ended"}
    BY <1>0, StatusType DEF Phase, Terminal
  <2> QED BY <1>1, <1>1a, <1>4, <2>5, <2>6 DEF Contract!End, Contract!vars
<1> QED BY <1>5, <1>6

LEMMA ContractStep ==
  ASSUME ContractInv, [Next]_vars
  PROVE  Contract!Next \/ UNCHANGED Contract!vars
<1>0. TypeOK
  BY DEF ContractInv, RunInv, DriveInv
<1>1. CASE foreignEnd'
  BY <1>1 DEF Contract!Next
<1>2. CASE ~foreignEnd' /\ foreignEnd
  <2>1. foreignEnd' = foreignEnd \/ \E a \in Actors : LandFinished(a)
    BY <1>0, DriveUnseen, CancelUnseen, FinalizeUnseen
       DEF Next, vars, ghost, OpenRun, Crash, DriveAgentRun, LandStarted, BeginExecution,
           EndExecution, Unseen
  <2> QED BY <1>2, <2>1 DEF LandFinished
<1>3. CASE ~foreignEnd' /\ ~foreignEnd
  <2>0. Contract!Start \/ (\E s \in Steps : Contract!Begin(s)) \/ Contract!Return \/ Contract!End
          \/ Contract!Open => Contract!Next
    BY <1>3 DEF Contract!Next, Contract!Keep
  <2>1. CASE OpenRun
    <3>1. /\ ledger = <<>> /\ ledger' = <<Entry("run-opened", "none")>>
          /\ UNCHANGED <<pc, step, performed>>
      BY <2>1 DEF OpenRun, local, ghost
    <3>2. ledger' = Append(<<>>, Entry("run-opened", "none")) /\ <<>> \in Seq(LedgerEntry)
      BY <3>1
    <3>3. RunStatus(<<>>) = "queued"
      BY DEF RunStatus, Lifecycle
    <3>4. RunStatus(ledger') = "queued"
      BY <3>2, <3>3, AppendKeepsStatus, Entries, QuietKinds
    <3>5. ledger' # <<>>
      <4>1. Len(ledger') = 1 /\ Len(<<>>) = 0
        BY <3>1
      <4> QED BY <4>1
    <3>6. Phase = "none" /\ Phase' = "queued"
      BY <3>1, <3>4, <3>5, RunningIsNotTerminal DEF Phase
    <3>7. AtTheDatabase' = AtTheDatabase
      BY <3>1 DEF AtTheDatabase
    <3> QED BY <2>0, <3>1, <3>6, <3>7 DEF Contract!Open
  <2>2. CASE Crash
    <3>1. UNCHANGED <<ledger, performed>> /\ \A d \in Drives : pc'[d] # "executing"
      BY <2>2 DEF Crash, durable, ghost, Actors
    <3>2. AtTheDatabase' = {} /\ Phase' = Phase
      BY <3>1 DEF AtTheDatabase, Phase
    <3> QED BY <2>0, <3>1, <3>2 DEF Contract!Return
  <2>3. ASSUME NEW d \in Drives, DriveAgentRun(d) PROVE UNCHANGED Contract!vars
    <3>1. Unseen(d) /\ ledger # <<>> /\ d \in Actors
      BY <2>3 DEF DriveAgentRun, Unseen, Quietly, durable, local, ghost, Actors
    <3> QED BY <1>0, <3>1, UnseenStutters
  <2>4. ASSUME NEW d \in Drives, DriveStep(d) PROVE Contract!Next \/ UNCHANGED Contract!vars
    <3>1. d \in Actors /\ ledger # <<>> /\ step[d] \in Steps
      BY <1>0, <2>4, DriveUnseen DEF Actors, ContractInv, StartInv, TypeOK, StateOK
    <3> QED BY <1>0, <1>3, <2>0, <2>4, <3>1, DriveUnseen, UnseenStutters, StartMaps, BeginMaps,
               EndExecutionMaps
  <2>5. ASSUME NEW c \in Cancellers, Cancel(c) \/ CancelStep(c) PROVE UNCHANGED Contract!vars
    <3>1. c \in Actors /\ ledger # <<>> /\ Unseen(c)
      BY <1>0, <2>5, CancelUnseen DEF Actors, ContractInv, StartInv
    <3> QED BY <1>0, <3>1, UnseenStutters
  <2>6. ASSUME NEW a \in Actors, FinalizeStep(a) PROVE Contract!Next \/ UNCHANGED Contract!vars
    <3>1. ledger # <<>> /\ (LandFinished(a) \/ Unseen(a))
      BY <1>0, <2>6, FinalizeUnseen DEF ContractInv, StartInv
    <3> QED BY <1>0, <1>3, <2>0, <3>1, UnseenStutters, EndMaps
  <2>7. CASE UNCHANGED vars
    BY <2>7 DEF vars, durable, local, ghost, Contract!vars, Phase, AtTheDatabase
  <2> QED BY <2>1, <2>2, <2>3, <2>4, <2>5, <2>6, <2>7 DEF Next
<1> QED BY <1>1, <1>2, <1>3

(* runtime.ts, run-service.ts, run-store.ts and the trackers together keep  *)
(* the contract of a run, for every number of drives, cancel requests,      *)
(* steps and restarts.                                                      *)
THEOREM RunKeepsContract == Spec => KeepsContract
<1>1. Init => Contract!Init
  <2> SUFFICES ASSUME Init PROVE Contract!Init
    OBVIOUS
  <2>1. AtTheDatabase = {}
    BY DEF Init, AtTheDatabase, Actors
  <2> QED BY <2>1 DEF Init, Contract!Init, Phase
<1>2. ContractInv /\ [Next]_vars => [Contract!Next]_(Contract!vars)
  BY ContractStep
<1>3. RunInv => TypeOK
  BY DEF RunInv, DriveInv
<1>4. Spec => []ContractInv
  <2>1. Spec => []StartInv
    BY <1>3, RunInvAlways, StartInit, StartStep, PTL DEF Spec
  <2> QED BY <2>1, RunInvAlways, OrderAlways, PTL DEF ContractInv
<1> QED BY <1>1, <1>2, <1>4, PTL DEF Spec, KeepsContract, Contract!Spec

=============================================================================
