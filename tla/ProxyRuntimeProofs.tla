------------------------- MODULE ProxyRuntimeProofs -------------------------
(***************************************************************************)
(* Theorems about ProxyRuntime for every set of inbounds, every number of  *)
(* concurrent callers and every number of failures and edits.              *)
(***************************************************************************)
EXTENDS ProxyRuntime, TLAPS

-----------------------------------------------------------------------------
(* Types.                                                                  *)

\* A generated configuration is typed like the table it is generated from.
LEMMA GenerateType ==
    ASSUME NEW e, NEW table \in Rows, NEW d
    PROVE  Generate(e, table, d) \in Rows
BY DEF Generate, Rows

\* Leaving the gate, from any phase, keeps the type of what Return resets.
LEMMA ReturnType ==
    ASSUME TypeOK, NEW c \in Callers, Return(c)
    PROVE  /\ pc' \in [Callers -> Phases]
           /\ gate' \in Callers \cup {NoCaller}
           /\ mode' \in [Callers -> Modes]
           /\ force' \in [Callers -> BOOLEAN]
           /\ gone' \in [Callers -> BOOLEAN]
           /\ at' \in Engines
           /\ enabled' \in Rows
           /\ prev' \in [Engines -> Snapshots]
           /\ cand' \in [Engines -> Rows \cup {NoConfig}]
           /\ same' \in [Engines -> BOOLEAN]
           /\ broken' \in BOOLEAN
           /\ prevMode' \in Modes \cup {NoMode}
           /\ before' \in [Engines -> Snapshots]
           /\ crashed' \in SUBSET Engines
           /\ edited' \in BOOLEAN
<1>1. NoSnapshot \in Snapshots
  BY DEF NoSnapshot, Snapshots
<1>2. [i \in Inbounds |-> "off"] \in Rows
  BY DEF Rows
<1>3. [pc EXCEPT ![c] = "idle"] \in [Callers -> Phases]
  BY DEF TypeOK, Phases, Outside
<1> QED
  BY <1>1, <1>2, <1>3 DEF Return, Goto, TypeOK, Modes, Engines

\* The same for the two ways a loop over the targets goes on.
LEMMA NextTargetType ==
    ASSUME TypeOK, NEW c \in Callers, NEW p \in Phases, NEW q \in Phases,
           NextTarget(c, p, q)
    PROVE  pc' \in [Callers -> Phases] /\ at' \in Engines
BY DEF NextTarget, Goto, TypeOK, Engines

\* The fault counter stays within its bound.
LEMMA FaultType ==
    ASSUME TypeOK, Fault \/ NoFault
    PROVE  faults' \in 0 .. MaxFaults
BY BoundAssumption DEF TypeOK, Fault, NoFault

\* A snapshot of an engine is a record of Snapshots.
LEMMA SnapshotType ==
    ASSUME TypeOK, NEW e \in Engines
    PROVE  EngineSnapshot(e) \in Snapshots
BY DEF TypeOK, EngineSnapshot, Snapshots, Running

\* The state at boot is typed.
THEOREM InitType == Init => TypeOK
<1> SUFFICES ASSUME Init PROVE TypeOK
  OBVIOUS
<1>1. NoSnapshot \in Snapshots
  BY DEF NoSnapshot, Snapshots
<1>2. [i \in Inbounds |-> "off"] \in Rows
  BY DEF Rows
<1>3. prev \in [Engines -> Snapshots] /\ before \in [Engines -> Snapshots]
  BY <1>1 DEF Init
<1>4. faults \in 0 .. MaxFaults /\ edits \in 0 .. MaxEdits
  BY BoundAssumption DEF Init
<1>5. status \in [state : States, mode : Modes \cup {NoMode}]
  BY DEF Init, States
<1> QED
  BY <1>2, <1>3, <1>4, <1>5 DEF Init, TypeOK, Modes, Engines, Phases, Outside

\* The steps of the caller holding the gate, in the order of its phases.
LEMMA StepType ==
    ASSUME TypeOK, NEW c \in Callers, Step(c)
    PROVE  TypeOK'
<1> USE DEF engineVars, requestVars, txVars, boundVars, historyVars
<1>a. /\ "xray" \in Engines /\ "singbox" \in Engines
      /\ \A p \in {"loading", "snapshot", "preparing", "switching", "stopping",
                   "writing", "spawning", "verifying", "rb_stopping",
                   "rb_restoring", "rb_done", "persisting"} : p \in Phases
  BY DEF Engines, Phases, Preflight, Forward, Backward
<1>b. \A p \in Phases : Goto(c, p) => pc' \in [Callers -> Phases]
  BY DEF Goto, TypeOK
<1>c. \A e \in Engines : EngineSnapshot(e) \in Snapshots
  BY SnapshotType
<1>d. mode[c] \in Modes /\ WantsDual(c) \in BOOLEAN
  BY DEF TypeOK, WantsDual
<1>e. \A e \in Engines : prev[e].dual \in BOOLEAN /\ prev[e].file \in Rows \cup {NoConfig}
  BY DEF TypeOK, Snapshots
<1>f. ReturnFailed(c) => status' \in [state : States, mode : Modes \cup {NoMode}]
  BY <1>d DEF ReturnFailed, States
<1>1. ASSUME Load(c) PROVE TypeOK'
  BY <1>1, <1>a, <1>b DEF Load, TypeOK
<1>2. ASSUME LoadFails(c) PROVE TypeOK'
  BY <1>2, <1>f, ReturnType, FaultType DEF LoadFails, ReturnFailed, TypeOK
<1>3. ASSUME Snapshot(c) PROVE TypeOK'
  BY <1>3, <1>a, <1>b, <1>c, <1>d, NextTargetType DEF Snapshot, TypeOK, Unchanged
<1>4. ASSUME SnapshotFails(c) PROVE TypeOK'
  BY <1>4, <1>f, ReturnType, FaultType DEF SnapshotFails, ReturnFailed, TypeOK
<1>5. ASSUME Prepare(c) PROVE TypeOK'
  BY <1>5, <1>a, <1>e, GenerateType, NextTargetType DEF Prepare, TypeOK, Unchanged
<1>6. ASSUME PrepareFails(c) PROVE TypeOK'
  BY <1>6, <1>e, <1>f, ReturnType, FaultType DEF PrepareFails, ReturnFailed, TypeOK
<1>7. ASSUME Switch(c) PROVE TypeOK'
  BY <1>7, <1>a, <1>b DEF Switch, TypeOK
<1>8. ASSUME SwitchCancelled(c) PROVE TypeOK'
  BY <1>8, <1>f, ReturnType DEF SwitchCancelled, ReturnFailed, TypeOK
<1>9. ASSUME Stop(c) PROVE TypeOK'
  BY <1>9, <1>a, NextTargetType DEF Stop, Halted, TypeOK
<1>10. ASSUME StopFails(c) PROVE TypeOK'
  BY <1>10, <1>a, <1>b, FaultType DEF StopFails, Rollback, TypeOK
<1>11. ASSUME SkipStart(c) PROVE TypeOK'
  BY <1>11, <1>a, NextTargetType DEF SkipStart, TypeOK
<1>12. ASSUME WriteConfig(c) PROVE TypeOK'
  BY <1>12, <1>a, <1>b, <1>d DEF WriteConfig, TypeOK
<1>13. ASSUME WriteConfigFails(c) PROVE TypeOK'
  BY <1>13, <1>a, <1>b, FaultType DEF WriteConfigFails, Rollback, TypeOK
<1>14. ASSUME Spawn(c) PROVE TypeOK'
  BY <1>14, <1>a, NextTargetType DEF Spawn, TypeOK
<1>15. ASSUME SpawnFails(c) PROVE TypeOK'
  BY <1>15, <1>a, <1>b, FaultType DEF SpawnFails, Rollback, TypeOK
<1>16. ASSUME Verify(c) PROVE TypeOK'
  BY <1>16, <1>a, <1>b, <1>d DEF Verify, TypeOK, States
<1>17. ASSUME VerifyFails(c) PROVE TypeOK'
  BY <1>17, <1>a, <1>b, FaultType DEF VerifyFails, Rollback, TypeOK
<1>18. ASSUME Persist(c) PROVE TypeOK'
  BY <1>18, <1>d, ReturnType DEF Persist, TypeOK
<1>19. ASSUME PersistFails(c) PROVE TypeOK'
  BY <1>19, ReturnType, FaultType DEF PersistFails, TypeOK
<1>20. ASSUME RollbackStop(c) PROVE TypeOK'
  BY <1>20, <1>a, NextTargetType DEF RollbackStop, Halted, TypeOK
<1>21. ASSUME RollbackStopFails(c) PROVE TypeOK'
  BY <1>21, <1>a, NextTargetType, FaultType DEF RollbackStopFails, TypeOK
<1>22. ASSUME SkipRestore(c) PROVE TypeOK'
  BY <1>22, <1>a, NextTargetType DEF SkipRestore, TypeOK
<1>23. ASSUME Restore(c) PROVE TypeOK'
  BY <1>23, <1>a, <1>e, NextTargetType DEF Restore, Relaunched, TypeOK
<1>24. ASSUME RestoreFails(c) PROVE TypeOK'
  BY <1>24, <1>a, <1>e, NextTargetType, FaultType DEF RestoreFails, TypeOK
<1>25. ASSUME ReportRollback(c) PROVE TypeOK'
  BY <1>25, <1>d, ReturnType DEF ReportRollback, TypeOK, States
<1> QED
  BY <1>1, <1>2, <1>3, <1>4, <1>5, <1>6, <1>7, <1>8, <1>9, <1>10, <1>11, <1>12,
     <1>13, <1>14, <1>15, <1>16, <1>17, <1>18, <1>19, <1>20, <1>21, <1>22, <1>23,
     <1>24, <1>25 DEF Step

\* Requests, the environment and stuttering.
LEMMA OtherType ==
    ASSUME TypeOK,
           \/ \E c \in Callers : Call(c) \/ Cancel(c) \/ GiveUp(c) \/ Acquire(c)
           \/ Environment
           \/ UNCHANGED vars
    PROVE  TypeOK'
<1> USE DEF engineVars, requestVars, txVars, boundVars, historyVars
<1>1. ASSUME NEW c \in Callers, Call(c) PROVE TypeOK'
  <2>1. pc' \in [Callers -> Phases] /\ mode' \in [Callers -> Modes]
        /\ force' \in [Callers -> BOOLEAN]
    BY <1>1, RequestAssumption DEF Call, Goto, TypeOK, Phases, Outside
  <2> QED
    BY <1>1, <2>1 DEF Call, TypeOK
<1>2. ASSUME NEW c \in Callers, Cancel(c) PROVE TypeOK'
  BY <1>2 DEF Cancel, TypeOK
<1>3. ASSUME NEW c \in Callers, GiveUp(c) PROVE TypeOK'
  BY <1>3 DEF GiveUp, Goto, TypeOK, Phases, Outside, Modes
<1>4. ASSUME NEW c \in Callers, Acquire(c) PROVE TypeOK'
  <2>1. before' \in [Engines -> Snapshots]
    BY <1>4, SnapshotType DEF Acquire
  <2>2. status' \in [state : States, mode : Modes \cup {NoMode}]
    BY <1>4 DEF Acquire, TypeOK, States
  <2>3. pc' \in [Callers -> Phases]
    BY <1>4 DEF Acquire, Goto, TypeOK, Phases, Preflight
  <2> QED
    BY <1>4, <2>1, <2>2, <2>3 DEF Acquire, TypeOK
<1>5. ASSUME NEW e \in Engines, Crash(e) PROVE TypeOK'
  BY <1>5, FaultType DEF Crash, TypeOK
<1>6. ASSUME NEW i \in Inbounds, EditInbound(i) PROVE TypeOK'
  <2>1. rows' \in Rows
    BY <1>6 DEF EditInbound, TypeOK, Rows
  <2>2. edits' \in 0 .. MaxEdits
    BY <1>6, BoundAssumption DEF EditInbound, TypeOK
  <2> QED
    BY <1>6, <2>1, <2>2 DEF EditInbound, TypeOK
<1>7. ASSUME Restart PROVE TypeOK'
  <2>1. /\ [i \in Inbounds |-> "off"] \in Rows
        /\ NoSnapshot \in Snapshots
    BY DEF Rows, NoSnapshot, Snapshots
  <2>2. PICK written \in SUBSET Engines :
           /\ file' = [e \in Engines |->
                         IF e \in written THEN Generate(e, rows, TRUE) ELSE file[e]]
           /\ \E up \in SUBSET written :
                 proc' = [e \in Engines |-> IF e \in up THEN file'[e] ELSE NoConfig]
    BY <1>7 DEF Restart
  <2>3. /\ file' \in [Engines -> Rows \cup {NoConfig}]
        /\ proc' \in [Engines -> Rows \cup {NoConfig}]
    <3>1. rows \in Rows /\ \A e \in Engines : file[e] \in Rows \cup {NoConfig}
      BY DEF TypeOK
    <3>2. \A e \in Engines : Generate(e, rows, TRUE) \in Rows
      BY <3>1, GenerateType
    <3>3. file' \in [Engines -> Rows \cup {NoConfig}]
      BY <2>2, <3>1, <3>2
    <3> QED
      BY <2>2, <3>3
  <2>4. status' \in [state : States, mode : Modes \cup {NoMode}]
    BY <1>7 DEF Restart, States
  <2>5. dual' \in [Engines -> BOOLEAN]
    BY <1>7 DEF Restart
  <2>6. /\ pc' \in [Callers -> Phases]
        /\ gate' \in Callers \cup {NoCaller}
        /\ mode' \in [Callers -> Modes]
    BY <1>7 DEF Restart, Phases, Outside, Modes
  <2> QED
    BY <1>7, <2>1, <2>3, <2>4, <2>5, <2>6, FaultType
    DEF Restart, TypeOK, Modes, Engines
<1>8. ASSUME UNCHANGED vars PROVE TypeOK'
  BY <1>8 DEF vars, TypeOK
<1> QED
  BY <1>1, <1>2, <1>3, <1>4, <1>5, <1>6, <1>7, <1>8 DEF Environment

\* Every variable keeps its type, in every instance of the model.
THEOREM TypeCorrect == Spec => []TypeOK
<1>1. TypeOK /\ [Next]_vars => TypeOK'
  BY StepType, OtherType DEF Next
<1> QED
  BY <1>1, InitType, PTL DEF Spec

-----------------------------------------------------------------------------
(* The gate.                                                               *)

\* A step of the gate holder stays inside the gate or frees it.
LEMMA StepGate ==
    ASSUME TypeOK, GateExclusive, NEW c \in Callers, Step(c)
    PROVE  GateExclusive'
<1> USE CallerAssumption DEF GateExclusive, TypeOK
<1>1. gate = c
  BY DEF Step, Inside, Load, LoadFails, Snapshot, SnapshotFails, Prepare,
     PrepareFails, Switch, SwitchCancelled, Stop, StopFails, SkipStart,
     WriteConfig, WriteConfigFails, Spawn, SpawnFails, Verify, VerifyFails,
     Persist, PersistFails, RollbackStop, RollbackStopFails, SkipRestore,
     Restore, RestoreFails, ReportRollback
<1>2. CASE gate' = gate /\ \E p \in Phases \ Outside : Goto(c, p)
  BY <1>1, <1>2 DEF Goto
<1>3. CASE Return(c)
  BY <1>1, <1>3 DEF Return, Goto, Outside
<1>4. \A p, q \in Phases \ Outside :
         NextTarget(c, p, q) => \E r \in Phases \ Outside : Goto(c, r)
  BY DEF NextTarget
<1>5. \A p \in {"snapshot", "preparing", "switching", "stopping", "writing",
                "spawning", "verifying", "rb_stopping", "rb_restoring",
                "rb_done", "persisting"} : p \in Phases \ Outside
  BY DEF Phases, Outside, Preflight, Forward, Backward
<1>6. CASE \/ LoadFails(c) \/ SnapshotFails(c) \/ PrepareFails(c)
           \/ SwitchCancelled(c) \/ Persist(c) \/ PersistFails(c)
           \/ ReportRollback(c)
  BY <1>3, <1>6 DEF LoadFails, SnapshotFails, PrepareFails, SwitchCancelled,
     Persist, PersistFails, ReportRollback, ReturnFailed
<1>7. CASE \/ Load(c) \/ Switch(c) \/ WriteConfig(c) \/ Verify(c)
  BY <1>2, <1>5, <1>7 DEF Load, Switch, WriteConfig, Verify
<1>8. CASE \/ StopFails(c) \/ WriteConfigFails(c) \/ SpawnFails(c) \/ VerifyFails(c)
  BY <1>2, <1>5, <1>8 DEF StopFails, WriteConfigFails, SpawnFails, VerifyFails, Rollback
<1>9. CASE Snapshot(c)
  BY <1>2, <1>4, <1>5, <1>9 DEF Snapshot
<1>10. CASE \/ Prepare(c) \/ Stop(c) \/ SkipStart(c) \/ Spawn(c)
            \/ RollbackStop(c) \/ RollbackStopFails(c) \/ SkipRestore(c)
            \/ Restore(c) \/ RestoreFails(c)
  BY <1>2, <1>4, <1>5, <1>10 DEF Prepare, Stop, SkipStart, Spawn, RollbackStop,
     RollbackStopFails, SkipRestore, Restore, RestoreFails
<1> QED
  BY <1>6, <1>7, <1>8, <1>9, <1>10 DEF Step

\* No return path leaves the gate taken, no two callers are inside it.
THEOREM GateIsExclusive == Spec => []GateExclusive
<1>1. Init => GateExclusive
  BY CallerAssumption DEF Init, GateExclusive, Outside
<1>2. TypeOK /\ GateExclusive /\ [Next]_vars => GateExclusive'
  <2> SUFFICES ASSUME TypeOK, GateExclusive, [Next]_vars PROVE GateExclusive'
    OBVIOUS
  <2> USE CallerAssumption DEF GateExclusive, TypeOK
  <2>1. ASSUME NEW c \in Callers, Call(c) \/ Cancel(c) \/ GiveUp(c) PROVE GateExclusive'
    <3>1. CASE Call(c)
      BY <3>1 DEF Call, Goto, Outside
    <3>2. CASE Cancel(c)
      BY <3>2 DEF Cancel
    <3>3. CASE GiveUp(c)
      BY <3>3 DEF GiveUp, Goto, Outside
    <3> QED
      BY <2>1, <3>1, <3>2, <3>3
  <2>2. ASSUME NEW c \in Callers, Acquire(c) PROVE GateExclusive'
    BY <2>2 DEF Acquire, Goto, Outside
  <2>3. ASSUME NEW c \in Callers, Step(c) PROVE GateExclusive'
    BY <2>3, StepGate
  <2>4. CASE Environment
    <3>1. CASE Restart
      <4>1. gate' = NoCaller /\ \A c \in Callers : pc'[c] = "idle"
        BY <3>1 DEF Restart
      <4> QED
        BY <4>1 DEF Outside
    <3>2. CASE \E e \in Engines : Crash(e)
      BY <3>2 DEF Crash
    <3>3. CASE \E i \in Inbounds : EditInbound(i)
      BY <3>3 DEF EditInbound
    <3> QED
      BY <2>4, <3>1, <3>2, <3>3 DEF Environment
  <2>5. CASE UNCHANGED vars
    BY <2>5 DEF vars
  <2> QED
    BY <2>1, <2>2, <2>3, <2>4, <2>5 DEF Next
<1> QED
  BY <1>1, <1>2, TypeCorrect, PTL DEF Spec

-----------------------------------------------------------------------------
(* Rollback.                                                               *)

\* What the control-flow helpers do to the phase of the transaction.
LEMMA PhaseOf ==
    ASSUME TypeOK, NEW c \in Callers, NEW p, Inside(c, p)
    PROVE  /\ Phase = p
           /\ \A q : Goto(c, q) /\ gate' = gate => Phase' = q
           /\ Return(c) => Phase' = "idle" /\ at' = "xray"
           /\ \A q, r : NextTarget(c, q, r) /\ gate' = gate =>
                 \/ at = "xray" /\ at' = "singbox" /\ Phase' = q
                 \/ at = "singbox" /\ at' = "xray" /\ Phase' = r
BY CallerAssumption
DEF TypeOK, Inside, Phase, Goto, NextTarget, Return, Engines

\* The next-state formulas of what RollbackInv says of one engine depend on
\* the engine variables and the history only.
LEMMA KeptUnchanged ==
    ASSUME UNCHANGED <<file, dual, proc, before, crashed>>
    PROVE  \A e \in Engines : /\ FileKept(e)' <=> FileKept(e)
                              /\ ModeKept(e)' <=> ModeKept(e)
                              /\ ProcessKept(e)' <=> ProcessKept(e)
                              /\ Kept(e)' <=> Kept(e)
BY DEF FileKept, ModeKept, ProcessKept, Kept, Running

\* The same for what relates the code's snapshots to the history.
LEMMA SnapshottedUnchanged ==
    ASSUME UNCHANGED <<prev, before, crashed>>
    PROVE  \A e \in Engines : Snapshotted(e)' <=> Snapshotted(e)
BY DEF Snapshotted

\* An apply that returns leaves nothing for RollbackInv to say.
LEMMA ReturnRollback ==
    ASSUME (Phase' = "idle" /\ at' = "xray") \/ Phase' = "persisting",
           status'.state # "applying"
    PROVE  RollbackInv'
BY DEF RollbackInv, Preflight, Forward, Backward

\* Every step of the gate holder keeps the rollback prepared.
LEMMA StepRollback ==
    ASSUME TypeOK, RollbackInv, NEW c \in Callers, Step(c)
    PROVE  RollbackInv'
<1> USE DEF Preflight, Forward, Backward
<1>a. Engines = {"xray", "singbox"} /\ at \in Engines
  BY DEF Engines, TypeOK
<1>1. CASE LoadFails(c) \/ SnapshotFails(c) \/ PrepareFails(c) \/ SwitchCancelled(c)
  <2>1. PICK p : Inside(c, p)
    BY <1>1 DEF LoadFails, SnapshotFails, PrepareFails, SwitchCancelled
  <2>2. Return(c) /\ status'.state = "failed"
    BY <1>1 DEF LoadFails, SnapshotFails, PrepareFails, SwitchCancelled, ReturnFailed
  <2> QED
    BY <2>1, <2>2, PhaseOf, ReturnRollback
<1>2. CASE Persist(c) \/ PersistFails(c)
  <2>1. Inside(c, "persisting") /\ Return(c) /\ UNCHANGED status
    BY <1>2 DEF Persist, PersistFails
  <2>2. status.state # "applying"
    BY <2>1, PhaseOf DEF RollbackInv
  <2> QED
    BY <2>1, <2>2, PhaseOf, ReturnRollback
<1>3. CASE ReportRollback(c)
  <2>1. Inside(c, "rb_done") /\ Return(c) /\ status'.state # "applying"
    BY <1>3 DEF ReportRollback
  <2> QED
    BY <2>1, PhaseOf, ReturnRollback
<1>4. CASE Verify(c)
  <2>1. Inside(c, "verifying") /\ Goto(c, "persisting") /\ gate' = gate
        /\ status'.state # "applying"
    BY <1>4 DEF Verify
  <2> QED
    BY <2>1, PhaseOf, ReturnRollback
<1>5. CASE Load(c)
  <2>1. Inside(c, "loading")
    BY <1>5 DEF Load
  <2> QED
    BY <1>5, <2>1, PhaseOf, <1>a, KeptUnchanged, SnapshottedUnchanged
    DEF Load, engineVars, historyVars, RollbackInv, Kept
<1>6. CASE Switch(c)
  <2>1. Inside(c, "switching")
    BY <1>6 DEF Switch
  <2> QED
    BY <1>6, <2>1, PhaseOf, <1>a, KeptUnchanged, SnapshottedUnchanged
    DEF Switch, engineVars, historyVars, txVars, RollbackInv, Kept
<1>7. CASE SkipStart(c)
  <2>1. Inside(c, "writing")
    BY <1>7 DEF SkipStart
  <2> QED
    BY <1>7, <2>1, PhaseOf, <1>a, KeptUnchanged, SnapshottedUnchanged
    DEF SkipStart, engineVars, historyVars, RollbackInv, Kept
<1>8. CASE SkipRestore(c)
  <2>1. Inside(c, "rb_restoring")
    BY <1>8 DEF SkipRestore
  <2> QED
    BY <1>8, <2>1, PhaseOf, <1>a, KeptUnchanged, SnapshottedUnchanged
    DEF SkipRestore, engineVars, historyVars, RollbackInv, Kept
<1>9. CASE StopFails(c) \/ WriteConfigFails(c) \/ SpawnFails(c) \/ VerifyFails(c)
  <2>1. PICK p \in Forward : Inside(c, p)
    BY <1>9 DEF StopFails, WriteConfigFails, SpawnFails, VerifyFails
  <2>2. /\ Goto(c, "rb_stopping")
        /\ UNCHANGED <<gate, status, file, dual, proc, prev, same, before, crashed>>
    BY <1>9 DEF StopFails, WriteConfigFails, SpawnFails, VerifyFails, Rollback,
       engineVars, historyVars
  <2>3. Phase = p /\ Phase' = "rb_stopping"
    BY <2>1, <2>2, PhaseOf
  <2> QED
    BY <1>a, <2>2, <2>3, KeptUnchanged, SnapshottedUnchanged DEF RollbackInv
<1>10. CASE Snapshot(c)
  <2>1. Inside(c, "snapshot") /\ UNCHANGED <<gate, status, file, proc, before, crashed>>
    BY <1>10 DEF Snapshot, historyVars
  <2>2. /\ \A e \in Engines : FileKept(e) /\ ModeKept(e) /\ ProcessKept(e)
        /\ at = "singbox" => Snapshotted("xray")
        /\ status.state = "applying"
        /\ Phase = "snapshot"
    BY <2>1, PhaseOf DEF RollbackInv
  <2>3. \A e \in Engines : FileKept(e)' /\ ProcessKept(e)'
    BY <2>1, <2>2 DEF FileKept, ProcessKept, Running
  <2>4. /\ prev'[at] = EngineSnapshot(at)
        /\ \A e \in Engines \ {at} : prev'[e] = prev[e]
        /\ Running(at) => file[at] # NoConfig
    BY <1>10, <1>a DEF Snapshot, TypeOK
  <2>5. \A e \in Engines : e = at \/ Snapshotted(e) => Snapshotted(e)'
    BY <2>1, <2>2, <2>4
    DEF Snapshotted, FileKept, ModeKept, ProcessKept, EngineSnapshot
  <2>6. CASE Wants(c, at)
    <3>1. /\ Phase' = "preparing" /\ at' = at
          /\ \A e \in Engines \ {at} : ModeKept(e)'
      BY <1>10, <1>a, <2>1, <2>2, <2>6, PhaseOf DEF Snapshot, ModeKept, TypeOK
    <3> QED
      BY <1>a, <2>1, <2>2, <2>3, <2>5, <3>1 DEF RollbackInv
  <2>7. CASE ~Wants(c, at)
    <3>1. /\ NextTarget(c, "snapshot", "switching")
          /\ \A e \in Engines : ModeKept(e)'
      BY <1>10, <2>1, <2>2, <2>7 DEF Snapshot, ModeKept
    <3>2. \/ at = "xray" /\ at' = "singbox" /\ Phase' = "snapshot"
          \/ at = "singbox" /\ Phase' = "switching"
      BY <2>1, <3>1, PhaseOf
    <3> QED
      BY <1>a, <2>1, <2>2, <2>3, <2>5, <3>1, <3>2 DEF RollbackInv
  <2> QED
    BY <2>6, <2>7
<1>11. CASE Prepare(c)
  <2>1. /\ Inside(c, "preparing")
        /\ NextTarget(c, "snapshot", "switching")
        /\ UNCHANGED <<gate, status, file, proc, prev, before, crashed>>
    BY <1>11 DEF Prepare, historyVars
  <2>2. /\ \A e \in Engines : FileKept(e) /\ ProcessKept(e)
        /\ \A e \in Engines : ModeKept(e) \/ e = at
        /\ Snapshotted(at)
        /\ at = "singbox" => Snapshotted("xray")
        /\ status.state = "applying"
    BY <2>1, PhaseOf DEF RollbackInv
  <2>3. \A e \in Engines : ModeKept(e)'
    BY <1>11, <1>a, <2>1, <2>2 DEF Prepare, ModeKept, Snapshotted, TypeOK
  <2>4. \A e \in Engines : FileKept(e)' /\ ProcessKept(e)'
    BY <2>1, <2>2 DEF FileKept, ProcessKept, Running
  <2>5. \A e \in Engines : Snapshotted(e)' <=> Snapshotted(e)
    BY <2>1, SnapshottedUnchanged
  <2>6. \/ at = "xray" /\ at' = "singbox" /\ Phase' = "snapshot"
        \/ at = "singbox" /\ Phase' = "switching"
    BY <2>1, PhaseOf
  <2> QED
    BY <1>a, <2>1, <2>2, <2>3, <2>4, <2>5, <2>6 DEF RollbackInv
<1>12. CASE Stop(c) \/ WriteConfig(c) \/ Spawn(c)
  <2>1. /\ \E p \in Forward : Inside(c, p)
        /\ UNCHANGED <<gate, status, prev, same, before, crashed>>
    BY <1>12 DEF Stop, WriteConfig, Spawn, historyVars, txVars
  <2>2. /\ Phase \in Forward
        /\ \A e \in Engines : Snapshotted(e)
        /\ \A e \in Engines : same[e] => Kept(e)
        /\ Phase = "spawning" => ~same[at]
        /\ status.state = "applying"
    BY <2>1, PhaseOf DEF RollbackInv
  <2>3. Phase' \in Forward /\ (Phase' = "spawning" => ~same'[at'])
    <3>1. CASE Stop(c)
      BY <2>1, <3>1, PhaseOf DEF Stop
    <3>2. CASE WriteConfig(c)
      BY <2>1, <3>2, PhaseOf DEF WriteConfig, txVars
    <3>3. CASE Spawn(c)
      BY <2>1, <3>3, PhaseOf DEF Spawn
    <3> QED
      BY <1>12, <3>1, <3>2, <3>3
  <2>4. \A e \in Engines : same[e] =>
           UNCHANGED <<file[e], dual[e], proc[e]>>
    <3>1. CASE Stop(c)
      BY <1>a, <3>1 DEF Stop, Halted, TypeOK
    <3>2. CASE WriteConfig(c)
      BY <1>a, <3>2 DEF WriteConfig, TypeOK
    <3>3. CASE Spawn(c)
      <4>1. Phase = "spawning"
        BY <3>3, PhaseOf DEF Spawn
      <4> QED
        BY <1>a, <2>2, <3>3, <4>1 DEF Spawn, TypeOK
    <3> QED
      BY <1>12, <3>1, <3>2, <3>3
  <2>5. \A e \in Engines : same'[e] => Kept(e)'
    BY <2>1, <2>2, <2>4 DEF Kept, FileKept, ModeKept, ProcessKept, Running
  <2> QED
    BY <2>1, <2>2, <2>3, <2>5, SnapshottedUnchanged DEF RollbackInv
<1>13. CASE RollbackStop(c) \/ RollbackStopFails(c)
  <2>1. /\ Inside(c, "rb_stopping")
        /\ NextTarget(c, "rb_stopping", "rb_restoring")
        /\ UNCHANGED <<gate, status, file, dual, prev, same, before, crashed>>
        /\ \A e \in Engines : same[e] => proc'[e] = proc[e]
    BY <1>13, <1>a DEF RollbackStop, Halted, RollbackStopFails, engineVars,
       historyVars, TypeOK
  <2>2. /\ \A e \in Engines : Snapshotted(e)
        /\ \A e \in Engines : same[e] => Kept(e)
        /\ status.state = "applying"
    BY <2>1, PhaseOf DEF RollbackInv
  <2>3. Phase' = "rb_stopping" \/ (Phase' = "rb_restoring" /\ at' = "xray")
    BY <2>1, PhaseOf
  <2>4. \A e \in Engines : same'[e] => Kept(e)'
    BY <2>1, <2>2 DEF Kept, FileKept, ModeKept, ProcessKept, Running
  <2> QED
    BY <2>1, <2>2, <2>3, <2>4, SnapshottedUnchanged DEF RollbackInv
<1>14. CASE Restore(c) \/ RestoreFails(c)
  <2>1. /\ Inside(c, "rb_restoring")
        /\ NextTarget(c, "rb_restoring", "rb_done")
        /\ ~same[at]
        /\ UNCHANGED <<gate, status, prev, same, before, crashed>>
        /\ \A e \in Engines \ {at} : UNCHANGED <<file[e], dual[e], proc[e]>>
        /\ ~broken' => ~broken /\ Restore(c)
    BY <1>14, <1>a DEF Restore, RestoreFails, engineVars, historyVars, TypeOK
  <2>2. /\ \A e \in Engines : Snapshotted(e)
        /\ \A e \in Engines : same[e] => Kept(e)
        /\ at = "singbox" /\ ~broken => Kept("xray")
        /\ status.state = "applying"
    BY <2>1, PhaseOf DEF RollbackInv
  <2>3. \A e \in Engines \ {at} : Kept(e) => Kept(e)'
    BY <2>1 DEF Kept, FileKept, ModeKept, ProcessKept, Running
  <2>4. ~broken' => \A e \in {at} : Kept(e)'
    <3> SUFFICES ASSUME ~broken', NEW e \in {at} PROVE Kept(e)'
      OBVIOUS
    <3>1. /\ file'[e] = prev[e].file
          /\ dual'[e] = prev[e].dual
          /\ proc'[e] = IF prev[e].running THEN prev[e].file ELSE NoConfig
      BY <1>a, <2>1 DEF Restore, Relaunched, TypeOK
    <3>2. prev[e].running => prev[e].file # NoConfig
      BY <1>a, <2>2 DEF Snapshotted
    <3> QED
      BY <1>a, <2>1, <2>2, <3>1, <3>2
      DEF Kept, FileKept, ModeKept, ProcessKept, Running, Snapshotted
  <2>5. \/ at = "xray" /\ at' = "singbox" /\ Phase' = "rb_restoring"
        \/ at = "singbox" /\ Phase' = "rb_done"
    BY <2>1, PhaseOf
  <2>6. \A e \in Engines : same'[e] => Kept(e)'
    BY <1>a, <2>1, <2>2, <2>3
  <2> QED
    BY <1>a, <2>1, <2>2, <2>3, <2>4, <2>5, <2>6, SnapshottedUnchanged DEF RollbackInv
<1> QED
  BY <1>1, <1>2, <1>3, <1>4, <1>5, <1>6, <1>7, <1>8, <1>9, <1>10, <1>11, <1>12,
     <1>13, <1>14 DEF Step

\* Requests and the environment, while somebody else holds the gate.
LEMMA OtherRollback ==
    ASSUME TypeOK, GateExclusive, RollbackInv,
           \/ \E c \in Callers : Call(c) \/ Cancel(c) \/ GiveUp(c) \/ Acquire(c)
           \/ Environment
           \/ UNCHANGED vars
    PROVE  RollbackInv'
<1> USE CallerAssumption DEF engineVars, txVars, historyVars
<1>1. ASSUME UNCHANGED <<Phase, at, same, broken, status, file, dual, proc, prev,
                         before, crashed>>
      PROVE  RollbackInv'
  BY <1>1 DEF RollbackInv, FileKept, ModeKept, ProcessKept, Kept, Snapshotted,
     Running, Preflight, Forward, Backward
<1>2. ASSUME NEW c \in Callers, Call(c) \/ Cancel(c) \/ GiveUp(c)
      PROVE  RollbackInv'
  <2>1. UNCHANGED <<gate, at, same, broken, status, file, dual, proc, prev, before, crashed>>
    BY <1>2 DEF Call, Cancel, GiveUp
  <2>2. UNCHANGED Phase
    BY <1>2, <2>1 DEF Call, Cancel, GiveUp, Goto, Phase, GateExclusive, Outside, TypeOK
  <2> QED
    BY <1>1, <2>1, <2>2
<1>3. ASSUME NEW c \in Callers, Acquire(c)
      PROVE  RollbackInv'
  <2>1. /\ Phase' = "loading" /\ at' = at /\ status'.state = "applying"
        /\ at = "xray"
    BY <1>3 DEF Acquire, Goto, Phase, TypeOK, RollbackInv
  <2>2. \A e \in Engines : FileKept(e)' /\ ModeKept(e)' /\ ProcessKept(e)'
    BY <1>3 DEF Acquire, FileKept, ModeKept, ProcessKept, EngineSnapshot, Running
  <2> QED
    BY <2>1, <2>2 DEF RollbackInv, Preflight, Forward, Backward
<1>4. ASSUME NEW x \in Engines, Crash(x)
      PROVE  RollbackInv'
  <2>1. UNCHANGED <<Phase, gate, at, same, broken, status, file, dual, prev, before>>
    BY <1>4 DEF Crash, Phase
  <2>2. CASE gate = NoCaller
    BY <2>1, <2>2 DEF RollbackInv, Phase, Preflight, Forward, Backward
  <2>3. CASE gate # NoCaller
    <3>1. /\ crashed' = crashed \cup {x}
          /\ proc' = [proc EXCEPT ![x] = NoConfig]
      BY <1>4, <2>3 DEF Crash
    <3>2. \A e \in Engines : /\ FileKept(e)' <=> FileKept(e)
                             /\ ModeKept(e)' <=> ModeKept(e)
                             /\ ProcessKept(e) => ProcessKept(e)'
                             /\ Snapshotted(e) => Snapshotted(e)'
      BY <2>1, <3>1
      DEF FileKept, ModeKept, ProcessKept, Snapshotted, Running, TypeOK
    <3> QED
      BY <2>1, <3>2 DEF RollbackInv, Kept, Engines, TypeOK
  <2> QED
    BY <2>2, <2>3
<1>5. ASSUME NEW i \in Inbounds, EditInbound(i)
      PROVE  RollbackInv'
  <2>1. UNCHANGED <<Phase, at, same, broken, status, file, dual, proc, prev, before, crashed>>
    BY <1>5 DEF EditInbound, Phase
  <2> QED
    BY <1>1, <2>1
<1>6. ASSUME Restart
      PROVE  RollbackInv'
  BY <1>6, ReturnRollback DEF Restart, Phase
<1>7. ASSUME UNCHANGED vars
      PROVE  RollbackInv'
  <2>1. UNCHANGED <<Phase, at, same, broken, status, file, dual, proc, prev, before, crashed>>
    BY <1>7 DEF vars, Phase
  <2> QED
    BY <1>1, <2>1
<1> QED
  BY <1>2, <1>3, <1>4, <1>5, <1>6, <1>7 DEF Environment

\* RollbackInv holds of every reachable state.
THEOREM RollbackIsPrepared == Spec => []RollbackInv
<1>1. Init => RollbackInv
  BY DEF Init, RollbackInv, Phase, Preflight, Forward, Backward
<1>2. TypeOK /\ GateExclusive /\ RollbackInv /\ [Next]_vars => RollbackInv'
  BY StepRollback, OtherRollback DEF Next
<1> QED
  BY <1>1, <1>2, TypeCorrect, GateIsExclusive, PTL DEF Spec

\* A step that reports failed or rolled_back is taken with everything back in
\* place, and touches no file, mode or process itself except the mode that
\* prepare had set.
LEMMA AbortStep ==
    ASSUME TypeOK, RollbackInv, [Next]_vars,
           Reports("failed") \/ Reports("rolled_back")
    PROVE  /\ \A e \in Engines :
                 /\ file'[e] = before[e].file
                 /\ dual'[e] = before[e].dual
                 /\ proc'[e] # NoConfig => before[e].running
                 /\ before[e].running => proc'[e] # NoConfig \/ e \in crashed
           /\ Phase \notin {"idle", "persisting"} /\ Phase' = "idle"
<1> USE DEF engineVars
<1>1. status' # status /\ status'.state \in {"failed", "rolled_back"}
  BY DEF Reports
<1>2. PICK c \in Callers : Step(c)
  <2>1. \A c \in Callers : ~(Call(c) \/ Cancel(c) \/ GiveUp(c) \/ Acquire(c))
    BY <1>1 DEF Call, Cancel, GiveUp, Acquire
  <2>2. ~Environment
    <3>1. \A e \in Engines : ~Crash(e)
      BY <1>1 DEF Crash
    <3>2. \A i \in Inbounds : ~EditInbound(i)
      BY <1>1 DEF EditInbound
    <3>3. Restart => status' = [state |-> "idle", mode |-> NoMode]
      BY ZenonT(30) DEF Restart
    <3> QED
      BY <1>1, <3>1, <3>2, <3>3 DEF Environment
  <2>3. ~UNCHANGED vars
    BY <1>1 DEF vars
  <2> QED
    BY <2>1, <2>2, <2>3 DEF Next
<1>3. CASE LoadFails(c) \/ SnapshotFails(c) \/ SwitchCancelled(c)
  <2>1. /\ Return(c) /\ UNCHANGED <<file, dual, proc>>
        /\ \E p \in {"loading", "snapshot", "switching"} : Inside(c, p)
    BY <1>3 DEF LoadFails, SnapshotFails, SwitchCancelled, ReturnFailed
  <2>2. \A e \in Engines : FileKept(e) /\ ModeKept(e) /\ ProcessKept(e)
    BY <2>1, PhaseOf DEF RollbackInv, Preflight
  <2> QED
    BY <2>1, <2>2, PhaseOf DEF FileKept, ModeKept, ProcessKept, Running
<1>4. CASE PrepareFails(c)
  <2>1. /\ Return(c) /\ UNCHANGED <<file, proc>>
        /\ dual' = [dual EXCEPT ![at] = prev[at].dual]
        /\ Inside(c, "preparing")
    BY <1>4 DEF PrepareFails, ReturnFailed
  <2>2. /\ \A e \in Engines : FileKept(e) /\ ProcessKept(e)
        /\ \A e \in Engines : ModeKept(e) \/ e = at
        /\ Snapshotted(at)
    BY <2>1, PhaseOf DEF RollbackInv, Preflight
  <2>3. \A e \in Engines : dual'[e] = before[e].dual
    BY <2>1, <2>2 DEF ModeKept, Snapshotted, TypeOK
  <2> QED
    BY <2>1, <2>2, <2>3, PhaseOf DEF FileKept, ProcessKept, Running
<1>5. CASE ReportRollback(c)
  <2>1. /\ Return(c) /\ UNCHANGED <<file, dual, proc>>
        /\ Inside(c, "rb_done") /\ ~broken
    BY <1>1, <1>5 DEF ReportRollback
  <2>2. \A e \in Engines : Kept(e)
    BY <2>1, PhaseOf DEF RollbackInv
  <2> QED
    BY <2>1, <2>2, PhaseOf DEF Kept, FileKept, ModeKept, ProcessKept, Running
<1>6. ~(Load(c) \/ Snapshot(c) \/ Prepare(c) \/ Switch(c) \/ Stop(c) \/ StopFails(c))
  BY <1>1 DEF Load, Snapshot, Prepare, Switch, Stop, StopFails
<1>7. ~(SkipStart(c) \/ WriteConfig(c) \/ WriteConfigFails(c) \/ Spawn(c) \/ SpawnFails(c))
  BY <1>1 DEF SkipStart, WriteConfig, WriteConfigFails, Spawn, SpawnFails
<1>8. ~(Verify(c) \/ VerifyFails(c) \/ Persist(c) \/ PersistFails(c))
  BY <1>1 DEF Verify, VerifyFails, Persist, PersistFails
<1>9. ~(RollbackStop(c) \/ RollbackStopFails(c) \/ SkipRestore(c) \/ Restore(c)
        \/ RestoreFails(c))
  BY <1>1 DEF RollbackStop, RollbackStopFails, SkipRestore, Restore, RestoreFails
<1> QED
  BY <1>2, <1>3, <1>4, <1>5, <1>6, <1>7, <1>8, <1>9 DEF Step

\* What the administrator is told about an aborted apply is true.
THEOREM AbortsRestore == Spec => AbortRestores
<1>1. TypeOK /\ RollbackInv /\ [Next]_vars =>
         [Reports("failed") \/ Reports("rolled_back") =>
            \A e \in Engines :
              /\ file'[e] = before[e].file
              /\ dual'[e] = before[e].dual
              /\ proc'[e] # NoConfig => before[e].running
              /\ before[e].running => proc'[e] # NoConfig \/ e \in crashed]_vars
  BY AbortStep
<1> QED
  BY <1>1, TypeCorrect, RollbackIsPrepared, PTL DEF Spec, AbortRestores

-----------------------------------------------------------------------------
(* Processes and files.                                                    *)

\* No step replaces the file under a live engine or starts one from anything
\* but its file: a start writes first, and both starts stop first.
THEOREM FilesDescribeProcesses == Spec => []RunningServesFile
<1>1. Init => RunningServesFile
  BY DEF Init, RunningServesFile, Running
<1>2. TypeOK /\ RunningServesFile /\ [Next]_vars => RunningServesFile'
  <2> SUFFICES ASSUME TypeOK, RunningServesFile, [Next]_vars
               PROVE  RunningServesFile'
    OBVIOUS
  <2> USE DEF engineVars
  <2>1. ASSUME UNCHANGED <<file, proc>> PROVE RunningServesFile'
    BY <2>1 DEF RunningServesFile, Running
  <2>2. ASSUME UNCHANGED file,
               \A e \in Engines : proc'[e] \in {proc[e], NoConfig, file[e]}
        PROVE  RunningServesFile'
    BY <2>2 DEF RunningServesFile, Running
  <2>3. ASSUME NEW c \in Callers, Step(c) PROVE RunningServesFile'
    <3>1. CASE \/ Load(c) \/ LoadFails(c) \/ Snapshot(c) \/ SnapshotFails(c)
               \/ Prepare(c) \/ PrepareFails(c) \/ Switch(c) \/ SwitchCancelled(c)
      BY <2>1, <3>1 DEF Load, LoadFails, Snapshot, SnapshotFails, Prepare,
         PrepareFails, Switch, SwitchCancelled
    <3>2. CASE \/ StopFails(c) \/ SkipStart(c) \/ WriteConfigFails(c) \/ SpawnFails(c)
               \/ Verify(c) \/ VerifyFails(c) \/ Persist(c) \/ PersistFails(c)
               \/ RollbackStopFails(c) \/ SkipRestore(c) \/ ReportRollback(c)
      BY <2>1, <3>2 DEF StopFails, SkipStart, WriteConfigFails, SpawnFails, Verify,
         VerifyFails, Persist, PersistFails, RollbackStopFails, SkipRestore,
         ReportRollback
    <3>3. CASE Stop(c) \/ Spawn(c) \/ RollbackStop(c)
      BY <2>2, <3>3 DEF Stop, Spawn, RollbackStop, Halted, TypeOK
    <3>4. CASE WriteConfig(c)
      BY <3>4 DEF WriteConfig, RunningServesFile, Running, TypeOK
    <3>5. CASE Restore(c)
      BY <3>5 DEF Restore, Relaunched, RunningServesFile, Running, TypeOK
    <3>6. CASE RestoreFails(c)
      BY <2>1, <3>6 DEF RestoreFails, RunningServesFile, Running, TypeOK
    <3> QED
      BY <2>3, <3>1, <3>2, <3>3, <3>4, <3>5, <3>6 DEF Step
  <2>4. ASSUME NEW c \in Callers, Call(c) \/ Cancel(c) \/ GiveUp(c) \/ Acquire(c)
        PROVE  RunningServesFile'
    BY <2>1, <2>4 DEF Call, Cancel, GiveUp, Acquire
  <2>5. ASSUME NEW e \in Engines, Crash(e) PROVE RunningServesFile'
    BY <2>2, <2>5 DEF Crash, TypeOK
  <2>6. ASSUME NEW i \in Inbounds, EditInbound(i) PROVE RunningServesFile'
    BY <2>1, <2>6 DEF EditInbound
  <2>7. CASE Restart
    <3>1. \A e \in Engines : proc'[e] \in {file'[e], NoConfig}
      BY <2>7, ZenonT(30) DEF Restart
    <3> QED
      BY <3>1 DEF RunningServesFile, Running
  <2>8. CASE UNCHANGED vars
    BY <2>1, <2>8 DEF vars
  <2> QED
    BY <2>3, <2>4, <2>5, <2>6, <2>7, <2>8 DEF Next, Environment
<1> QED
  BY <1>1, <1>2, TypeCorrect, PTL DEF Spec

-----------------------------------------------------------------------------
(* The engines side by side.                                               *)

\* Two configurations that can be listened for at once.
Apart(f, g) == \A i \in Inbounds : f[i] = "off" \/ f[i] # g[i]

\* The engines that run do not contend for a port, nor did those that ran when
\* the gate was acquired.
RunApart ==
    Running("xray") /\ Running("singbox") => Apart(proc["xray"], proc["singbox"])
WereApart ==
    before["xray"].running /\ before["singbox"].running =>
        Apart(before["xray"].file, before["singbox"].file)

\* The loop over the targets has been through snapshot and prepare for e.
Prepared(e) ==
    \/ Phase \in {"switching"} \cup Forward \cup Backward
    \/ Phase \in {"snapshot", "preparing"} /\ at = "singbox" /\ e = "xray"

\* The candidate of a wanted engine holds only what that engine serves beside
\* the other one, and all of it if nobody has edited the table.
Candidate(e) ==
    Wants(gate, e) =>
        /\ cand[e] \in Rows
        /\ \A i \in Inbounds : cand[e][i] # "off" => Serves(e, cand[e][i], WantsDual(gate))
        /\ ~edited => cand[e] = Generate(e, enabled, WantsDual(gate))

\* What "unchanged" was concluded from.
Judged(e) ==
    same[e] => /\ prev[e].running = Wants(gate, e)
               /\ Wants(gate, e) => prev[e].file = cand[e]

\* Nobody has started e since its snapshot was taken.
Stayed(e) == Running(e) => prev[e].running

PreparedInv ==
    /\ Phase \in {"snapshot", "preparing", "switching"} \cup Forward \cup Backward =>
          (~edited => enabled = rows)
    /\ Phase = "preparing" => Wants(gate, at) /\ dual[at] = WantsDual(gate) /\ Stayed(at)
    /\ \A e \in Engines : Prepared(e) => Candidate(e) /\ Judged(e)
    /\ \A e \in Engines : Prepared(e) /\ (Phase \in Preflight \/ same[e]) => Stayed(e)

\* The old process of a changed engine is gone; a new one serves the candidate.
Cleared(e) == same[e] \/ ~Running(e)
Renewed(e) == same[e] \/ (Running(e) => Wants(gate, e) /\ file[e] = cand[e])

\* How far the switch and, unless a step of it failed, the rollback have come.
SwitchInv ==
    /\ Phase = "switching" => at = "xray"
    /\ Phase = "stopping" /\ at = "singbox" => Cleared("xray")
    /\ Phase \in {"writing", "spawning"} =>
          Cleared("singbox") /\ (IF at = "xray" THEN Cleared("xray") ELSE Renewed("xray"))
    /\ Phase = "spawning" => Wants(gate, at) /\ file[at] = cand[at]
    /\ Phase = "verifying" => \A e \in Engines : Renewed(e)
    /\ Phase = "rb_stopping" /\ at = "singbox" /\ ~broken => Cleared("xray")
    /\ Phase = "rb_restoring" /\ ~broken =>
          Cleared("singbox") /\ (at = "xray" => Cleared("xray"))

SideBySide == RunApart /\ WereApart /\ PreparedInv /\ SwitchInv

\* What the control flow leaves of a transaction that has returned.
LEMMA ReturnSide ==
    ASSUME NEW c, Return(c)
    PROVE  Phase' = "idle" /\ WereApart' /\ PreparedInv' /\ SwitchInv'
<1>1. Phase' = "idle"
  BY DEF Return, Phase
<1>2. \A e \in Engines : ~Prepared(e)'
  BY <1>1 DEF Prepared, Forward, Backward
<1>3. WereApart'
  BY DEF Return, WereApart, NoSnapshot, Engines
<1>4. PreparedInv'
  BY <1>1, <1>2 DEF PreparedInv, Preflight, Forward, Backward
<1>5. SwitchInv'
  BY <1>1 DEF SwitchInv
<1> QED
  BY <1>1, <1>3, <1>4, <1>5

\* What "clashes" means for two engines.
LEMMA ClashApart ==
    ASSUME NEW e \in Engines, NEW config
    PROVE  ~Clashes(e, config) <=>
              \A f \in Engines \ {e} : Running(f) => Apart(config, proc[f])
BY DEF Clashes, Apart

\* An engine that is started without a clash, alone, runs apart from the other.
LEMMA StartApart ==
    ASSUME TypeOK, NEW e \in Engines, NEW config,
           ~Clashes(e, config), proc' = [proc EXCEPT ![e] = config]
    PROVE  RunApart'
<1>1. /\ proc'[e] = config
      /\ \A f \in Engines \ {e} : proc'[f] = proc[f]
  BY DEF TypeOK
<1>2. \A f \in Engines \ {e} : Running(f) => Apart(config, proc[f])
  BY ClashApart
<1>3. CASE e = "xray"
  BY <1>1, <1>2, <1>3 DEF RunApart, Running, Apart, Engines
<1>4. CASE e = "singbox"
  BY <1>1, <1>2, <1>4 DEF RunApart, Running, Apart, Engines
<1> QED
  BY <1>3, <1>4 DEF Engines

\* Stopping engines keeps the others apart.
LEMMA StopApart ==
    ASSUME RunApart, \A e \in Engines : proc'[e] \in {proc[e], NoConfig}
    PROVE  RunApart'
BY DEF RunApart, Running, Engines

\* Dual mode gives each engine the protocols the other one leaves.
LEMMA DualApart ==
    ASSUME NEW f, NEW g, NEW d, NEW h,
           \A i \in Inbounds : f[i] # "off" => Serves("xray", f[i], d),
           \A i \in Inbounds : g[i] # "off" => Serves("singbox", g[i], h),
           h
    PROVE  Apart(f, g) /\ Apart(g, f)
BY DEF Apart, Serves, IsXraySupported

\* A generated configuration holds what its engine serves.
LEMMA GenerateServes ==
    ASSUME NEW e, NEW table, NEW d
    PROVE  \A i \in Inbounds :
              Generate(e, table, d)[i] # "off" => Serves(e, Generate(e, table, d)[i], d)
BY DEF Generate

\* Engines that ran beside each other when the gate was acquired still would.
LEMMA StepApart ==
    ASSUME TypeOK, RunningServesFile, RunApart, WereApart, [Next]_vars
    PROVE  RunApart' /\ WereApart'
<1> USE DEF engineVars, historyVars
<1>1. ASSUME UNCHANGED before PROVE WereApart'
  BY <1>1 DEF WereApart
<1>2. ASSUME UNCHANGED proc PROVE RunApart'
  BY <1>2 DEF RunApart, Running
<1>3. ASSUME NEW c \in Callers, Step(c) PROVE RunApart' /\ WereApart'
  <2>1. CASE \/ LoadFails(c) \/ SnapshotFails(c) \/ PrepareFails(c) \/ SwitchCancelled(c)
             \/ Persist(c) \/ PersistFails(c) \/ ReportRollback(c)
    <3>1. Return(c) /\ UNCHANGED proc
      BY <2>1 DEF LoadFails, SnapshotFails, PrepareFails, SwitchCancelled, ReturnFailed,
         Persist, PersistFails, ReportRollback
    <3> QED
      BY <1>2, <3>1, ReturnSide
  <2>2. CASE \/ Load(c) \/ Snapshot(c) \/ Prepare(c) \/ Switch(c) \/ StopFails(c)
             \/ SkipStart(c) \/ WriteConfig(c) \/ WriteConfigFails(c) \/ SpawnFails(c)
             \/ Verify(c) \/ VerifyFails(c) \/ RollbackStopFails(c) \/ SkipRestore(c)
    <3>1. UNCHANGED <<proc, before>>
      BY <2>2 DEF Load, Snapshot, Prepare, Switch, StopFails, SkipStart, WriteConfig,
         WriteConfigFails, SpawnFails, Verify, VerifyFails, RollbackStopFails, SkipRestore
    <3> QED
      BY <1>1, <1>2, <3>1
  <2>3. CASE Stop(c) \/ RollbackStop(c) \/ RestoreFails(c)
    <3>1. UNCHANGED before /\ \A e \in Engines : proc'[e] \in {proc[e], NoConfig}
      BY <2>3 DEF Stop, RollbackStop, RestoreFails, Halted, TypeOK
    <3> QED
      BY <1>1, <3>1, StopApart
  <2>4. CASE Spawn(c)
    <3>1. /\ ~Clashes(at, file[at]) /\ proc' = [proc EXCEPT ![at] = file[at]]
          /\ UNCHANGED before
      BY <2>4 DEF Spawn
    <3>2. at \in Engines
      BY DEF TypeOK
    <3> QED
      BY <1>1, <3>1, <3>2, StartApart
  <2>5. CASE Restore(c)
    <3>1. /\ prev[at].running => ~Clashes(at, prev[at].file)
          /\ proc' = [proc EXCEPT ![at] = IF prev[at].running THEN prev[at].file ELSE NoConfig]
          /\ UNCHANGED before
      BY <2>5 DEF Restore, Relaunched
    <3>2. at \in Engines
      BY DEF TypeOK
    <3>3. CASE prev[at].running
      BY <1>1, <3>1, <3>2, <3>3, StartApart
    <3>4. CASE ~prev[at].running
      <4>1. \A e \in Engines : proc'[e] \in {proc[e], NoConfig}
        BY <3>1, <3>4 DEF TypeOK
      <4> QED
        BY <1>1, <3>1, <4>1, StopApart
    <3> QED
      BY <3>3, <3>4
  <2> QED
    BY <1>3, <2>1, <2>2, <2>3, <2>4, <2>5 DEF Step
<1>4. ASSUME NEW c \in Callers, Call(c) \/ Cancel(c) \/ GiveUp(c)
      PROVE  RunApart' /\ WereApart'
  BY <1>1, <1>2, <1>4 DEF Call, Cancel, GiveUp
<1>5. ASSUME NEW c \in Callers, Acquire(c) PROVE RunApart' /\ WereApart'
  <2>1. /\ UNCHANGED proc
        /\ \A e \in Engines : before'[e].running = Running(e) /\ before'[e].file = file[e]
    BY <1>5 DEF Acquire, EngineSnapshot
  <2>2. WereApart'
    BY <2>1 DEF WereApart, RunApart, RunningServesFile, Engines
  <2> QED
    BY <1>2, <2>1, <2>2
<1>6. ASSUME NEW e \in Engines, Crash(e) PROVE RunApart' /\ WereApart'
  BY <1>1, <1>6, StopApart DEF Crash, TypeOK
<1>7. ASSUME NEW i \in Inbounds, EditInbound(i) PROVE RunApart' /\ WereApart'
  BY <1>1, <1>2, <1>7 DEF EditInbound
<1>8. CASE Restart
  <2>1. before' = [e \in Engines |-> NoSnapshot]
    BY <1>8, ZenonT(30) DEF Restart
  <2>2. PICK written \in SUBSET Engines :
           /\ file' = [e \in Engines |->
                         IF e \in written THEN Generate(e, rows, TRUE) ELSE file[e]]
           /\ \E up \in SUBSET written :
                 proc' = [e \in Engines |-> IF e \in up THEN file'[e] ELSE NoConfig]
    BY <1>8, ZenonT(30) DEF Restart
  <2>3. \A e \in Engines : proc'[e] \in {Generate(e, rows, TRUE), NoConfig}
    BY <2>2
  <2>4. Apart(Generate("xray", rows, TRUE), Generate("singbox", rows, TRUE))
    BY GenerateServes, DualApart
  <2>5. WereApart'
    BY <2>1 DEF WereApart, NoSnapshot, Engines
  <2> QED
    BY <2>3, <2>4, <2>5 DEF RunApart, Running, Engines
<1>9. CASE UNCHANGED vars
  BY <1>1, <1>2, <1>9 DEF vars
<1> QED
  BY <1>3, <1>4, <1>5, <1>6, <1>7, <1>8, <1>9 DEF Next, Environment

\* Past the preflight the account of the candidates only depends on what no
\* step changes any more, and on not starting an unchanged engine.
LEMMA PreparedKept ==
    ASSUME PreparedInv,
           UNCHANGED <<rows, gate, mode, enabled, cand, edited, prev, same>>,
           Phase \in {"switching"} \cup Forward \cup Backward,
           Phase' \in Forward \cup Backward,
           \A e \in Engines : same[e] => proc'[e] \in {proc[e], NoConfig}
    PROVE  PreparedInv'
<1> USE DEF Preflight, Forward, Backward
<1>1. \A e \in Engines : Prepared(e) /\ Prepared(e)'
  BY DEF Prepared
<1>2. \A e \in Engines : Candidate(e)' /\ Judged(e)'
  BY <1>1 DEF PreparedInv, Candidate, Judged, Wants, WantsDual
<1>3. \A e \in Engines : same[e] => Stayed(e)'
  BY <1>1 DEF PreparedInv, Stayed, Running
<1>4. ~edited' => enabled' = rows'
  BY DEF PreparedInv
<1> QED
  BY <1>2, <1>3, <1>4 DEF PreparedInv

\* The two steps of the preflight that prepare an engine.
LEMMA PreparePrepared ==
    ASSUME TypeOK, PreparedInv, NEW c \in Callers, Snapshot(c) \/ Prepare(c)
    PROVE  PreparedInv'
<1> USE DEF Preflight, Forward, Backward
<1>a. Engines = {"xray", "singbox"} /\ at \in Engines
  BY DEF Engines, TypeOK
<1>1. CASE Snapshot(c)
  <2>1. /\ Inside(c, "snapshot") /\ gate = c /\ Phase = "snapshot"
        /\ UNCHANGED <<rows, gate, mode, enabled, cand, edited, proc>>
    BY <1>1, PhaseOf DEF Snapshot, requestVars, historyVars, Inside
  <2>2. /\ prev'[at] = EngineSnapshot(at)
        /\ \A e \in Engines \ {at} : prev'[e] = prev[e]
    BY <1>1, <1>a DEF Snapshot, TypeOK
  <2>3. \A e \in Engines : e = at => Stayed(e)'
    <3>1. \A e \in Engines : e = at => prev'[e].running = Running(e)
      BY <2>2 DEF EngineSnapshot
    <3>2. \A e \in Engines : Running(e)' <=> Running(e)
      BY <2>1 DEF Running
    <3> QED
      BY <3>1, <3>2 DEF Stayed
  <2>4. at = "singbox" => Candidate("xray") /\ Judged("xray") /\ Stayed("xray")
    BY <1>a, <2>1 DEF PreparedInv, Prepared
  <2>5. ~edited => enabled = rows
    BY <2>1 DEF PreparedInv
  <2>6. at = "singbox" => Candidate("xray")' /\ Stayed("xray")'
    BY <1>a, <2>1, <2>2, <2>4 DEF Candidate, Stayed, Wants, WantsDual, Running
  <2>7. CASE Wants(c, at)
    <3>1. /\ Phase' = "preparing" /\ at' = at /\ UNCHANGED same
          /\ dual' = [dual EXCEPT ![at] = WantsDual(c)]
      BY <1>1, <2>1, <2>7, PhaseOf DEF Snapshot
    <3>2. Wants(gate, at)' /\ dual'[at] = WantsDual(gate)'
      BY <2>1, <2>7, <3>1, <1>a DEF Wants, WantsDual, TypeOK
    <3>3. at = "singbox" => Judged("xray")'
      BY <1>a, <2>1, <2>2, <2>4, <3>1 DEF Judged, Wants
    <3>4. \A e \in Engines : Prepared(e)' => at = "singbox" /\ e = "xray"
      BY <3>1 DEF Prepared
    <3> QED
      BY <1>a, <2>1, <2>3, <2>5, <2>6, <3>1, <3>2, <3>3, <3>4 DEF PreparedInv
  <2>8. CASE ~Wants(c, at)
    <3>1. /\ same' = [same EXCEPT ![at] = Unchanged(c, at, prev'[at], NoConfig)]
          /\ NextTarget(c, "snapshot", "switching")
      BY <1>1, <2>1, <2>8 DEF Snapshot
    <3>2. \/ at = "xray" /\ at' = "singbox" /\ Phase' = "snapshot"
          \/ at = "singbox" /\ Phase' = "switching"
      BY <2>1, <3>1, PhaseOf
    <3>3. \A e \in Engines : e = at => Candidate(e)'
      BY <2>1, <2>8 DEF Candidate, Wants
    <3>4. /\ same'[at] => prev'[at].running = Wants(c, at)
          /\ \A e \in Engines \ {at} : same'[e] = same[e]
      BY <1>a, <3>1 DEF TypeOK, Unchanged
    <3>5. \A e \in Engines : e = at => Judged(e)'
      BY <2>1, <2>8, <3>4 DEF Judged, Wants
    <3>6. at = "singbox" => Judged("xray")'
      BY <1>a, <2>1, <2>2, <2>4, <3>4 DEF Judged, Wants
    <3>7. \A e \in Engines : Prepared(e)' => e = at \/ (at = "singbox" /\ e = "xray")
      BY <1>a, <3>2 DEF Prepared
    <3> QED
      BY <1>a, <2>1, <2>3, <2>5, <2>6, <3>2, <3>3, <3>5, <3>6, <3>7 DEF PreparedInv
  <2> QED
    BY <2>7, <2>8
<1>2. CASE Prepare(c)
  <2>1. /\ Inside(c, "preparing") /\ gate = c /\ Phase = "preparing"
        /\ NextTarget(c, "snapshot", "switching")
        /\ UNCHANGED <<rows, gate, mode, enabled, prev, edited, proc>>
    BY <1>2, PhaseOf DEF Prepare, requestVars, historyVars, Inside
  <2>2. \/ at = "xray" /\ at' = "singbox" /\ Phase' = "snapshot"
        \/ at = "singbox" /\ Phase' = "switching"
    BY <2>1, PhaseOf
  <2>3. /\ Wants(c, at) /\ dual[at] = WantsDual(c) /\ Stayed(at)
        /\ ~edited => enabled = rows
    BY <2>1 DEF PreparedInv
  <2>4. at = "singbox" => Candidate("xray") /\ Judged("xray") /\ Stayed("xray")
    BY <1>a, <2>1 DEF PreparedInv, Prepared
  <2>5. /\ cand'[at] = Generate(at, rows, WantsDual(c))
        /\ \A e \in Engines \ {at} : cand'[e] = cand[e]
    BY <1>2, <1>a, <2>3 DEF Prepare, TypeOK
  <2>6. /\ same'[at] = Unchanged(c, at, prev[at], cand'[at])
        /\ \A e \in Engines \ {at} : same'[e] = same[e]
    BY <1>2, <1>a DEF Prepare, TypeOK
  <2>7. \A e \in Engines : e = at => Candidate(e)'
    <3>1. Generate(at, rows, WantsDual(c)) \in Rows
      BY GenerateType DEF TypeOK
    <3>2. \A i \in Inbounds : cand'[at][i] # "off" => Serves(at, cand'[at][i], WantsDual(c))
      BY <2>5, GenerateServes
    <3> QED
      BY <2>1, <2>3, <2>5, <3>1, <3>2 DEF Candidate, WantsDual
  <2>8. \A e \in Engines : e = at => Judged(e)'
    BY <2>1, <2>6 DEF Judged, Unchanged, Wants
  <2>9. at = "singbox" => Candidate("xray")' /\ Judged("xray")' /\ Stayed("xray")'
    BY <1>a, <2>1, <2>4, <2>5, <2>6 DEF Candidate, Judged, Stayed, Wants, WantsDual, Running
  <2>10. \A e \in Engines : e = at => Stayed(e)'
    BY <2>1, <2>3 DEF Stayed, Running
  <2>11. \A e \in Engines : Prepared(e)' => e = at \/ (at = "singbox" /\ e = "xray")
    BY <1>a, <2>2 DEF Prepared
  <2> QED
    BY <1>a, <2>1, <2>2, <2>3, <2>7, <2>8, <2>9, <2>10, <2>11 DEF PreparedInv
<1> QED
  BY <1>1, <1>2

\* Every step of the gate holder keeps what is known of the candidates.
LEMMA StepPrepared ==
    ASSUME TypeOK, RollbackInv, PreparedInv, NEW c \in Callers, Step(c)
    PROVE  PreparedInv'
<1> USE DEF Preflight, Forward, Backward
<1>a. Engines = {"xray", "singbox"} /\ at \in Engines
  BY DEF Engines, TypeOK
<1>1. CASE \/ LoadFails(c) \/ SnapshotFails(c) \/ PrepareFails(c) \/ SwitchCancelled(c)
           \/ Persist(c) \/ PersistFails(c) \/ ReportRollback(c)
  <2>1. Return(c)
    BY <1>1 DEF LoadFails, SnapshotFails, PrepareFails, SwitchCancelled, ReturnFailed,
       Persist, PersistFails, ReportRollback
  <2> QED
    BY <2>1, ReturnSide
<1>2. CASE Load(c)
  <2>1. /\ Phase = "loading" /\ Phase' = "snapshot" /\ UNCHANGED <<rows, at>>
        /\ enabled' = rows
    BY <1>2, PhaseOf DEF Load
  <2>2. at' = "xray"
    BY <2>1 DEF RollbackInv
  <2>3. \A e \in Engines : ~Prepared(e)'
    BY <2>1, <2>2 DEF Prepared
  <2> QED
    BY <2>1, <2>3 DEF PreparedInv
<1>3. CASE Snapshot(c) \/ Prepare(c)
  BY <1>3, PreparePrepared
<1>4. CASE Verify(c)
  <2>1. Phase' = "persisting"
    BY <1>4, PhaseOf DEF Verify
  <2> QED
    BY <2>1 DEF PreparedInv, Prepared
<1>5. CASE \/ Switch(c) \/ Stop(c) \/ SkipStart(c) \/ WriteConfig(c) \/ Spawn(c)
           \/ RollbackStop(c) \/ RollbackStopFails(c) \/ SkipRestore(c) \/ Restore(c)
           \/ RestoreFails(c)
           \/ StopFails(c) \/ WriteConfigFails(c) \/ SpawnFails(c) \/ VerifyFails(c)
  <2>1. UNCHANGED <<rows, gate, mode, enabled, cand, edited, prev, same>>
    BY <1>5 DEF Switch, Stop, SkipStart, WriteConfig, Spawn, RollbackStop,
       RollbackStopFails, SkipRestore, Restore, RestoreFails, StopFails,
       WriteConfigFails, SpawnFails, VerifyFails, requestVars, txVars, historyVars
  <2>2. Phase \in {"switching"} \cup Forward \cup Backward /\ Phase' \in Forward \cup Backward
    <3>1. CASE Switch(c) \/ WriteConfig(c)
      BY <2>1, <3>1, PhaseOf DEF Switch, WriteConfig
    <3>2. CASE StopFails(c) \/ WriteConfigFails(c) \/ SpawnFails(c) \/ VerifyFails(c)
      BY <2>1, <3>2, PhaseOf DEF StopFails, WriteConfigFails, SpawnFails, VerifyFails, Rollback
    <3>3. CASE \/ Stop(c) \/ SkipStart(c) \/ Spawn(c) \/ RollbackStop(c)
               \/ RollbackStopFails(c) \/ SkipRestore(c) \/ Restore(c) \/ RestoreFails(c)
      BY <2>1, <3>3, PhaseOf DEF Stop, SkipStart, Spawn, RollbackStop, RollbackStopFails,
         SkipRestore, Restore, RestoreFails
    <3> QED
      BY <1>5, <3>1, <3>2, <3>3
  <2>3. \A e \in Engines : same[e] => proc'[e] \in {proc[e], NoConfig}
    <3>1. CASE \/ Switch(c) \/ SkipStart(c) \/ WriteConfig(c) \/ RollbackStopFails(c)
               \/ SkipRestore(c) \/ StopFails(c) \/ WriteConfigFails(c) \/ SpawnFails(c)
               \/ VerifyFails(c)
      BY <3>1 DEF Switch, SkipStart, WriteConfig, RollbackStopFails, SkipRestore,
         StopFails, WriteConfigFails, SpawnFails, VerifyFails, engineVars
    <3>2. CASE Stop(c) \/ RollbackStop(c)
      BY <3>2 DEF Stop, RollbackStop, Halted, TypeOK
    <3>3. CASE Spawn(c)
      <4>1. Phase = "spawning" /\ proc' = [proc EXCEPT ![at] = file[at]]
        BY <3>3, PhaseOf DEF Spawn
      <4>2. ~same[at]
        BY <4>1 DEF RollbackInv
      <4> QED
        BY <1>a, <4>1, <4>2 DEF TypeOK
    <3>4. CASE Restore(c)
      BY <1>a, <3>4 DEF Restore, TypeOK
    <3>5. CASE RestoreFails(c)
      BY <1>a, <3>5 DEF RestoreFails, TypeOK, engineVars
    <3> QED
      BY <1>5, <3>1, <3>2, <3>3, <3>4, <3>5
  <2> QED
    BY <2>1, <2>2, <2>3, PreparedKept
<1> QED
  BY <1>1, <1>2, <1>3, <1>4, <1>5 DEF Step

\* What an engine's progress depends on.
LEMMA ClearedUnchanged ==
    ASSUME UNCHANGED <<gate, mode, enabled, cand, same>>
    PROVE  /\ \A e \in Engines : proc'[e] = NoConfig => Cleared(e)'
           /\ \A e \in Engines : proc'[e] \in {proc[e], NoConfig} /\ Cleared(e) => Cleared(e)'
           /\ \A e \in Engines :
                 proc'[e] \in {proc[e], NoConfig} /\ file'[e] = file[e] /\ Renewed(e) => Renewed(e)'
           /\ \A e \in Engines : Cleared(e)' => Renewed(e)'
BY DEF Cleared, Renewed, Running, Wants

\* Every step of the gate holder keeps account of how far the switch has come.
LEMMA StepSwitch ==
    ASSUME TypeOK, RollbackInv, SwitchInv, NEW c \in Callers, Step(c)
    PROVE  SwitchInv'
<1>a. Engines = {"xray", "singbox"} /\ at \in Engines
  BY DEF Engines, TypeOK
<1>1. CASE \/ LoadFails(c) \/ SnapshotFails(c) \/ PrepareFails(c) \/ SwitchCancelled(c)
           \/ Persist(c) \/ PersistFails(c) \/ ReportRollback(c)
  <2>1. Return(c)
    BY <1>1 DEF LoadFails, SnapshotFails, PrepareFails, SwitchCancelled, ReturnFailed,
       Persist, PersistFails, ReportRollback
  <2> QED
    BY <2>1, ReturnSide
<1>2. CASE Load(c) \/ Verify(c)
  <2>1. Phase' \in {"snapshot", "persisting"}
    BY <1>2, PhaseOf DEF Load, Verify
  <2> QED
    BY <2>1 DEF SwitchInv
<1>3. CASE Snapshot(c) \/ Prepare(c)
  <2>1. /\ Phase' \in {"snapshot", "preparing", "switching"}
        /\ Phase' = "switching" => at' = "xray"
    <3>1. CASE Snapshot(c)
      BY <3>1, PhaseOf DEF Snapshot
    <3>2. CASE Prepare(c)
      BY <3>2, PhaseOf DEF Prepare
    <3> QED
      BY <1>3, <3>1, <3>2
  <2> QED
    BY <2>1 DEF SwitchInv
<1>4. CASE Switch(c)
  <2>1. Phase = "switching" /\ Phase' = "stopping" /\ at' = at
    BY <1>4, PhaseOf DEF Switch, txVars
  <2>2. at = "xray"
    BY <2>1 DEF SwitchInv
  <2> QED
    BY <2>1, <2>2 DEF SwitchInv
<1>5. CASE Stop(c) \/ RollbackStop(c) \/ RollbackStopFails(c)
  <2>1. /\ UNCHANGED <<gate, mode, enabled, cand, same>>
        /\ \A e \in Engines : proc'[e] \in {proc[e], NoConfig}
        /\ broken => broken'
    BY <1>5 DEF Stop, RollbackStop, RollbackStopFails, Halted, TypeOK, engineVars, requestVars
  <2>3. CASE Stop(c)
    <3>1. \/ at = "xray" /\ at' = "singbox" /\ Phase' = "stopping"
          \/ at = "singbox" /\ at' = "xray" /\ Phase' = "writing"
      BY <2>3, PhaseOf DEF Stop
    <3>2. \A e \in Engines : e = at => Cleared(e)'
      BY <2>3, <1>a DEF Stop, Halted, TypeOK, Cleared, Running
    <3>3. at = "singbox" => Cleared("xray")
      BY <2>3, PhaseOf DEF Stop, SwitchInv
    <3> QED
      BY <1>a, <2>1, <3>1, <3>2, <3>3, ClearedUnchanged DEF SwitchInv
  <2>4. CASE RollbackStop(c) \/ RollbackStopFails(c)
    <3>1. \/ at = "xray" /\ at' = "singbox" /\ Phase' = "rb_stopping"
          \/ at = "singbox" /\ at' = "xray" /\ Phase' = "rb_restoring"
      BY <2>4, PhaseOf DEF RollbackStop, RollbackStopFails
    <3>2. at = "singbox" /\ ~broken => Cleared("xray")
      BY <2>4, PhaseOf DEF RollbackStop, RollbackStopFails, SwitchInv
    <3>3. ~broken' => \A e \in Engines : e = at => Cleared(e)'
      <4>1. CASE RollbackStop(c)
        BY <1>a, <2>1, <4>1 DEF RollbackStop, Halted, TypeOK, Cleared, Running
      <4>2. CASE RollbackStopFails(c)
        BY <4>2 DEF RollbackStopFails
      <4> QED
        BY <2>4, <4>1, <4>2
    <3> QED
      BY <1>a, <2>1, <3>1, <3>2, <3>3, ClearedUnchanged DEF SwitchInv
  <2> QED
    BY <1>5, <2>3, <2>4
<1>6. CASE StopFails(c) \/ WriteConfigFails(c) \/ SpawnFails(c) \/ VerifyFails(c)
  <2>1. Phase' = "rb_stopping" /\ at' = "xray"
    BY <1>6, PhaseOf DEF StopFails, WriteConfigFails, SpawnFails, VerifyFails, Rollback
  <2> QED
    BY <2>1 DEF SwitchInv
<1>7. CASE SkipStart(c)
  <2>1. /\ Phase = "writing"
        /\ \/ at = "xray" /\ at' = "singbox" /\ Phase' = "writing"
           \/ at = "singbox" /\ at' = "xray" /\ Phase' = "verifying"
        /\ UNCHANGED <<file, proc, gate, mode, enabled, cand, same>>
    BY <1>7, PhaseOf DEF SkipStart, engineVars, requestVars
  <2>2. Cleared("singbox") /\ (IF at = "xray" THEN Cleared("xray") ELSE Renewed("xray"))
    BY <2>1 DEF SwitchInv
  <2> QED
    BY <1>a, <2>1, <2>2, ClearedUnchanged DEF SwitchInv
<1>8. CASE WriteConfig(c)
  <2>1. /\ Phase = "writing" /\ Phase' = "spawning" /\ gate = c
        /\ Wants(c, at) /\ file' = [file EXCEPT ![at] = cand[at]]
        /\ UNCHANGED <<at, proc, gate, mode, enabled, cand, same>>
    BY <1>8, PhaseOf DEF WriteConfig, requestVars, txVars, Inside
  <2>2. Cleared("singbox") /\ (IF at = "xray" THEN Cleared("xray") ELSE Renewed("xray"))
    BY <2>1 DEF SwitchInv
  <2>3. /\ file'[at] = cand[at]
        /\ \A e \in Engines \ {at} : file'[e] = file[e]
    BY <1>a, <2>1 DEF TypeOK
  <2>4. Wants(gate, at)' /\ file'[at'] = cand'[at']
    BY <2>1, <2>3 DEF Wants
  <2>5. /\ Cleared("singbox")'
        /\ IF at = "xray" THEN Cleared("xray")' ELSE Renewed("xray")'
    BY <1>a, <2>1, <2>2, <2>3, ClearedUnchanged
  <2> QED
    BY <2>1, <2>4, <2>5 DEF SwitchInv
<1>9. CASE Spawn(c)
  <2>1. /\ Phase = "spawning" /\ proc' = [proc EXCEPT ![at] = file[at]]
        /\ \/ at = "xray" /\ at' = "singbox" /\ Phase' = "writing"
           \/ at = "singbox" /\ at' = "xray" /\ Phase' = "verifying"
        /\ UNCHANGED <<file, gate, mode, enabled, cand, same>>
    BY <1>9, PhaseOf DEF Spawn, requestVars
  <2>2. /\ Cleared("singbox") /\ (IF at = "xray" THEN Cleared("xray") ELSE Renewed("xray"))
        /\ Wants(gate, at) /\ file[at] = cand[at]
    BY <2>1 DEF SwitchInv
  <2>3. \A e \in Engines \ {at} : proc'[e] = proc[e]
    BY <1>a, <2>1 DEF TypeOK
  <2>4. \A e \in Engines : e = at => Renewed(e)'
    BY <2>1, <2>2 DEF Renewed, Wants
  <2> QED
    BY <1>a, <2>1, <2>2, <2>3, <2>4, ClearedUnchanged DEF SwitchInv
<1>10. CASE SkipRestore(c) \/ Restore(c) \/ RestoreFails(c)
  <2>1. /\ Phase = "rb_restoring"
        /\ \/ at = "xray" /\ at' = "singbox" /\ Phase' = "rb_restoring"
           \/ at = "singbox" /\ at' = "xray" /\ Phase' = "rb_done"
        /\ UNCHANGED <<gate, mode, enabled, cand, same>>
        /\ broken => broken'
    BY <1>10, PhaseOf DEF SkipRestore, Restore, RestoreFails, requestVars
  <2>2. \A e \in Engines \ {at} : proc'[e] = proc[e]
    BY <1>10, <1>a DEF SkipRestore, Restore, RestoreFails, TypeOK, engineVars
  <2>3. ~broken => Cleared("singbox")
    BY <2>1 DEF SwitchInv
  <2>4. at = "xray" /\ ~broken => Cleared("singbox")'
    BY <1>a, <2>1, <2>2, <2>3, ClearedUnchanged
  <2> QED
    BY <2>1, <2>4 DEF SwitchInv
<1> QED
  BY <1>1, <1>2, <1>3, <1>4, <1>5, <1>6, <1>7, <1>8, <1>9, <1>10 DEF Step

\* The steps of everybody else.
LEMMA OtherSide ==
    ASSUME TypeOK, GateExclusive, PreparedInv, SwitchInv,
           \/ \E c \in Callers : Call(c) \/ Cancel(c) \/ GiveUp(c) \/ Acquire(c)
           \/ Environment
           \/ UNCHANGED vars
    PROVE  PreparedInv' /\ SwitchInv'
<1> USE CallerAssumption DEF Preflight, Forward, Backward
<1>a. Engines = {"xray", "singbox"} /\ at \in Engines
  BY DEF Engines, TypeOK
<1>1. ASSUME Phase' \in {"idle", "loading"} PROVE PreparedInv' /\ SwitchInv'
  BY <1>1 DEF PreparedInv, SwitchInv, Prepared
<1>2. ASSUME UNCHANGED <<Phase, gate, at, enabled, cand, prev, same, broken, file, dual>>,
             gate # NoCaller => mode'[gate] = mode[gate],
             Phase = "idle" \/ gate # NoCaller,
             ~edited' => ~edited /\ UNCHANGED rows,
             \A e \in Engines : proc'[e] \in {proc[e], NoConfig}
      PROVE  PreparedInv' /\ SwitchInv'
  <2>1. CASE Phase = "idle"
    BY <1>1, <1>2, <2>1
  <2>2. CASE Phase # "idle"
    <3>1. \A e \in Engines : /\ Wants(gate, e)' = Wants(gate, e)
                             /\ WantsDual(gate)' = WantsDual(gate)
                             /\ Prepared(e)' <=> Prepared(e)
      BY <1>2, <2>2 DEF Wants, WantsDual, Prepared
    <3>2. \A e \in Engines : /\ Candidate(e) => Candidate(e)'
                             /\ Judged(e) => Judged(e)'
                             /\ Stayed(e) => Stayed(e)'
                             /\ Cleared(e) => Cleared(e)'
                             /\ Renewed(e) => Renewed(e)'
      <4>1. \A e \in Engines : /\ Judged(e) => Judged(e)'
                               /\ Stayed(e) => Stayed(e)'
                               /\ Cleared(e) => Cleared(e)'
                               /\ Renewed(e) => Renewed(e)'
        BY <1>2, <3>1 DEF Judged, Stayed, Cleared, Renewed, Running
      <4>2. \A e \in Engines : Candidate(e) => Candidate(e)'
        BY <1>2, <2>2, <3>1 DEF Candidate, WantsDual
      <4> QED
        BY <4>1, <4>2
    <3>3. PreparedInv'
      BY <1>2, <1>a, <3>1, <3>2 DEF PreparedInv
    <3>4. SwitchInv'
      BY <1>2, <1>a, <3>1, <3>2 DEF SwitchInv
    <3> QED
      BY <3>3, <3>4
  <2> QED
    BY <2>1, <2>2
<1>3. ASSUME NEW c \in Callers, Call(c) \/ Cancel(c) \/ GiveUp(c)
      PROVE  PreparedInv' /\ SwitchInv'
  <2>1. UNCHANGED <<gate, at, enabled, cand, prev, same, broken, file, dual, proc, rows, edited>>
    BY <1>3 DEF Call, Cancel, GiveUp, engineVars, txVars, historyVars
  <2>2. UNCHANGED Phase /\ (gate # NoCaller => mode'[gate] = mode[gate])
    BY <1>3, <2>1 DEF Call, Cancel, GiveUp, Goto, Phase, GateExclusive, Outside, TypeOK
  <2>3. Phase = "idle" \/ gate # NoCaller
    BY DEF Phase
  <2> QED
    BY <1>2, <2>1, <2>2, <2>3
<1>4. ASSUME NEW c \in Callers, Acquire(c) PROVE PreparedInv' /\ SwitchInv'
  <2>1. Phase' = "loading"
    BY <1>4 DEF Acquire, Goto, Phase, TypeOK
  <2> QED
    BY <1>1, <2>1
<1>5. ASSUME NEW x \in Engines, Crash(x) PROVE PreparedInv' /\ SwitchInv'
  <2>1. UNCHANGED <<Phase, gate, at, enabled, cand, prev, same, broken, file, dual, rows, edited, mode>>
    BY <1>5 DEF Crash, Phase, txVars, requestVars
  <2>2. \A e \in Engines : proc'[e] \in {proc[e], NoConfig}
    BY <1>5 DEF Crash, TypeOK
  <2>3. Phase = "idle" \/ gate # NoCaller
    BY DEF Phase
  <2> QED
    BY <1>2, <2>1, <2>2, <2>3
<1>6. ASSUME NEW i \in Inbounds, EditInbound(i) PROVE PreparedInv' /\ SwitchInv'
  <2>1. /\ UNCHANGED <<Phase, gate, at, enabled, cand, prev, same, broken, file, dual, proc, mode>>
        /\ edited' = (gate # NoCaller)
    BY <1>6 DEF EditInbound, Phase, txVars, requestVars, engineVars
  <2>2. CASE gate = NoCaller
    BY <1>1, <2>1, <2>2 DEF Phase
  <2>3. CASE gate # NoCaller
    BY <1>2, <2>1, <2>3
  <2> QED
    BY <2>2, <2>3
<1>7. CASE Restart
  <2>1. gate' = NoCaller
    BY <1>7, ZenonT(30) DEF Restart
  <2> QED
    BY <1>1, <2>1 DEF Phase
<1>8. CASE UNCHANGED vars
  <2>1. /\ UNCHANGED <<Phase, gate, at, enabled, cand, prev, same, broken, file, dual, proc, mode>>
        /\ UNCHANGED <<rows, edited>>
    BY <1>8 DEF vars, Phase, txVars, requestVars, engineVars, historyVars
  <2>2. Phase = "idle" \/ gate # NoCaller
    BY DEF Phase
  <2> QED
    BY <1>2, <2>1, <2>2
<1> QED
  BY <1>3, <1>4, <1>5, <1>6, <1>7, <1>8 DEF Environment

\* SideBySide holds of every reachable state.
LEMMA EnginesSideBySide == Spec => []SideBySide
<1>1. Init => SideBySide
  <2> SUFFICES ASSUME Init PROVE SideBySide
    OBVIOUS
  <2>1. Phase = "idle"
    BY DEF Init, Phase
  <2>2. PreparedInv /\ SwitchInv
    BY <2>1 DEF PreparedInv, SwitchInv, Prepared, Preflight, Forward, Backward
  <2>3. RunApart /\ WereApart
    BY DEF Init, RunApart, WereApart, Running, NoSnapshot, Engines
  <2> QED
    BY <2>2, <2>3 DEF SideBySide
<1>2. TypeOK /\ GateExclusive /\ RollbackInv /\ RunningServesFile /\ SideBySide /\ [Next]_vars
        => SideBySide'
  BY StepApart, StepPrepared, StepSwitch, OtherSide DEF Next, SideBySide
<1> QED
  BY <1>1, <1>2, TypeCorrect, GateIsExclusive, RollbackIsPrepared, FilesDescribeProcesses, PTL
  DEF Spec

\* An engine that transitionRuntime found unchanged is not touched, neither by
\* the switch nor by a rollback after the other engine has failed.
THEOREM UnchangedKeepsRunning == Spec => []UnchangedIsLeftAlone
<1>1. RollbackInv /\ SideBySide => UnchangedIsLeftAlone
  BY DEF RollbackInv, SideBySide, PreparedInv, UnchangedIsLeftAlone, Prepared, Stayed,
     Snapshotted, Kept, FileKept, ModeKept, ProcessKept
<1> QED
  BY <1>1, RollbackIsPrepared, EnginesSideBySide, PTL

\* A wanted engine that runs unchanged or already renewed serves its candidate.
LEMMA ServesCandidate ==
    ASSUME RollbackInv, RunningServesFile, SideBySide, Phase \in Forward,
           NEW e \in Engines, Renewed(e), Running(e)
    PROVE  Wants(gate, e) /\ proc[e] = cand[e]
<1>1. proc[e] = file[e]
  BY DEF RunningServesFile
<1>2. CASE same[e]
  <2>1. Judged(e) /\ Stayed(e)
    BY <1>2 DEF SideBySide, PreparedInv, Prepared
  <2>2. prev[e].file = before[e].file /\ file[e] = before[e].file
    BY <1>2 DEF RollbackInv, Snapshotted, Kept, FileKept
  <2> QED
    BY <1>1, <1>2, <2>1, <2>2 DEF Judged, Stayed
<1>3. CASE ~same[e]
  BY <1>1, <1>3 DEF Renewed
<1> QED
  BY <1>2, <1>3

\* Two engines are wanted together in auto mode only.
LEMMA BothWantDual ==
    ASSUME NEW c, Wants(c, "xray"), Wants(c, "singbox")
    PROVE  WantsDual(c)
BY DEF Wants, Wanted, WantsDual

LEMMA ApartSym ==
    ASSUME NEW f, NEW g, Apart(f, g)
    PROVE  Apart(g, f)
BY Zenon DEF Apart

\* An engine is started, for a candidate or in a rollback, only when the other
\* one has given up the ports it needs (stop and start are separate loops).
THEOREM PortsAreReleased == Spec => []PortsReleased
<1>1. TypeOK /\ RollbackInv /\ RunningServesFile /\ SideBySide => PortsReleased
  <2> SUFFICES ASSUME TypeOK, RollbackInv, RunningServesFile, SideBySide
               PROVE  PortsReleased
    OBVIOUS
  <2>a. Engines = {"xray", "singbox"} /\ at \in Engines
    BY DEF Engines, TypeOK
  <2>1. ASSUME Phase = "spawning", NEW f \in Engines \ {at}, Running(f)
        PROVE  Apart(file[at], proc[f])
    <3>1. Wants(gate, at) /\ file[at] = cand[at] /\ Phase \in Forward
      BY <2>1 DEF SideBySide, SwitchInv, Forward
    <3>2. Renewed(f)
      BY <2>a, <2>1 DEF SideBySide, SwitchInv, Cleared, Renewed
    <3>3. Wants(gate, f) /\ proc[f] = cand[f]
      BY <2>1, <3>1, <3>2, ServesCandidate
    <3>4. \A e \in Engines : Candidate(e)
      BY <3>1 DEF SideBySide, PreparedInv, Prepared
    <3>5. WantsDual(gate)
      BY <2>a, <2>1, <3>1, <3>3, BothWantDual
    <3>6. Apart(cand["xray"], cand["singbox"]) /\ Apart(cand["singbox"], cand["xray"])
      <4>1. Wants(gate, "xray") /\ Wants(gate, "singbox")
        BY <2>a, <2>1, <3>1, <3>3
      <4>2. Candidate("xray") /\ Candidate("singbox")
        BY <2>a, <3>4
      <4> QED
        BY <3>5, <4>1, <4>2, DualApart DEF Candidate
    <3> QED
      BY <2>a, <2>1, <3>1, <3>3, <3>6
  <2>2. ASSUME Phase = "rb_restoring", ~same[at], prev[at].running, ~broken,
               NEW f \in Engines \ {at}, Running(f)
        PROVE  Apart(prev[at].file, proc[f])
    <3>1. before[at].running /\ prev[at].file = before[at].file
      BY <2>a, <2>2 DEF RollbackInv, Snapshotted, Backward
    <3>2. Kept(f)
      BY <2>a, <2>2 DEF SideBySide, SwitchInv, Cleared, RollbackInv, Backward
    <3>3. before[f].running /\ proc[f] = before[f].file
      BY <2>2, <3>2 DEF Kept, FileKept, ProcessKept, RunningServesFile
    <3>4. Apart(before["xray"].file, before["singbox"].file)
      BY <2>a, <2>2, <3>1, <3>3 DEF SideBySide, WereApart
    <3>5. Apart(before["singbox"].file, before["xray"].file)
      BY <3>4, ApartSym
    <3> QED
      BY <2>a, <2>2, <3>1, <3>3, <3>4, <3>5
  <2> QED
    BY <2>a, <2>1, <2>2, ClashApart DEF PortsReleased
<1> QED
  BY <1>1, TypeCorrect, RollbackIsPrepared, FilesDescribeProcesses, EnginesSideBySide, PTL

\* The step that reports applied is Verify's, and what it has verified is the
\* table if nobody has edited that since it was loaded.
LEMMA AppliedStep ==
    ASSUME TypeOK, RollbackInv, RunningServesFile, SideBySide, [Next]_vars,
           Reports("applied"), ~edited, NEW e \in Engines
    PROVE  /\ Running(e) <=> Wanted(e, rows, status'.mode)
           /\ Running(e) => proc[e] = Generate(e, rows, status'.mode = "auto")
<1>1. status' # status /\ status'.state = "applied"
  BY DEF Reports
<1>2. PICK c \in Callers : Verify(c)
  <2>1. \A c \in Callers : ~(Call(c) \/ Cancel(c) \/ GiveUp(c) \/ Acquire(c))
    BY <1>1 DEF Call, Cancel, GiveUp, Acquire
  <2>2. ~Environment
    <3>1. \A x \in Engines : ~Crash(x)
      BY <1>1 DEF Crash
    <3>2. \A i \in Inbounds : ~EditInbound(i)
      BY <1>1 DEF EditInbound
    <3>3. Restart => status' = [state |-> "idle", mode |-> NoMode]
      BY ZenonT(30) DEF Restart
    <3> QED
      BY <1>1, <3>1, <3>2, <3>3 DEF Environment
  <2>3. ~UNCHANGED vars
    BY <1>1 DEF vars
  <2>4. PICK c \in Callers : Step(c)
    BY <2>1, <2>2, <2>3 DEF Next
  <2>5. ~(LoadFails(c) \/ SnapshotFails(c) \/ PrepareFails(c) \/ SwitchCancelled(c)
          \/ ReportRollback(c))
    BY <1>1 DEF LoadFails, SnapshotFails, PrepareFails, SwitchCancelled, ReturnFailed, ReportRollback
  <2>6. ~(Load(c) \/ Snapshot(c) \/ Prepare(c) \/ Switch(c) \/ Stop(c) \/ StopFails(c))
    BY <1>1 DEF Load, Snapshot, Prepare, Switch, Stop, StopFails
  <2>7. ~(SkipStart(c) \/ WriteConfig(c) \/ WriteConfigFails(c) \/ Spawn(c) \/ SpawnFails(c))
    BY <1>1 DEF SkipStart, WriteConfig, WriteConfigFails, Spawn, SpawnFails
  <2>8. ~(VerifyFails(c) \/ Persist(c) \/ PersistFails(c))
    BY <1>1 DEF VerifyFails, Persist, PersistFails
  <2>9. ~(RollbackStop(c) \/ RollbackStopFails(c) \/ SkipRestore(c) \/ Restore(c)
          \/ RestoreFails(c))
    BY <1>1 DEF RollbackStop, RollbackStopFails, SkipRestore, Restore, RestoreFails
  <2> QED
    BY <2>4, <2>5, <2>6, <2>7, <2>8, <2>9 DEF Step
<1>3. /\ Phase = "verifying" /\ Phase \in Forward /\ gate = c
      /\ \A x \in Engines : Wants(c, x) => Running(x)
      /\ status'.mode = mode[c]
  BY <1>2, PhaseOf DEF Verify, VerifyHolds, Inside, Forward
<1>4. Renewed(e) /\ Candidate(e) /\ enabled = rows
  BY <1>3 DEF SideBySide, SwitchInv, PreparedInv, Prepared
<1>5. Running(e) => Wants(c, e) /\ proc[e] = cand[e]
  BY <1>3, <1>4, ServesCandidate
<1>6. Wants(c, e) = Wanted(e, rows, status'.mode) /\ WantsDual(c) = (status'.mode = "auto")
  BY <1>3, <1>4 DEF Wants, WantsDual
<1> QED
  BY <1>3, <1>4, <1>5, <1>6 DEF Candidate, WantsDual

\* What the administrator is told about a successful apply is true.
THEOREM AppliedServes == Spec => AppliedServesTable
<1>1. TypeOK /\ RollbackInv /\ RunningServesFile /\ SideBySide /\ [Next]_vars =>
        [Reports("applied") /\ ~edited =>
          \A e \in Engines :
              /\ Running(e) <=> Wanted(e, rows, status'.mode)
              /\ Running(e) => proc[e] = Generate(e, rows, status'.mode = "auto")]_vars
  BY AppliedStep
<1> QED
  BY <1>1, TypeCorrect, RollbackIsPrepared, FilesDescribeProcesses, EnginesSideBySide, PTL
  DEF Spec, AppliedServesTable

-----------------------------------------------------------------------------
(* The transaction.                                                        *)

Runtimes == [Engines -> (Rows \cup {NoConfig}) \X BOOLEAN]

\* What a reader of the transaction sees is always something installable.
LEMMA InstalledType ==
    /\ TypeOK => Installed \in Runtimes
    /\ TypeOK' => [e \in Engines |-> <<file'[e], dual'[e]>>] \in Runtimes
<1>1. TypeOK =>
         \A e \in Engines :
            /\ <<file[e], dual[e]>> \in (Rows \cup {NoConfig}) \X BOOLEAN
            /\ <<before[e].file, before[e].dual>> \in (Rows \cup {NoConfig}) \X BOOLEAN
  BY DEF TypeOK, Snapshots
<1>2. TypeOK' =>
         \A e \in Engines : <<file'[e], dual'[e]>> \in (Rows \cup {NoConfig}) \X BOOLEAN
  BY DEF TypeOK
<1> QED
  BY <1>1, <1>2 DEF Installed, Runtimes

\* Inside the transaction a reader sees what was there before it, outside of
\* it what is there now.
LEMMA InstalledNow ==
    /\ Phase \in {"idle", "persisting"} =>
          Installed = [e \in Engines |-> <<file[e], dual[e]>>]
    /\ Phase \notin {"idle", "persisting"} =>
          Installed = [e \in Engines |-> <<before[e].file, before[e].dual>>]
    /\ Phase' \in {"idle", "persisting"} =>
          Installed' = [e \in Engines |-> <<file'[e], dual'[e]>>]
    /\ Phase' \notin {"idle", "persisting"} =>
          Installed' = [e \in Engines |-> <<before'[e].file, before'[e].dual>>]
BY DEF Installed

\* The gate holder's own steps: the end of the transaction, or a stutter.
LEMMA StepTxn ==
    ASSUME TypeOK, TypeOK', RollbackInv, NEW c \in Callers, Step(c)
    PROVE  Txn!Next \/ UNCHANGED <<Installed, status.state>>
<1> USE DEF engineVars, txVars, historyVars
<1>1. CASE Verify(c)
  <2>1. /\ Inside(c, "verifying") /\ Goto(c, "persisting") /\ gate' = gate
        /\ status'.state = "applied"
    BY <1>1 DEF Verify
  <2>2. status.state = "applying" /\ Phase' = "persisting"
    BY <2>1, PhaseOf DEF RollbackInv
  <2>3. Installed' \in Runtimes
    BY <2>2, InstalledType, InstalledNow
  <2> QED
    BY <2>1, <2>2, <2>3 DEF Txn!Next, Txn!Commit, Runtimes
<1>2. CASE Reports("failed") \/ Reports("rolled_back")
  <2>1. /\ \A e \in Engines : file'[e] = before[e].file /\ dual'[e] = before[e].dual
        /\ Phase \notin {"idle", "persisting"} /\ Phase' = "idle"
    BY <1>2, AbortStep DEF Next
  <2>2. Installed' = Installed
    BY <2>1, InstalledNow
  <2>3. status.state = "applying"
    BY <2>1 DEF RollbackInv
  <2> QED
    BY <1>2, <2>2, <2>3 DEF Reports, Txn!Next, Txn!Abort
<1>3. CASE Persist(c) \/ PersistFails(c)
  <2>1. Inside(c, "persisting") /\ Return(c) /\ UNCHANGED <<status, file, dual>>
    BY <1>3 DEF Persist, PersistFails
  <2> QED
    BY <2>1, PhaseOf, InstalledNow
<1>4. CASE ReportRollback(c) /\ broken
  <2>1. /\ Inside(c, "rb_done") /\ Return(c)
        /\ status'.state = "rollback_failed"
    BY <1>4 DEF ReportRollback
  <2>2. status.state = "applying" /\ Phase' = "idle"
    BY <2>1, PhaseOf DEF RollbackInv
  <2>3. Installed' \in Runtimes
    BY <2>2, InstalledType, InstalledNow
  <2> QED
    BY <2>1, <2>2, <2>3 DEF Txn!Next, Txn!Damage, Runtimes
<1>5. CASE \/ LoadFails(c) \/ SnapshotFails(c) \/ PrepareFails(c)
           \/ SwitchCancelled(c) \/ (ReportRollback(c) /\ ~broken)
  <2>1. \E p \in Preflight \cup {"rb_done"} : Inside(c, p)
    BY <1>5
    DEF LoadFails, SnapshotFails, PrepareFails, SwitchCancelled, ReportRollback, Preflight
  <2>2. status.state = "applying"
    BY <2>1, PhaseOf DEF RollbackInv, Preflight
  <2>3. status'.state \in {"failed", "rolled_back"}
    BY <1>5
    DEF LoadFails, SnapshotFails, PrepareFails, SwitchCancelled, ReportRollback, ReturnFailed
  <2>4. Reports("failed") \/ Reports("rolled_back")
    BY <2>2, <2>3 DEF Reports
  <2> QED
    BY <1>2, <2>4
<1>6. ASSUME UNCHANGED <<gate, status, before>>,
             NEW p \in Preflight \cup Forward \cup Backward,
             NEW q \in Preflight \cup Forward \cup Backward,
             NEW r \in Preflight \cup Forward \cup Backward,
             Inside(c, p), Goto(c, q) \/ NextTarget(c, q, r)
      PROVE  UNCHANGED <<Installed, status.state>>
  <2>1. Phase = p /\ (Phase' = q \/ Phase' = r)
    BY <1>6, PhaseOf
  <2> QED
    BY <1>6, <2>1, InstalledNow DEF Preflight, Forward, Backward
<1>7. CASE Load(c) \/ Snapshot(c) \/ Prepare(c) \/ Switch(c)
  <2>1. UNCHANGED <<gate, status, before>>
    BY <1>7 DEF Load, Snapshot, Prepare, Switch
  <2>2. \/ Inside(c, "loading") /\ Goto(c, "snapshot")
        \/ Inside(c, "snapshot") /\ Goto(c, "preparing")
        \/ Inside(c, "snapshot") /\ NextTarget(c, "snapshot", "switching")
        \/ Inside(c, "preparing") /\ NextTarget(c, "snapshot", "switching")
        \/ Inside(c, "switching") /\ Goto(c, "stopping")
    BY <1>7 DEF Load, Snapshot, Prepare, Switch
  <2> QED
    BY <1>6, <2>1, <2>2 DEF Preflight, Forward
<1>8. CASE \/ Stop(c) \/ SkipStart(c) \/ WriteConfig(c) \/ Spawn(c)
           \/ StopFails(c) \/ WriteConfigFails(c) \/ SpawnFails(c) \/ VerifyFails(c)
  <2>1. UNCHANGED <<gate, status, before>>
    BY <1>8 DEF Stop, SkipStart, WriteConfig, Spawn, StopFails, WriteConfigFails,
       SpawnFails, VerifyFails
  <2>2. \/ Inside(c, "stopping") /\ NextTarget(c, "stopping", "writing")
        \/ Inside(c, "writing") /\ NextTarget(c, "writing", "verifying")
        \/ Inside(c, "writing") /\ Goto(c, "spawning")
        \/ Inside(c, "spawning") /\ NextTarget(c, "writing", "verifying")
        \/ \E p \in Forward : Inside(c, p) /\ Goto(c, "rb_stopping")
    BY <1>8 DEF Stop, SkipStart, WriteConfig, Spawn, StopFails, WriteConfigFails,
       SpawnFails, VerifyFails, Rollback, Forward
  <2> QED
    BY <1>6, <2>1, <2>2 DEF Forward, Backward
<1>9. CASE \/ RollbackStop(c) \/ RollbackStopFails(c) \/ SkipRestore(c)
           \/ Restore(c) \/ RestoreFails(c)
  <2>1. UNCHANGED <<gate, status, before>>
    BY <1>9 DEF RollbackStop, RollbackStopFails, SkipRestore, Restore, RestoreFails
  <2>2. \/ Inside(c, "rb_stopping") /\ NextTarget(c, "rb_stopping", "rb_restoring")
        \/ Inside(c, "rb_restoring") /\ NextTarget(c, "rb_restoring", "rb_done")
    BY <1>9 DEF RollbackStop, RollbackStopFails, SkipRestore, Restore, RestoreFails
  <2> QED
    BY <1>6, <2>1, <2>2 DEF Backward
<1>10. CASE ReportRollback(c)
  BY <1>4, <1>5, <1>10
<1> QED
  BY <1>1, <1>3, <1>5, <1>7, <1>8, <1>9, <1>10 DEF Step

\* Requests and the environment: its beginning, a reboot, or a stutter.
LEMMA OtherTxn ==
    ASSUME TypeOK, TypeOK', GateExclusive, RollbackInv,
           \/ \E c \in Callers : Call(c) \/ Cancel(c) \/ GiveUp(c) \/ Acquire(c)
           \/ Environment
           \/ UNCHANGED vars
    PROVE  Txn!Next \/ UNCHANGED <<Installed, status.state>>
<1> USE CallerAssumption DEF engineVars, txVars, historyVars
<1>1. ASSUME UNCHANGED <<Phase, file, dual, before, status>>
      PROVE  UNCHANGED <<Installed, status.state>>
  BY <1>1 DEF Installed
<1>2. ASSUME NEW c \in Callers, Call(c) \/ Cancel(c) \/ GiveUp(c)
      PROVE  UNCHANGED <<Installed, status.state>>
  <2>1. UNCHANGED <<gate, file, dual, before, status>>
    BY <1>2 DEF Call, Cancel, GiveUp
  <2>2. UNCHANGED Phase
    BY <1>2, <2>1 DEF Call, Cancel, GiveUp, Goto, Phase, GateExclusive, Outside, TypeOK
  <2> QED
    BY <1>1, <2>1, <2>2
<1>3. ASSUME NEW c \in Callers, Acquire(c)
      PROVE  Txn!Next
  <2>1. /\ Phase = "idle" /\ Phase' = "loading"
        /\ status'.state = "applying"
        /\ before' = [e \in Engines |-> EngineSnapshot(e)]
    BY <1>3 DEF Acquire, Goto, Phase, TypeOK
  <2>2. status.state # "applying"
    BY <2>1 DEF RollbackInv
  <2>3. Installed' = Installed
    BY <2>1, InstalledNow DEF EngineSnapshot
  <2> QED
    BY <2>1, <2>2, <2>3 DEF Txn!Next, Txn!Begin
<1>4. ASSUME NEW e \in Engines, Crash(e)
      PROVE  UNCHANGED <<Installed, status.state>>
  <2>1. UNCHANGED <<Phase, file, dual, before, status>>
    BY <1>4 DEF Crash, Phase
  <2> QED
    BY <1>1, <2>1
<1>5. ASSUME NEW i \in Inbounds, EditInbound(i)
      PROVE  UNCHANGED <<Installed, status.state>>
  <2>1. UNCHANGED <<Phase, file, dual, before, status>>
    BY <1>5 DEF EditInbound, Phase
  <2> QED
    BY <1>1, <2>1
<1>6. ASSUME Restart
      PROVE  Txn!Next
  <2>1. gate' = NoCaller /\ status' = [state |-> "idle", mode |-> NoMode]
    BY <1>6, ZenonT(30) DEF Restart
  <2>2. Phase' = "idle" /\ status'.state = "idle"
    BY <2>1 DEF Phase
  <2>3. Installed' \in Runtimes
    BY <2>2, InstalledType, InstalledNow
  <2> QED
    BY <2>2, <2>3 DEF Txn!Next, Txn!Reboot, Runtimes
<1>7. CASE UNCHANGED vars
  <2>1. UNCHANGED <<Phase, file, dual, before, status>>
    BY <1>7 DEF vars, Phase
  <2> QED
    BY <1>1, <2>1
<1>8. CASE \E c \in Callers : Call(c) \/ Cancel(c) \/ GiveUp(c) \/ Acquire(c)
  BY <1>2, <1>3, <1>8
<1>9. CASE Environment
  BY <1>4, <1>5, <1>6, <1>9, Zenon DEF Environment
<1> QED
  BY <1>7, <1>8, <1>9

\* ApplyRuntime, with its two engines, its failures and its rollback,
\* implements an all-or-nothing transaction on files and modes.
THEOREM ApplyIsTransaction == Spec => ImplementsTxn
<1>1. Init => Txn!Init
  <2> SUFFICES ASSUME Init PROVE Txn!Init
    OBVIOUS
  <2>1. Installed \in Runtimes
    BY InitType, InstalledType
  <2> QED
    BY <2>1 DEF Txn!Init, Init, Runtimes
<1>2. TypeOK /\ TypeOK' /\ GateExclusive /\ RollbackInv /\ [Next]_vars =>
         [Txn!Next]_(Txn!vars)
  BY StepTxn, OtherTxn DEF Next, Txn!vars
<1> QED
  BY <1>1, <1>2, TypeCorrect, GateIsExclusive, RollbackIsPrepared, PTL
  DEF Spec, Txn!Spec, ImplementsTxn
=============================================================================
