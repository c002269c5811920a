---------------------------- MODULE ProxyRuntime ----------------------------
(***************************************************************************)
(* The two-engine proxy runtime of ZenithPanel with locally managed cores: *)
(* service/proxy/runtime.go (the coordinator behind POST /proxy/apply),    *)
(* core.go (process supervision), xray.go and singbox.go (what each engine *)
(* is configured to serve) and the auto-start at boot in main.go.          *)
(*                                                                         *)
(* Callers are HTTP handlers running ApplyRuntime concurrently.  They are  *)
(* serialised by runtimeGate, a channel of capacity one.  The goroutine    *)
(* inside the gate works through the phases                                *)
(*   loading, snapshot, preparing, switching, stopping, writing, spawning, *)
(*   verifying, persisting                                                 *)
(* and, when a step fails after switching began, rb_stopping, rb_restoring *)
(* and rb_done.  Between any two of its steps an engine may exit, an       *)
(* administrator may edit the inbound table, the request may be cancelled  *)
(* and the panel itself may be restarted.                                  *)
(*                                                                         *)
(* An inbound row is abstracted to its protocol class, a configuration to  *)
(* the inbounds it serves and the protocol it serves each of them with.    *)
(***************************************************************************)
EXTENDS Naturals

CONSTANTS
    Inbounds,     \* rows of the inbounds table
    Callers,      \* concurrent requests that apply the runtime
    Requests,     \* <<mode, force>> pairs they may ask for
    NoCaller,     \* the gate is free
    NoConfig,     \* no file on disk, or no live process
    MaxFaults,    \* bound on injected failures (I/O, validation, start, stop, crash)
    MaxEdits      \* bound on edits of the inbounds table

ASSUME CallerAssumption == NoCaller \notin Callers
ASSUME BoundAssumption == MaxFaults \in Nat /\ MaxEdits \in Nat

Engines == {"xray", "singbox"}
Modes == {"auto", "xray", "singbox"}
NoMode == "none"

ASSUME RequestAssumption == Requests \subseteq Modes \X BOOLEAN

\* vless stands for every protocol Xray serves, hysteria2 for the others.
Protocols == {"vless", "hysteria2"}
Rows == [Inbounds -> Protocols \cup {"off"}]
IsXraySupported(p) == p = "vless"

ASSUME ConfigAssumption == NoConfig \notin Rows

Outside == {"idle", "waiting"}
Preflight == {"loading", "snapshot", "preparing", "switching"}
Forward == {"stopping", "writing", "spawning", "verifying"}
Backward == {"rb_stopping", "rb_restoring", "rb_done"}
Phases == Outside \cup Preflight \cup Forward \cup Backward \cup {"persisting"}

States == {"idle", "applying", "applied", "failed", "rolled_back", "rollback_failed"}
Snapshots == [file : Rows \cup {NoConfig}, running : BOOLEAN, dual : BOOLEAN]

VARIABLES
    rows,        \* the inbounds table: protocol of an enabled inbound, or "off"
    file,        \* file[e]: configuration on disk at ConfigPath
    proc,        \* proc[e]: configuration the live process loaded, or NoConfig
    dual,        \* dual[e]: BaseCore.dualMode
    gate,        \* the caller inside runtimeGate
    status,      \* the RuntimeStatus shown to the administrator
    persisted,   \* setting proxy_runtime_mode
    pc,          \* pc[c]: phase of caller c
    mode,        \* mode[c]: requested engine mode
    force,       \* force[c]: restart unchanged engines too
    gone,        \* gone[c]: the request's context is done
    at,          \* engine the gate holder's current loop has reached
    enabled,     \* inbounds the gate holder loaded for wanting and probing
    prev,        \* prev[e]: engineSnapshot taken before anything was touched
    cand,        \* cand[e]: validated candidate configuration
    same,        \* same[e]: the target is unchanged and is left alone
    broken,      \* a rollback step failed
    prevMode,    \* status.mode when the gate was acquired
    faults, edits,
    \* history of the transaction in progress, read by properties only
    before,      \* before[e]: snapshot of the engine when the gate was acquired
    crashed,     \* engines that exited by themselves since then
    edited       \* the table was edited since enabled was loaded

engineVars == <<file, proc, dual>>
requestVars == <<mode, force, gone>>
txVars == <<at, enabled, prev, cand, same, broken, prevMode>>
boundVars == <<faults, edits>>
historyVars == <<before, crashed, edited>>
vars == <<rows, engineVars, gate, status, persisted, pc, requestVars, txVars,
          boundVars, historyVars>>

-----------------------------------------------------------------------------
(* What an engine is asked to serve.  Here and below, a definition right    *)
(* before another one with a longer name of the same stem is the same code *)
(* with a plausible bug in it; a property must be able to tell them apart. *)

\* GenerateConfig of each manager: Xray keeps the protocols it supports,
\* sing-box keeps everything unless dual mode leaves those to Xray.
Serves(e, p, d) ==
    /\ p # "off"
    /\ e = "xray" => IsXraySupported(p)
    /\ e = "singbox" /\ d => ~IsXraySupported(p)

Generate(e, table, d) ==
    [i \in Inbounds |-> IF Serves(e, table[i], d) THEN table[i] ELSE "off"]

\* wantXray and wantSingbox of ApplyRuntime.
Wanted(e, table, m) ==
    \E i \in Inbounds :
        /\ table[i] # "off"
        /\ \/ m = "singbox" /\ e = "singbox"
           \/ m # "singbox" /\ e = "xray" /\ IsXraySupported(table[i])
           \/ m = "auto" /\ e = "singbox" /\ ~IsXraySupported(table[i])

Wants(c, e) == Wanted(e, enabled, mode[c])
WantsDual(c) == mode[c] = "auto"

Running(e) == proc[e] # NoConfig

\* Two listeners for one inbound and protocol cannot be bound at once.
Clashes(e, config) ==
    \E f \in Engines \ {e}, i \in Inbounds :
        /\ Running(f)
        /\ config[i] # "off"
        /\ proc[f][i] = config[i]

\* An inbound the chosen mode leaves unserved is not probed.
Probed(c, i) == enabled[i] # "off" /\ (mode[c] = "xray" => IsXraySupported(enabled[i]))
Bound(i, p) == \E e \in Engines : Running(e) /\ proc[e][i] = p

NoSnapshot == [file |-> NoConfig, running |-> FALSE, dual |-> FALSE]
EngineSnapshot(e) == [file |-> file[e], running |-> Running(e), dual |-> dual[e]]

UnchangedByName(c, e, s, k) == ~force[c] /\ s.running = Wants(c, e)

\* transitionRuntime's "unchanged" for engine e given its snapshot s and candidate k.
Unchanged(c, e, s, k) ==
    /\ ~force[c]
    /\ s.running = Wants(c, e)
    /\ Wants(c, e) => s.file # NoConfig /\ s.file = k /\ s.dual = WantsDual(c)

-----------------------------------------------------------------------------
Init ==
    /\ rows \in Rows
    /\ file = [e \in Engines |-> NoConfig]
    /\ proc = [e \in Engines |-> NoConfig]
    /\ dual = [e \in Engines |-> FALSE]
    /\ gate = NoCaller
    /\ status = [state |-> "idle", mode |-> NoMode]
    /\ persisted = NoMode
    /\ pc = [c \in Callers |-> "idle"]
    /\ mode = [c \in Callers |-> "auto"]
    /\ force = [c \in Callers |-> FALSE]
    /\ gone = [c \in Callers |-> FALSE]
    /\ at = "xray"
    /\ enabled = [i \in Inbounds |-> "off"]
    /\ prev = [e \in Engines |-> NoSnapshot]
    /\ cand = [e \in Engines |-> NoConfig]
    /\ same = [e \in Engines |-> FALSE]
    /\ broken = FALSE
    /\ prevMode = NoMode
    /\ faults = 0
    /\ edits = 0
    /\ before = [e \in Engines |-> NoSnapshot]
    /\ crashed = {}
    /\ edited = FALSE

\* An injected failure; every use of it is one failing call of the code.
Fault == faults < MaxFaults /\ faults' = faults + 1
NoFault == UNCHANGED faults

\* Control flow of the gate holder.
Inside(c, phase) == gate = c /\ pc[c] = phase
Goto(c, phase) == pc' = [pc EXCEPT ![c] = phase]

NextTargetRetrying(c, phase, after) ==
    IF at = "xray" THEN at' = "singbox" /\ Goto(c, phase)
                   ELSE at' = "xray" /\ Goto(c, IF broken THEN phase ELSE after)

\* Next iteration of a loop over the targets, or the phase that follows it.
NextTarget(c, phase, after) ==
    IF at = "xray" THEN at' = "singbox" /\ Goto(c, phase)
                   ELSE at' = "xray" /\ Goto(c, after)

\* Returning releases the gate and drops the goroutine's locals.
Return(c) ==
    /\ Goto(c, "idle")
    /\ gate' = NoCaller
    /\ mode' = [mode EXCEPT ![c] = "auto"]
    /\ force' = [force EXCEPT ![c] = FALSE]
    /\ gone' = [gone EXCEPT ![c] = FALSE]
    /\ at' = "xray"
    /\ enabled' = [i \in Inbounds |-> "off"]
    /\ prev' = [e \in Engines |-> NoSnapshot]
    /\ cand' = [e \in Engines |-> NoConfig]
    /\ same' = [e \in Engines |-> FALSE]
    /\ broken' = FALSE
    /\ prevMode' = NoMode
    /\ before' = [e \in Engines |-> NoSnapshot]
    /\ crashed' = {}
    /\ edited' = FALSE

\* An error before switching: the status says failed, nothing is rolled back.
ReturnFailed(c) ==
    /\ status' = [state |-> "failed", mode |-> mode[c]]
    /\ Return(c)

RollbackShadowed(c) == Goto(c, "rb_done") /\ at' = "xray"
RollbackUnreleased(c) == Goto(c, "rb_restoring") /\ at' = "xray"

\* An error once switching started runs the deferred rollback.
Rollback(c) == Goto(c, "rb_stopping") /\ at' = "xray"

HaltedAll == [proc EXCEPT ![at] = NoConfig]

\* A stop passes over an unchanged engine; a stopped one counts as stopped.
Halted == IF same[at] THEN proc ELSE [proc EXCEPT ![at] = NoConfig]

\* What restore leaves running: the old file's process, if there was one.
Relaunched == IF prev[at].running THEN prev[at].file ELSE NoConfig

-----------------------------------------------------------------------------
(* Requests and the gate.                                                  *)

Call(c) ==
    /\ pc[c] = "idle"
    /\ Goto(c, "waiting")
    /\ \E r \in Requests :
          /\ mode' = [mode EXCEPT ![c] = r[1]]
          /\ force' = [force EXCEPT ![c] = r[2]]
    /\ UNCHANGED <<rows, engineVars, gate, status, persisted, gone, txVars,
                   boundVars, historyVars>>

\* The client disconnects or the two-minute deadline passes.
Cancel(c) ==
    /\ pc[c] # "idle"
    /\ ~gone[c]
    /\ gone' = [gone EXCEPT ![c] = TRUE]
    /\ UNCHANGED <<rows, engineVars, gate, status, persisted, pc, mode, force,
                   txVars, boundVars, historyVars>>

GiveUpReleasing(c) ==
    /\ pc[c] = "waiting"
    /\ gone[c]
    /\ Goto(c, "idle")
    /\ gate' = NoCaller
    /\ UNCHANGED <<rows, engineVars, status, persisted, requestVars, txVars,
                   boundVars, historyVars>>

\* A waiting caller leaves without ever having queued work.
GiveUp(c) ==
    /\ pc[c] = "waiting"
    /\ gone[c]
    /\ Goto(c, "idle")
    /\ mode' = [mode EXCEPT ![c] = "auto"]
    /\ force' = [force EXCEPT ![c] = FALSE]
    /\ gone' = [gone EXCEPT ![c] = FALSE]
    /\ UNCHANGED <<rows, engineVars, gate, status, persisted, txVars, boundVars,
                   historyVars>>

\* select chooses freely when the gate is free and the context is done too.
Acquire(c) ==
    /\ pc[c] = "waiting"
    /\ gate = NoCaller
    /\ gate' = c
    /\ Goto(c, "loading")
    /\ prevMode' = status.mode
    /\ status' = [state |-> "applying", mode |-> mode[c]]
    /\ before' = [e \in Engines |-> EngineSnapshot(e)]
    /\ UNCHANGED <<rows, engineVars, persisted, requestVars, at, enabled, prev,
                   cand, same, broken, boundVars, crashed, edited>>

-----------------------------------------------------------------------------
(* Preflight: nothing live is touched.                                     *)

Load(c) ==
    /\ Inside(c, "loading")
    /\ ~gone[c]
    /\ enabled' = rows
    /\ edited' = FALSE
    /\ Goto(c, "snapshot")
    /\ UNCHANGED <<rows, engineVars, gate, status, persisted, requestVars, at,
                   prev, cand, same, broken, prevMode, boundVars, before, crashed>>

LoadFails(c) ==
    /\ Inside(c, "loading")
    /\ \/ gone[c] /\ NoFault
       \/ Fault
    /\ ReturnFailed(c)
    /\ UNCHANGED <<rows, engineVars, persisted, edits>>

\* snapshot, and the start of prepare for a wanted engine: the mode is set
\* on the live manager so that the generator honours it.
Snapshot(c) ==
    /\ Inside(c, "snapshot")
    /\ ~gone[c]
    /\ Running(at) => file[at] # NoConfig
    /\ prev' = [prev EXCEPT ![at] = EngineSnapshot(at)]
    /\ \/ /\ Wants(c, at)
          /\ dual' = [dual EXCEPT ![at] = WantsDual(c)]
          /\ Goto(c, "preparing")
          /\ UNCHANGED <<at, same>>
       \/ /\ ~Wants(c, at)
          /\ same' = [same EXCEPT ![at] = Unchanged(c, at, prev'[at], NoConfig)]
          /\ NextTarget(c, "snapshot", "switching")
          /\ UNCHANGED dual
    /\ UNCHANGED <<rows, file, proc, gate, status, persisted, requestVars,
                   enabled, cand, broken, prevMode, boundVars, historyVars>>

SnapshotFails(c) ==
    /\ Inside(c, "snapshot")
    /\ \/ (gone[c] \/ (Running(at) /\ file[at] = NoConfig)) /\ NoFault
       \/ Fault
    /\ ReturnFailed(c)
    /\ UNCHANGED <<rows, engineVars, persisted, edits>>

\* generate reads the table as it is now, not as it was loaded; the
\* deferred SetDualMode puts the manager's mode back.
Prepare(c) ==
    /\ Inside(c, "preparing")
    /\ ~gone[c]
    /\ cand' = [cand EXCEPT ![at] = Generate(at, rows, dual[at])]
    /\ dual' = [dual EXCEPT ![at] = prev[at].dual]
    /\ same' = [same EXCEPT ![at] = Unchanged(c, at, prev[at], cand'[at])]
    /\ NextTarget(c, "snapshot", "switching")
    /\ UNCHANGED <<rows, file, proc, gate, status, persisted, requestVars,
                   enabled, prev, broken, prevMode, boundVars, historyVars>>

\* The generator, the scratch file or the engine's offline check fails.
PrepareFails(c) ==
    /\ Inside(c, "preparing")
    /\ \/ gone[c] /\ NoFault
       \/ Fault
    /\ dual' = [dual EXCEPT ![at] = prev[at].dual]
    /\ ReturnFailed(c)
    /\ UNCHANGED <<rows, file, proc, persisted, edits>>

\* The last look at the context before a live engine is stopped.
Switch(c) ==
    /\ Inside(c, "switching")
    /\ ~gone[c]
    /\ Goto(c, "stopping")
    /\ UNCHANGED <<rows, engineVars, gate, status, persisted, requestVars,
                   txVars, boundVars, historyVars>>

SwitchCancelled(c) ==
    /\ Inside(c, "switching")
    /\ gone[c]
    /\ ReturnFailed(c)
    /\ UNCHANGED <<rows, engineVars, persisted, boundVars>>

-----------------------------------------------------------------------------
(* Forward: stop every changed engine, then start every wanted one.        *)

\* BaseCore.Stop, preceded for Xray by the accountant's hook.
Stop(c) ==
    /\ Inside(c, "stopping")
    /\ proc' = Halted
    /\ NextTarget(c, "stopping", "writing")
    /\ UNCHANGED <<rows, file, dual, gate, status, persisted, requestVars,
                   enabled, prev, cand, same, broken, prevMode, boundVars,
                   historyVars>>

\* The kill is refused or the process does not exit within five seconds.
StopFails(c) ==
    /\ Inside(c, "stopping")
    /\ ~same[at]
    /\ Running(at)
    /\ Fault
    /\ Rollback(c)
    /\ UNCHANGED <<rows, engineVars, gate, status, persisted, requestVars,
                   enabled, prev, cand, same, broken, prevMode, edits,
                   historyVars>>

SkipStart(c) ==
    /\ Inside(c, "writing")
    /\ ~Wants(c, at) \/ same[at]
    /\ NextTarget(c, "writing", "verifying")
    /\ UNCHANGED <<rows, engineVars, gate, status, persisted, requestVars,
                   enabled, prev, cand, same, broken, prevMode, boundVars,
                   historyVars>>

\* engineAdapter.start up to the process: the file is replaced atomically.
WriteConfig(c) ==
    /\ Inside(c, "writing")
    /\ Wants(c, at)
    /\ ~same[at]
    /\ ~Running(at)
    /\ file' = [file EXCEPT ![at] = cand[at]]
    /\ dual' = [dual EXCEPT ![at] = WantsDual(c)]
    /\ Goto(c, "spawning")
    /\ UNCHANGED <<rows, proc, gate, status, persisted, requestVars, txVars,
                   boundVars, historyVars>>

WriteConfigFails(c) ==
    /\ Inside(c, "writing")
    /\ Wants(c, at)
    /\ ~same[at]
    /\ \/ Running(at) /\ NoFault
       \/ Fault
    /\ Rollback(c)
    /\ UNCHANGED <<rows, engineVars, gate, status, persisted, requestVars,
                   enabled, prev, cand, same, broken, prevMode, edits,
                   historyVars>>

\* startAndVerify: the process is still alive after the grace period.
Spawn(c) ==
    /\ Inside(c, "spawning")
    /\ ~Clashes(at, file[at])
    /\ proc' = [proc EXCEPT ![at] = file[at]]
    /\ NextTarget(c, "writing", "verifying")
    /\ UNCHANGED <<rows, file, dual, gate, status, persisted, requestVars,
                   enabled, prev, cand, same, broken, prevMode, boundVars,
                   historyVars>>

\* Validation fails, the binary does not start, or it exits at once, which
\* it does when a port is taken.
SpawnFails(c) ==
    /\ Inside(c, "spawning")
    /\ \/ Clashes(at, file[at]) /\ NoFault
       \/ Fault
    /\ Rollback(c)
    /\ UNCHANGED <<rows, engineVars, gate, status, persisted, requestVars,
                   enabled, prev, cand, same, broken, prevMode, edits,
                   historyVars>>

VerifyHolds(c) ==
    /\ \A e \in Engines : Wants(c, e) => Running(e)
    /\ \A i \in Inbounds : enabled[i] # "off" => ~gone[c]
    /\ \A i \in Inbounds : Probed(c, i) => Bound(i, enabled[i])

\* Verification and the commit that follows it without another check.
Verify(c) ==
    /\ Inside(c, "verifying")
    /\ VerifyHolds(c)
    /\ dual' = [e \in Engines |-> WantsDual(c)]
    /\ status' = [state |-> "applied", mode |-> mode[c]]
    /\ Goto(c, "persisting")
    /\ UNCHANGED <<rows, file, proc, gate, persisted, requestVars, txVars,
                   boundVars, historyVars>>

VerifyFails(c) ==
    /\ Inside(c, "verifying")
    /\ \/ ~VerifyHolds(c) /\ NoFault
       \/ Fault
    /\ Rollback(c)
    /\ UNCHANGED <<rows, engineVars, gate, status, persisted, requestVars,
                   enabled, prev, cand, same, broken, prevMode, edits,
                   historyVars>>

\* persistRuntimeMode: an error is returned but the status stays applied.
Persist(c) ==
    /\ Inside(c, "persisting")
    /\ persisted' = mode[c]
    /\ Return(c)
    /\ UNCHANGED <<rows, engineVars, status, boundVars>>

PersistFails(c) ==
    /\ Inside(c, "persisting")
    /\ Fault
    /\ Return(c)
    /\ UNCHANGED <<rows, engineVars, status, persisted, edits>>

-----------------------------------------------------------------------------
(* Backward: release every candidate port, then restore every old engine.  *)

RollbackStop(c) ==
    /\ Inside(c, "rb_stopping")
    /\ proc' = Halted
    /\ NextTarget(c, "rb_stopping", "rb_restoring")
    /\ UNCHANGED <<rows, file, dual, gate, status, persisted, requestVars,
                   enabled, prev, cand, same, broken, prevMode, boundVars,
                   historyVars>>

RollbackStopFails(c) ==
    /\ Inside(c, "rb_stopping")
    /\ ~same[at]
    /\ Running(at)
    /\ Fault
    /\ broken' = TRUE
    /\ NextTarget(c, "rb_stopping", "rb_restoring")
    /\ UNCHANGED <<rows, engineVars, gate, status, persisted, requestVars,
                   enabled, prev, cand, same, prevMode, edits, historyVars>>

SkipRestore(c) ==
    /\ Inside(c, "rb_restoring")
    /\ same[at]
    /\ NextTarget(c, "rb_restoring", "rb_done")
    /\ UNCHANGED <<rows, engineVars, gate, status, persisted, requestVars,
                   enabled, prev, cand, same, broken, prevMode, boundVars,
                   historyVars>>

\* engineAdapter.restore: stop, then mode, file and, if it ran, the process.
Restore(c) ==
    /\ Inside(c, "rb_restoring")
    /\ ~same[at]
    /\ prev[at].running => ~Clashes(at, prev[at].file)
    /\ dual' = [dual EXCEPT ![at] = prev[at].dual]
    /\ file' = [file EXCEPT ![at] = prev[at].file]
    /\ proc' = [proc EXCEPT ![at] = Relaunched]
    /\ NextTarget(c, "rb_restoring", "rb_done")
    /\ UNCHANGED <<rows, gate, status, persisted, requestVars, enabled, prev,
                   cand, same, broken, prevMode, boundVars, historyVars>>

\* The stop fails, the file cannot be put back, or the old engine does not
\* come up again.
RestoreFails(c) ==
    /\ Inside(c, "rb_restoring")
    /\ ~same[at]
    /\ broken' = TRUE
    /\ \/ /\ Running(at)
          /\ Fault
          /\ UNCHANGED engineVars
       \/ /\ Fault
          /\ dual' = [dual EXCEPT ![at] = prev[at].dual]
          /\ proc' = [proc EXCEPT ![at] = NoConfig]
          /\ UNCHANGED file
       \/ /\ prev[at].running
          /\ \/ Clashes(at, prev[at].file) /\ NoFault
             \/ Fault
          /\ dual' = [dual EXCEPT ![at] = prev[at].dual]
          /\ file' = [file EXCEPT ![at] = prev[at].file]
          /\ proc' = [proc EXCEPT ![at] = NoConfig]
    /\ NextTarget(c, "rb_restoring", "rb_done")
    /\ UNCHANGED <<rows, gate, status, persisted, requestVars, enabled, prev,
                   cand, same, prevMode, edits, historyVars>>

\* What ApplyRuntime tells the administrator after the rollback.
ReportRollback(c) ==
    /\ Inside(c, "rb_done")
    /\ status' = IF broken THEN [state |-> "rollback_failed", mode |-> mode[c]]
                           ELSE [state |-> "rolled_back", mode |-> prevMode]
    /\ Return(c)
    /\ UNCHANGED <<rows, engineVars, persisted, boundVars>>

-----------------------------------------------------------------------------
(* The environment.                                                        *)

\* An engine exits by itself; the waiting goroutine clears the command.
Crash(e) ==
    /\ Running(e)
    /\ Fault
    /\ proc' = [proc EXCEPT ![e] = NoConfig]
    /\ crashed' = IF gate = NoCaller THEN {} ELSE crashed \cup {e}
    /\ UNCHANGED <<rows, file, dual, gate, status, persisted, pc, requestVars,
                   txVars, edits, before, edited>>

\* Creating, changing, disabling or deleting an inbound touches no engine.
EditInbound(i) ==
    /\ edits < MaxEdits
    /\ edits' = edits + 1
    /\ \E p \in Protocols \cup {"off"} :
          /\ p # rows[i]
          /\ rows' = [rows EXCEPT ![i] = p]
    /\ edited' = (gate # NoCaller)
    /\ UNCHANGED <<engineVars, gate, status, persisted, pc, requestVars,
                   txVars, faults, before, crashed>>

\* The panel's process ends, engines and requests with it, and boots: every
\* engine that has work is started in dual mode, whatever mode was applied.
Restart ==
    /\ Fault
    /\ dual' = [e \in Engines |-> \E i \in Inbounds : rows[i] # "off"]
    /\ \E written \in SUBSET {e \in Engines : Wanted(e, rows, "auto")} :
          /\ file' = [e \in Engines |->
                        IF e \in written THEN Generate(e, rows, TRUE) ELSE file[e]]
          /\ \E up \in SUBSET written :
                proc' = [e \in Engines |-> IF e \in up THEN file'[e] ELSE NoConfig]
    /\ gate' = NoCaller
    /\ status' = [state |-> "idle", mode |-> NoMode]
    /\ pc' = [c \in Callers |-> "idle"]
    /\ mode' = [c \in Callers |-> "auto"]
    /\ force' = [c \in Callers |-> FALSE]
    /\ gone' = [c \in Callers |-> FALSE]
    /\ at' = "xray"
    /\ enabled' = [i \in Inbounds |-> "off"]
    /\ prev' = [e \in Engines |-> NoSnapshot]
    /\ cand' = [e \in Engines |-> NoConfig]
    /\ same' = [e \in Engines |-> FALSE]
    /\ broken' = FALSE
    /\ prevMode' = NoMode
    /\ before' = [e \in Engines |-> NoSnapshot]
    /\ crashed' = {}
    /\ edited' = FALSE
    /\ UNCHANGED <<rows, persisted, edits>>

-----------------------------------------------------------------------------
\* The steps of the goroutine inside the gate.
Step(c) ==
    \/ Load(c) \/ LoadFails(c)
    \/ Snapshot(c) \/ SnapshotFails(c)
    \/ Prepare(c) \/ PrepareFails(c)
    \/ Switch(c) \/ SwitchCancelled(c)
    \/ Stop(c) \/ StopFails(c)
    \/ SkipStart(c) \/ WriteConfig(c) \/ WriteConfigFails(c)
    \/ Spawn(c) \/ SpawnFails(c)
    \/ Verify(c) \/ VerifyFails(c)
    \/ Persist(c) \/ PersistFails(c)
    \/ RollbackStop(c) \/ RollbackStopFails(c)
    \/ SkipRestore(c) \/ Restore(c) \/ RestoreFails(c)
    \/ ReportRollback(c)

Environment ==
    \/ \E e \in Engines : Crash(e)
    \/ \E i \in Inbounds : EditInbound(i)
    \/ Restart

Next ==
    \/ \E c \in Callers :
          Call(c) \/ Cancel(c) \/ GiveUp(c) \/ Acquire(c) \/ Step(c)
    \/ Environment

Spec == Init /\ [][Next]_vars

(* A goroutine that can run does run.  A blocked channel sender is served  *)
(* in arrival order, so a waiting caller is not passed over for ever.      *)
Fairness ==
    \A c \in Callers : WF_vars(Step(c)) /\ SF_vars(Acquire(c))

FairSpec == Spec /\ Fairness

-----------------------------------------------------------------------------
(* Properties.                                                             *)

\* Every variable has its type.
TypeOK ==
    /\ rows \in Rows
    /\ file \in [Engines -> Rows \cup {NoConfig}]
    /\ proc \in [Engines -> Rows \cup {NoConfig}]
    /\ dual \in [Engines -> BOOLEAN]
    /\ gate \in Callers \cup {NoCaller}
    /\ status \in [state : States, mode : Modes \cup {NoMode}]
    /\ persisted \in Modes \cup {NoMode}
    /\ pc \in [Callers -> Phases]
    /\ mode \in [Callers -> Modes]
    /\ force \in [Callers -> BOOLEAN]
    /\ gone \in [Callers -> BOOLEAN]
    /\ at \in Engines
    /\ enabled \in Rows
    /\ prev \in [Engines -> Snapshots]
    /\ cand \in [Engines -> Rows \cup {NoConfig}]
    /\ same \in [Engines -> BOOLEAN]
    /\ broken \in BOOLEAN
    /\ prevMode \in Modes \cup {NoMode}
    /\ faults \in 0 .. MaxFaults
    /\ edits \in 0 .. MaxEdits
    /\ before \in [Engines -> Snapshots]
    /\ crashed \in SUBSET Engines
    /\ edited \in BOOLEAN

Phase == IF gate = NoCaller THEN "idle" ELSE pc[gate]

\* Exactly the holder of runtimeGate is past waiting: no return path of
\* ApplyRuntime leaves the gate taken or gives up somebody else's.
GateExclusive == \A c \in Callers : pc[c] \in Outside <=> gate # c

\* What a live engine serves is what its file says, so that the snapshot,
\* which reads the file, describes the process it stands for.
RunningServesFile == \A e \in Engines : Running(e) => proc[e] = file[e]

\* An engine whose target is unchanged keeps its file, its mode and, unless
\* it exits by itself, its process and its users' connections, even when the
\* other engine fails and is rolled back.
UnchangedIsLeftAlone ==
    Phase \in Forward \cup Backward =>
        \A e \in Engines :
            same[e] =>
                /\ file[e] = prev[e].file
                /\ dual[e] = prev[e].dual
                /\ Running(e) => prev[e].running
                /\ prev[e].running => Running(e) \/ e \in crashed

\* Whenever an engine is about to be started, for a candidate or in a
\* rollback, the other one has already released the ports it needs; only a
\* stop that failed, and was counted as a rollback error, excuses a clash.
PortsReleased ==
    /\ Phase = "spawning" => ~Clashes(at, file[at])
    /\ Phase = "rb_restoring" /\ ~same[at] /\ prev[at].running /\ ~broken =>
            ~Clashes(at, prev[at].file)

\* Engine e's file and mode are what they were when the gate was acquired.
FileKept(e) == file[e] = before[e].file
ModeKept(e) == dual[e] = before[e].dual

\* It runs if it ran then, unless it exited by itself, and only if it ran.
ProcessKept(e) ==
    /\ Running(e) => before[e].running
    /\ before[e].running => Running(e) \/ e \in crashed

Kept(e) == FileKept(e) /\ ModeKept(e) /\ ProcessKept(e)

\* The code's snapshot of e agrees with that moment too.
Snapshotted(e) ==
    /\ prev[e].file = before[e].file
    /\ prev[e].dual = before[e].dual
    /\ prev[e].running => before[e].running /\ prev[e].file # NoConfig
    /\ before[e].running => prev[e].running \/ e \in crashed

\* Why a rollback can succeed, phase by phase: the preflight disturbs nothing
\* but the mode of the engine being prepared, the snapshots are those of the
\* state before the apply, unchanged engines stay as they were, and an engine
\* the rollback has passed without an error is back in its old state.
RollbackInv ==
    /\ Phase \in {"idle", "loading"} => at = "xray"
    /\ Phase \in Preflight => \A e \in Engines : FileKept(e) /\ ProcessKept(e)
    /\ Phase \in Preflight =>
          \A e \in Engines : ModeKept(e) \/ (Phase = "preparing" /\ e = at)
    /\ Phase = "preparing" => Snapshotted(at)
    /\ Phase \in {"snapshot", "preparing"} /\ at = "singbox" => Snapshotted("xray")
    /\ Phase \in {"switching"} \cup Forward \cup Backward =>
          \A e \in Engines : Snapshotted(e)
    /\ Phase \in Forward \cup Backward => \A e \in Engines : same[e] => Kept(e)
    /\ Phase = "spawning" => ~same[at]
    /\ Phase = "rb_restoring" /\ at = "singbox" /\ ~broken => Kept("xray")
    /\ Phase = "rb_done" /\ ~broken => \A e \in Engines : Kept(e)
    /\ status.state = "applying" <=> Phase \notin {"idle", "persisting"}

\* A step by which the gate holder reports state s.
Reports(s) == status' # status /\ status'.state = s

\* An apply that reports failed or rolled_back leaves the previous files and
\* modes, whatever the table says by now, and the previous engines running,
\* except one that exited by itself in the meantime.
AbortRestores ==
    [][Reports("failed") \/ Reports("rolled_back") =>
          \A e \in Engines :
              /\ file'[e] = before[e].file
              /\ dual'[e] = before[e].dual
              /\ proc'[e] # NoConfig => before[e].running
              /\ before[e].running => proc'[e] # NoConfig \/ e \in crashed]_vars

\* An apply that reports applied, with no edit since it loaded the table,
\* leaves running exactly the engines the mode wants, each serving exactly
\* its share of the enabled inbounds.
AppliedServesTable ==
    [][Reports("applied") /\ ~edited =>
          \A e \in Engines :
              /\ Running(e) <=> Wanted(e, rows, status'.mode)
              /\ Running(e) => proc[e] = Generate(e, rows, status'.mode = "auto")]_vars

\* Every request that reaches the gate is answered: no path keeps the gate
\* for ever and no waiting caller is forgotten.
EveryCallReturns == \A c \in Callers : pc[c] = "waiting" ~> pc[c] = "idle"

\* Files and modes as a reader of the transaction sees them: those from
\* before it until its outcome is reported.
Installed ==
    [e \in Engines |->
        IF Phase \in {"idle", "persisting"} THEN <<file[e], dual[e]>>
                                            ELSE <<before[e].file, before[e].dual>>]

Txn == INSTANCE RuntimeTxn WITH
    Runtimes <- [Engines -> (Rows \cup {NoConfig}) \X BOOLEAN],
    installed <- Installed,
    verdict <- status.state

\* ApplyRuntime implements an all-or-nothing transaction on files and modes.
ImplementsTxn == Txn!Spec
=============================================================================
