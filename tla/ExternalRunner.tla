--------------------------- MODULE ExternalRunner ---------------------------
(***************************************************************************)
(* The proxy runtime when the cores run in a container of their own        *)
(* (ZENITH_PROXY_RUNTIME=external): transitionExternalRuntime and the      *)
(* external branch of ApplyRuntime in service/proxy/runtime.go, the        *)
(* readiness checks of external_runtime.go and the runner's shell script   *)
(* scripts/proxy-runner.sh.                                                *)
(*                                                                         *)
(* The panel and the runner share nothing but files: a configuration and   *)
(* an enabled marker per engine, and a marker holding the revision the     *)
(* panel last applied.  The runner reads them whenever it starts, which is *)
(* when the panel restarts it and when Docker restarts it by itself after  *)
(* an engine has exited.  runtimeGate (see ProxyRuntime) admits one apply  *)
(* at a time, so there is one transaction here; the panel can die in it.   *)
(***************************************************************************)
EXTENDS Naturals

CONSTANTS
    Inbounds,     \* rows of the inbounds table
    StartRows,    \* inbound tables the runs start from
    ApplyModes,   \* engine modes an administrator asks for
    MaxFaults,    \* bound on failures injected into the panel, Docker and the runner
    MaxEdits      \* bound on edits of the inbounds table

ASSUME RunnerBounds == MaxFaults \in Nat /\ MaxEdits \in Nat
ASSUME RunnerModes == ApplyModes \subseteq {"auto", "xray", "singbox"}

Engines == {"xray", "singbox"}
EngineAfter(e) == IF e = "xray" THEN "singbox" ELSE "end"

Protocols == {"vless", "hysteria2"}
Rows == [Inbounds -> Protocols \cup {"off"}]
NoConfig == [i \in {} |-> "off"]
IsXraySupported(p) == p = "vless"

ASSUME RunnerRows == StartRows \subseteq Rows

VARIABLES
    rows,      \* inbounds table
    files,     \* shared volume: conf[e], marker[e] and the managed revision
    up,        \* the runner container is running
    live,      \* live[e]: configuration the engine in the runner loaded
    saved,     \* settings proxy_runtime_mode and external_runtime_revision
    phase,     \* step of the transaction inside runtimeGate
    at,        \* engine its loop has reached
    mode, enabled, snap, cand,   \* its locals
    state,     \* RuntimeStatus.State
    faults, edits,
    unsure     \* history: the files were left to somebody else half written

runnerVars == <<rows, files, up, live, saved, phase, at, mode, enabled, snap,
                cand, state, edits, unsure>>

-----------------------------------------------------------------------------
NoRevision == [mode |-> "none", cand |-> [e \in Engines |-> NoConfig]]

\* wantXray and wantSingbox.
Wanted(e, table, m) ==
    \E i \in Inbounds :
        /\ table[i] # "off"
        /\ IF m = "singbox" THEN e = "singbox"
           ELSE \/ e = "xray" /\ IsXraySupported(table[i])
                \/ e = "singbox" /\ m = "auto" /\ ~IsXraySupported(table[i])

\* Which rows an engine's generator keeps in mode m (dual when m is auto).
Generated(e, table, m) ==
    [i \in Inbounds |->
        IF \/ e = "xray" /\ IsXraySupported(table[i])
           \/ e = "singbox" /\ (m = "auto" => ~IsXraySupported(table[i]))
        THEN table[i] ELSE "off"]

\* What the runner script starts, given the files it finds.
Boot(f) == [e \in Engines |-> IF f.marker[e] THEN f.conf[e] ELSE NoConfig]
CanBoot(f) == \A e \in Engines : f.marker[e] => f.conf[e] # NoConfig

Stopped == [e \in Engines |-> NoConfig]
EngineRunning(e) == up /\ live[e] # NoConfig

Listening(i) ==
    up /\ \E e \in Engines : live[e] # NoConfig /\ live[e][i] = enabled[i]

\* verifyExternalRuntime: wanted engines run and enabled inbounds answer.
VerifiedEngines == \A e \in Engines : Wanted(e, enabled, mode) => EngineRunning(e)
Verified ==
    /\ \A e \in Engines : Wanted(e, enabled, mode) => EngineRunning(e)
    /\ \A i \in Inbounds :
         \/ enabled[i] = "off"
         \/ mode = "xray" /\ ~IsXraySupported(enabled[i])
         \/ Listening(i)

Revision == [mode |-> mode, cand |-> cand]

\* RequireExternalRuntimeReady, asked before the panel container is replaced.
SavedMode == IF saved.mode = "none" THEN "auto" ELSE saved.mode
ReadyWithoutMarker ==
    up /\ \A e \in Engines : Wanted(e, rows, SavedMode) => EngineRunning(e)
Ready ==
    /\ up
    /\ files.managed # NoRevision
    /\ files.managed = saved.revision
    /\ \A e \in Engines : Wanted(e, rows, SavedMode) => EngineRunning(e)

-----------------------------------------------------------------------------
RunnerInit ==
    /\ rows \in StartRows
    /\ files = [conf |-> Stopped, marker |-> [e \in Engines |-> FALSE],
                managed |-> NoRevision]
    /\ up = TRUE
    /\ live = Stopped
    /\ saved = [mode |-> "none", revision |-> NoRevision]
    /\ phase = "idle"
    /\ at = "xray"
    /\ mode = "auto"
    /\ enabled = rows
    /\ snap = files
    /\ cand = Stopped
    /\ state = "idle"
    /\ faults = 0
    /\ edits = 0
    /\ unsure = FALSE

Fault == faults < MaxFaults /\ faults' = faults + 1

ContainerVars == <<files, up, live>>
LocalVars == <<mode, enabled, snap, cand>>

\* ApplyRuntime passes the gate and loads the enabled inbounds.
Apply(m) ==
    /\ phase = "idle"
    /\ phase' = "inspect" /\ at' = "xray" /\ mode' = m /\ enabled' = rows
    /\ cand' = Stopped /\ state' = "applying" /\ snap' = files
    /\ UNCHANGED <<rows, ContainerVars, saved, faults, edits, unsure>>

\* Nothing was touched yet: the request ends with an error.
Refuse ==
    /\ phase \in {"inspect", "prepare"}
    /\ IF up THEN Fault ELSE UNCHANGED faults
    /\ phase' = "idle" /\ state' = "failed"
    /\ UNCHANGED <<rows, ContainerVars, saved, at, LocalVars, edits, unsure>>

\* RequireExternalRuntimeTopology, then a snapshot of every file.
Inspect ==
    /\ phase = "inspect" /\ up
    /\ snap' = files /\ phase' = "prepare"
    /\ UNCHANGED <<rows, ContainerVars, saved, at, mode, enabled, cand, state,
                   faults, edits, unsure>>

\* prepareExternalCandidate: generate from the rows as they are now and let
\* the runner's own binary validate.
Prepare ==
    /\ phase = "prepare" /\ at # "end"
    /\ IF Wanted(at, enabled, mode)
       THEN up /\ cand' = [cand EXCEPT ![at] = Generated(at, rows, mode)]
       ELSE UNCHANGED cand
    /\ at' = EngineAfter(at)
    /\ UNCHANGED <<rows, ContainerVars, saved, phase, mode, enabled, snap, state,
                   faults, edits, unsure>>

StartWriting ==
    /\ phase = "prepare" /\ at = "end"
    /\ phase' = "conf" /\ at' = "xray"
    /\ UNCHANGED <<rows, ContainerVars, saved, LocalVars, state, faults, edits, unsure>>

WriteConfig ==
    /\ phase = "conf"
    /\ files' = IF cand[at] # NoConfig THEN [files EXCEPT !.conf[at] = cand[at]] ELSE files
    /\ phase' = "marker"
    /\ UNCHANGED <<rows, up, live, saved, at, LocalVars, state, faults, edits, unsure>>

WriteMarker ==
    /\ phase = "marker"
    /\ files' = [files EXCEPT !.marker[at] = cand[at] # NoConfig]
    /\ at' = EngineAfter(at)
    /\ phase' = IF EngineAfter(at) = "end" THEN "managed" ELSE "conf"
    /\ UNCHANGED <<rows, up, live, saved, LocalVars, state, faults, edits, unsure>>

MarkManaged ==
    /\ phase = "managed"
    /\ files' = [files EXCEPT !.managed = Revision]
    /\ phase' = "restart"
    /\ UNCHANGED <<rows, up, live, saved, at, LocalVars, state, faults, edits, unsure>>

Restarted(f) == up' = CanBoot(f) /\ live' = IF CanBoot(f) THEN Boot(f) ELSE Stopped

RestartRunner ==
    /\ phase = "restart"
    /\ Restarted(files)
    /\ phase' = "verify"
    /\ UNCHANGED <<rows, files, saved, at, LocalVars, state, faults, edits, unsure>>

\* A file cannot be written, or the request is cancelled between engines.
WriteFails ==
    /\ phase \in {"conf", "marker", "managed"}
    /\ IF phase = "conf" THEN UNCHANGED faults ELSE Fault
    /\ phase' = "undo"
    /\ UNCHANGED <<rows, ContainerVars, saved, at, LocalVars, state, edits, unsure>>

RestartFails ==
    /\ phase = "restart" /\ Fault
    /\ \/ UNCHANGED <<up, live>>
       \/ up' = FALSE /\ live' = Stopped
    /\ phase' = "undo_restart"
    /\ UNCHANGED <<rows, files, saved, at, LocalVars, state, edits, unsure>>

Verify ==
    /\ phase = "verify"
    /\ phase' = IF Verified THEN "persist" ELSE "undo_restart"
    /\ UNCHANGED <<rows, ContainerVars, saved, at, LocalVars, state, faults, edits, unsure>>

\* persistExternalRuntimeRevision: mode and revision in one transaction.
PersistModeLater ==
    /\ phase = "persist"
    /\ saved' = [saved EXCEPT !.revision = Revision]
    /\ phase' = "idle" /\ state' = "applied" /\ unsure' = FALSE
    /\ UNCHANGED <<rows, ContainerVars, at, LocalVars, faults, edits>>
Persist ==
    /\ phase = "persist"
    /\ saved' = [mode |-> mode, revision |-> Revision]
    /\ phase' = "idle" /\ state' = "applied" /\ unsure' = FALSE
    /\ UNCHANGED <<rows, ContainerVars, at, LocalVars, faults, edits>>

\* The runner serves the revision but the database does not name it: the
\* marker is removed so that no update is accepted.
PersistFails ==
    /\ phase = "persist" /\ Fault
    /\ \E removed \in BOOLEAN :
         files' = IF removed THEN [files EXCEPT !.managed = NoRevision] ELSE files
    /\ phase' = "idle" /\ state' = "applied_unpersisted"
    /\ UNCHANGED <<rows, up, live, saved, at, LocalVars, edits, unsure>>

\* restore(cause, restart)
RestoreConfigsOnly ==
    /\ phase \in {"undo", "undo_restart"}
    /\ files' = [snap EXCEPT !.marker = files.marker]
    /\ phase' = IF phase = "undo" THEN "idle" ELSE "recover"
    /\ state' = IF phase = "undo" THEN "failed" ELSE state
    /\ UNCHANGED <<rows, up, live, saved, at, LocalVars, faults, edits, unsure>>
RestoreFiles ==
    /\ phase \in {"undo", "undo_restart"}
    /\ files' = snap
    /\ phase' = IF phase = "undo" THEN "idle" ELSE "recover"
    /\ state' = IF phase = "undo" THEN "failed" ELSE state
    /\ UNCHANGED <<rows, up, live, saved, at, LocalVars, faults, edits, unsure>>

\* Some file cannot be put back: the runner is not restarted.
RestoreFails ==
    /\ phase \in {"undo", "undo_restart"} /\ Fault
    /\ \E kept \in {"managed", "conf", "marker"} :
         files' = [snap EXCEPT ![kept] = files[kept]]
    /\ phase' = "idle" /\ state' = "failed" /\ unsure' = TRUE
    /\ UNCHANGED <<rows, up, live, saved, at, LocalVars, edits>>

Recover ==
    /\ phase = "recover"
    /\ Restarted(files)
    /\ phase' = "idle" /\ state' = "failed"
    /\ UNCHANGED <<rows, files, saved, at, LocalVars, faults, edits, unsure>>

RecoverFails ==
    /\ phase = "recover" /\ Fault
    /\ phase' = "idle" /\ state' = "failed" /\ unsure' = TRUE
    /\ UNCHANGED <<rows, ContainerVars, saved, at, LocalVars, edits>>

\* An engine exits: the script exits with it and takes the other one along.
EngineExits ==
    /\ up /\ (\E e \in Engines : live[e] # NoConfig) /\ Fault
    /\ up' = FALSE /\ live' = Stopped
    /\ UNCHANGED <<rows, files, saved, phase, at, LocalVars, state, edits, unsure>>

\* Docker restarts the runner, which reads whatever is on the volume by now.
Writing == phase \in {"marker", "conf", "managed", "restart", "undo", "undo_restart"}
RunnerStarts ==
    /\ ~up /\ CanBoot(files)
    /\ Restarted(files)
    /\ unsure' = (unsure \/ Writing)
    /\ UNCHANGED <<rows, files, saved, phase, at, LocalVars, state, faults, edits>>

\* The panel process dies: the transaction and the status die with it.
PanelDies ==
    /\ phase' = "idle" /\ state' = "idle"
    /\ unsure' = (unsure \/ Writing \/ phase \in {"verify", "recover"})
    /\ UNCHANGED <<rows, ContainerVars, saved, at, LocalVars, edits>>

EditRow ==
    /\ edits < MaxEdits /\ edits' = edits + 1
    /\ \E i \in Inbounds, p \in Protocols \cup {"off"} :
         p # rows[i] /\ rows' = [rows EXCEPT ![i] = p]
    /\ UNCHANGED <<ContainerVars, saved, phase, at, LocalVars, state, faults, unsure>>

Transaction ==
    \/ Refuse \/ Inspect \/ Prepare \/ StartWriting \/ WriteConfig \/ WriteMarker
    \/ MarkManaged \/ RestartRunner \/ WriteFails \/ RestartFails \/ Verify
    \/ Persist \/ PersistFails \/ RestoreFiles \/ RestoreFails \/ Recover \/ RecoverFails

RunnerNext ==
    \/ \E m \in ApplyModes : Apply(m)
    \/ Transaction
    \/ EngineExits \/ RunnerStarts \/ EditRow
    \/ PanelDies /\ Fault

RunnerSpec == RunnerInit /\ [][RunnerNext]_<<runnerVars, faults>>

-----------------------------------------------------------------------------
(* Properties of the runner and its transaction.                           *)

\* When the updater's readiness check passes and no apply is under way, what
\* the runner serves, and would serve if Docker restarted it, is the revision
\* and mode the database names.  Excepted is what nobody repairs: a panel that
\* died, a runner that booted, or a restoration that failed in the middle.
ReadyServesRevision ==
    Ready /\ phase = "idle" /\ ~unsure =>
        /\ Boot(files) = saved.revision.cand
        /\ live = saved.revision.cand
        /\ saved.mode = saved.revision.mode

\* An apply that failed and could restore leaves every file as it found it,
\* and what the runner runs is what those files say.
FailedApplyLeavesFiles ==
    phase = "idle" /\ state = "failed" /\ ~unsure =>
        /\ files = snap
        /\ up => live = Boot(files)

\* After a reported success the runner serves, or is about to serve again,
\* every inbound that was enabled when the apply loaded them.
AppliedIsServed ==
    phase = "idle" /\ state = "applied" /\ up =>
        \A i \in Inbounds :
            \/ enabled[i] = "off"
            \/ mode = "xray" /\ ~IsXraySupported(enabled[i])
            \/ Listening(i)
=============================================================================
