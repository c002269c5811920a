-------------------------- MODULE PanelUpdateProofs --------------------------
(***************************************************************************)
(* Proofs about ExternalRunner for any inbounds, modes and bounds, and     *)
(* about PanelUpdate, which is composed with it, for any containers,       *)
(* images, requests, runner names and bounds.                              *)
(*                                                                         *)
(* The runner: while a transaction writes, the snapshot stands for what    *)
(* the runner runs (Undisturbed) and the files approach the candidate      *)
(* engine by engine (Progress), so either of its ends leaves files that    *)
(* say what the runner serves; the marker names a revision only if they    *)
(* do (Marked).                                                            *)
(*                                                                         *)
(* The updates: as long as no request meets another, a helper at work or   *)
(* a crash (~spoilt), the panel containers pass through a few layouts, one *)
(* per step of the request and of the helper's script: alone, renamed,     *)
(* beside the successor, alone again (Orderly).  Which images there are    *)
(* (ImagesInv) and that an update leaves the runner alone (NameInv) does   *)
(* not depend on that.  The runner's own invariant survives everything an  *)
(* update does (RunnerUnderUpdates).                                       *)
(***************************************************************************)
EXTENDS PanelUpdate, TLAPS

-----------------------------------------------------------------------------
(* The external runner, as ExternalRunner specifies it.                    *)

Modes == {"auto", "xray", "singbox"}
Config == Rows \cup {NoConfig}
Configs == [Engines -> Config]
Revisions == [mode : Modes \cup {"none"}, cand : Configs]
Files == [conf : Configs, marker : [Engines -> BOOLEAN], managed : Revisions]
Phases == {"idle", "inspect", "prepare", "conf", "marker", "managed", "restart", "verify", "persist",
           "undo", "undo_restart", "recover"}

TypeInv ==
    /\ rows \in Rows /\ files \in Files /\ snap \in Files
    /\ up \in BOOLEAN /\ live \in Configs /\ cand \in Configs
    /\ saved \in [mode : Modes \cup {"none"}, revision : Revisions]
    /\ phase \in Phases /\ mode \in Modes /\ unsure \in BOOLEAN
    /\ at \in Engines \cup {"end"} /\ (phase \in {"conf", "marker"} => at \in Engines)

\* The files of engine e are those of the candidate.
Done(e) ==
    /\ files.marker[e] = (cand[e] # NoConfig)
    /\ cand[e] # NoConfig => files.conf[e] = cand[e]
AllDone == Done("xray") /\ Done("singbox")

\* Whatever was enabled when the apply began is in the candidate.
CandidateServes ==
    \A i \in Inbounds :
        \/ enabled[i] = "off"
        \/ mode = "xray" /\ ~IsXraySupported(enabled[i])
        \/ \E e \in Engines : cand[e] # NoConfig /\ cand[e][i] = enabled[i]

\* How far the transaction has come.
Progress ==
    /\ phase \in {"conf", "marker"} /\ at = "singbox" => Done("xray")
    /\ phase = "marker" => (cand[at] # NoConfig => files.conf[at] = cand[at])
    /\ phase \in {"managed", "restart", "verify", "persist"} => AllDone
    /\ phase \in {"restart", "verify", "persist"} => files.managed = Revision
    /\ phase \in {"verify", "persist"} /\ up => live = Boot(files)
    /\ phase = "persist" => CandidateServes
    /\ phase \in {"inspect", "prepare", "recover"} => files = snap

\* A marker that names a revision stands beside the files of that revision.
Marked(f) == f.managed = NoRevision \/ Boot(f) = f.managed.cand

\* Where the files were not left to somebody else half written: what the runner
\* runs is in the files, or in the snapshot while they are being rewritten.
Undisturbed ==
    ~unsure =>
        /\ phase \in {"idle", "inspect", "prepare"} => Marked(files) /\ (up => live = Boot(files))
        /\ phase \notin {"idle", "inspect"} => Marked(snap)
        /\ phase \in {"conf", "marker", "managed", "restart", "undo"} /\ up => live = Boot(snap)
        /\ phase = "idle" /\ state = "failed" => files = snap

\* The revision the database names has the mode it names.
SavedAgrees == saved.revision = NoRevision \/ saved.mode = saved.revision.mode

\* After a success the files are the candidate's.
Applied ==
    state = "applied" =>
        phase = "idle" /\ AllDone /\ CandidateServes /\ (up => live = Boot(files))

\* The inductive invariant.
RunnerInv == TypeInv /\ Progress /\ Undisturbed /\ SavedAgrees /\ Applied

-----------------------------------------------------------------------------
\* What the runner starts from well-typed files.
LEMMA RestartTypes ==
    ASSUME NEW f \in Files
    PROVE  CanBoot(f) \in BOOLEAN /\ Boot(f) \in Configs /\ Stopped \in Configs
BY DEF Files, Configs, Config, Boot, CanBoot, Stopped

\* The absent revision is one.
LEMMA NoRevisionType == NoRevision \in Revisions
BY DEF NoRevision, Revisions, Configs, Config

\* Files that are the candidate's are what the runner starts.
LEMMA CandidateBoots ==
    ASSUME TypeInv, AllDone
    PROVE  Boot(files) = cand
<1>1. \A e \in Engines : Boot(files)[e] = cand[e]
    BY DEF TypeInv, Files, Configs, AllDone, Done, Boot, Engines
<1>2. Boot(files) \in [Engines -> Config] /\ cand \in [Engines -> Config]
    BY RestartTypes DEF TypeInv, Configs
<1> QED BY <1>1, <1>2

\* Every step keeps the types.
LEMMA TypeStep ==
    ASSUME RunnerInv, RunnerNext
    PROVE  TypeInv'
<1> USE DEF ContainerVars, LocalVars, Fault
<1>0. TypeInv
    BY DEF RunnerInv
<1>1. ASSUME NEW m \in ApplyModes, Apply(m)
      PROVE  TypeInv'
    <2>1. Stopped \in Configs /\ m \in Modes
        BY <1>1, RunnerModes DEF Stopped, Configs, Config, Modes
    <2> QED BY <1>0, <1>1, <2>1 DEF Apply, TypeInv, Phases, Engines
<1>2. CASE Refuse
    BY <1>0, <1>2 DEF Refuse, TypeInv, Phases
<1>3. CASE Inspect
    BY <1>0, <1>3 DEF Inspect, TypeInv, Phases
<1>4. CASE Prepare
    <2>1. CASE Wanted(at, enabled, mode)
        <3>1. at \in Engines /\ Generated(at, rows, mode) \in Config
            BY <1>0, <1>4 DEF Prepare, TypeInv, Generated, Rows, Config, Engines, Protocols
        <3>2. cand' \in Configs
            BY <1>0, <2>1, <3>1, <1>4 DEF Prepare, TypeInv, Configs
        <3> QED BY <1>0, <3>1, <3>2, <1>4 DEF Prepare, TypeInv, EngineAfter, Engines
    <2>2. CASE ~Wanted(at, enabled, mode)
        BY <1>0, <2>2, <1>4 DEF Prepare, TypeInv, EngineAfter, Engines
    <2> QED BY <2>1, <2>2
<1>5. CASE StartWriting
    BY <1>0, <1>5 DEF StartWriting, TypeInv, Phases, Engines
<1>6. CASE WriteConfig
    <2>1. files' \in Files
        BY <1>0, <1>6 DEF WriteConfig, TypeInv, Files, Configs
    <2> QED BY <1>0, <2>1, <1>6 DEF WriteConfig, TypeInv, Phases
<1>7. CASE WriteMarker
    <2>1. files' \in Files
        BY <1>0, <1>7 DEF WriteMarker, TypeInv, Files
    <2> QED BY <1>0, <2>1, <1>7 DEF WriteMarker, TypeInv, Phases, EngineAfter, Engines
<1>8. CASE MarkManaged
    <2>1. files' \in Files
        BY <1>0, <1>8 DEF MarkManaged, TypeInv, Files, Revision, Revisions
    <2> QED BY <1>0, <2>1, <1>8 DEF MarkManaged, TypeInv, Phases
<1>9. CASE RestartRunner
    <2>1. up' \in BOOLEAN /\ live' \in Configs
        BY <1>0, <1>9, RestartTypes DEF RestartRunner, Restarted, TypeInv
    <2> QED BY <1>0, <2>1, <1>9 DEF RestartRunner, TypeInv, Phases
<1>10. CASE WriteFails
    BY <1>0, <1>10 DEF WriteFails, TypeInv, Phases
<1>11. CASE RestartFails
    BY <1>0, <1>11 DEF RestartFails, TypeInv, Phases, Stopped, Configs, Config
<1>12. CASE Verify
    BY <1>0, <1>12 DEF Verify, TypeInv, Phases
<1>13. CASE Persist
    BY <1>0, <1>13 DEF Persist, TypeInv, Phases, Revision, Revisions
<1>14. CASE PersistFails
    <2>1. files' \in Files
        BY <1>0, <1>14, NoRevisionType DEF PersistFails, TypeInv, Files
    <2> QED BY <1>0, <2>1, <1>14 DEF PersistFails, TypeInv, Phases
<1>15. CASE RestoreFiles
    BY <1>0, <1>15 DEF RestoreFiles, TypeInv, Phases
<1>16. CASE RestoreFails
    <2>1. files' \in Files
        BY <1>0, <1>16 DEF RestoreFails, TypeInv, Files
    <2> QED BY <1>0, <2>1, <1>16 DEF RestoreFails, TypeInv, Phases
<1>17. CASE Recover
    <2>1. up' \in BOOLEAN /\ live' \in Configs
        BY <1>0, <1>17, RestartTypes DEF Recover, Restarted, TypeInv
    <2> QED BY <1>0, <2>1, <1>17 DEF Recover, TypeInv, Phases
<1>18. CASE RecoverFails
    BY <1>0, <1>18 DEF RecoverFails, TypeInv, Phases
<1>19. CASE EngineExits
    BY <1>0, <1>19 DEF EngineExits, TypeInv, Phases, Stopped, Configs, Config
<1>20. CASE RunnerStarts
    <2>1. up' \in BOOLEAN /\ live' \in Configs
        BY <1>0, <1>20, RestartTypes DEF RunnerStarts, Restarted, TypeInv
    <2> QED BY <1>0, <2>1, <1>20 DEF RunnerStarts, TypeInv, Phases, Writing
<1>21. CASE PanelDies
    BY <1>0, <1>21 DEF PanelDies, Writing, TypeInv, Phases
<1>22. CASE EditRow
    BY <1>0, <1>22 DEF EditRow, TypeInv, Rows
<1> QED BY <1>1, <1>2, <1>3, <1>4, <1>5, <1>6, <1>7, <1>8, <1>9, <1>10, <1>11, <1>12, <1>13,
        <1>14, <1>15, <1>16, <1>17, <1>18, <1>19, <1>20, <1>21, <1>22 DEF RunnerNext,
        Transaction

\* Every step keeps the account of the transaction.
LEMMA ProgressStep ==
    ASSUME RunnerInv, RunnerNext
    PROVE  Progress'
<1> USE DEF ContainerVars, LocalVars, Fault
<1>0. TypeInv /\ Progress
    BY DEF RunnerInv
<1>1. ASSUME NEW m \in ApplyModes, Apply(m)
      PROVE  Progress'
    BY <1>0, <1>1 DEF Apply, Progress, TypeInv, Phases
<1>2. CASE Refuse
    BY <1>0, <1>2 DEF Refuse, Progress, TypeInv, Phases
<1>3. CASE Inspect
    BY <1>0, <1>3 DEF Inspect, Progress, TypeInv, Phases
<1>4. CASE Prepare
    BY <1>0, <1>4 DEF Prepare, Progress, TypeInv, Phases
<1>5. CASE StartWriting
    BY <1>0, <1>5 DEF StartWriting, Progress, TypeInv, Phases
<1>6. CASE WriteConfig
    <2>1. CASE cand[at] = NoConfig
        BY <1>0, <2>1, <1>6 DEF WriteConfig, Progress, Done
    <2>2. CASE cand[at] # NoConfig
        <3>1. at \in Engines /\ files'.conf = [files.conf EXCEPT ![at] = cand[at]] /\ files'.marker = files.marker
            BY <1>0, <2>2, <1>6 DEF WriteConfig, TypeInv, Files
        <3>2. files'.conf[at] = cand[at] /\ (at = "singbox" => files'.conf["xray"] = files.conf["xray"])
            BY <1>0, <3>1 DEF TypeInv, Files, Configs, Engines
        <3> QED BY <1>0, <3>1, <3>2, <1>6 DEF WriteConfig, Progress, Done
    <2> QED BY <2>1, <2>2
<1>7. CASE WriteMarker
    <2>1. at \in Engines /\ files'.marker = [files.marker EXCEPT ![at] = cand[at] # NoConfig] /\ files'.conf = files.conf
        BY <1>0, <1>7 DEF WriteMarker, TypeInv, Files
    <2>2. files'.marker[at] = (cand[at] # NoConfig) /\ (at = "singbox" => files'.marker["xray"] = files.marker["xray"])
        BY <1>0, <2>1 DEF TypeInv, Files, Engines
    <2>3. (at = "xray" => Done("xray")') /\ (at = "singbox" => Done("xray")' /\ Done("singbox")')
        BY <1>0, <2>1, <2>2, <1>7 DEF WriteMarker, Progress, Done
    <2> QED BY <1>0, <2>1, <2>3, <1>7 DEF WriteMarker, Progress, AllDone, EngineAfter, Engines
<1>8. CASE MarkManaged
    <2>1. files'.marker = files.marker /\ files'.conf = files.conf /\ files'.managed = Revision
        BY <1>0, <1>8 DEF MarkManaged, TypeInv, Files
    <2> QED BY <1>0, <2>1, <1>8 DEF MarkManaged, Progress, AllDone, Done, Revision
<1>9. CASE RestartRunner
    BY <1>0, <1>9 DEF RestartRunner, Restarted, Progress, AllDone, Done, CandidateServes,
            Revision, TypeInv, Phases
<1>10. CASE WriteFails
    BY <1>0, <1>10 DEF WriteFails, Progress, TypeInv, Phases
<1>11. CASE RestartFails
    BY <1>0, <1>11 DEF RestartFails, Progress, TypeInv, Phases
<1>12. CASE Verify
    <2>1. phase' \in {"persist", "undo_restart"} /\ UNCHANGED <<files, cand, mode, enabled, live, up, snap>>
        BY <1>12 DEF Verify
    <2>2. ASSUME phase' = "persist" PROVE CandidateServes'
        <3>1. Verified /\ phase = "verify"
            BY <2>2, <1>12 DEF Verify
        <3>2. up => live = cand
            BY <1>0, <3>1, CandidateBoots DEF Progress, TypeInv
        <3>3. CandidateServes
            BY <3>1, <3>2 DEF Verified, Listening, CandidateServes
        <3> QED BY <2>1, <3>3 DEF CandidateServes
    <2> QED BY <1>0, <2>1, <2>2, <1>12 DEF Verify, Progress, AllDone, Done, Revision
<1>13. CASE Persist
    BY <1>0, <1>13 DEF Persist, Progress, TypeInv, Phases
<1>14. CASE PersistFails
    BY <1>0, <1>14 DEF PersistFails, Progress, TypeInv, Phases
<1>15. CASE RestoreFiles
    BY <1>0, <1>15 DEF RestoreFiles, Progress, TypeInv, Phases
<1>16. CASE RestoreFails
    BY <1>0, <1>16 DEF RestoreFails, Progress, TypeInv, Phases
<1>17. CASE Recover
    BY <1>0, <1>17 DEF Recover, Restarted, Progress, TypeInv, Phases
<1>18. CASE RecoverFails
    BY <1>0, <1>18 DEF RecoverFails, Progress, TypeInv, Phases
<1>19. CASE EngineExits
    BY <1>0, <1>19 DEF EngineExits, Progress, AllDone, Done, CandidateServes, Revision,
            TypeInv, Phases
<1>20. CASE RunnerStarts
    BY <1>0, <1>20 DEF RunnerStarts, Restarted, Writing, Progress, AllDone, Done,
            CandidateServes, Revision, TypeInv, Phases
<1>21. CASE PanelDies
    BY <1>0, <1>21 DEF PanelDies, Writing, Progress, TypeInv, Phases
<1>22. CASE EditRow
    BY <1>0, <1>22 DEF EditRow, Progress, AllDone, Done, CandidateServes, Revision, TypeInv, Phases
<1> QED BY <1>1, <1>2, <1>3, <1>4, <1>5, <1>6, <1>7, <1>8, <1>9, <1>10, <1>11, <1>12, <1>13,
        <1>14, <1>15, <1>16, <1>17, <1>18, <1>19, <1>20, <1>21, <1>22 DEF RunnerNext,
        Transaction

\* Files and runner stay together unless a death or a failed restoration parts them.
LEMMA UndisturbedStep ==
    ASSUME RunnerInv, RunnerNext
    PROVE  Undisturbed'
<1> USE DEF ContainerVars, LocalVars, Fault
<1>0. TypeInv /\ Progress /\ Undisturbed
    BY DEF RunnerInv
<1>1. ASSUME NEW m \in ApplyModes, Apply(m)
      PROVE  Undisturbed'
    BY <1>0, <1>1 DEF Apply, Undisturbed, TypeInv, Phases, Marked
<1>2. CASE Refuse
    BY <1>0, <1>2 DEF Refuse, Undisturbed, Progress, TypeInv, Phases, Marked
<1>3. CASE Inspect
    BY <1>0, <1>3 DEF Inspect, Undisturbed, TypeInv, Phases, Marked
<1>4. CASE Prepare
    BY <1>0, <1>4 DEF Prepare, Undisturbed, TypeInv, Phases, Marked
<1>5. CASE StartWriting
    BY <1>0, <1>5 DEF StartWriting, Undisturbed, Progress, TypeInv, Phases, Marked
<1>6. CASE WriteConfig
    BY <1>0, <1>6 DEF WriteConfig, Undisturbed, TypeInv, Phases, Marked
<1>7. CASE WriteMarker
    BY <1>0, <1>7 DEF WriteMarker, Undisturbed, TypeInv, Phases, Marked
<1>8. CASE MarkManaged
    BY <1>0, <1>8 DEF MarkManaged, Undisturbed, TypeInv, Phases, Marked
<1>9. CASE RestartRunner
    BY <1>0, <1>9 DEF RestartRunner, Restarted, Undisturbed, TypeInv, Phases, Marked
<1>10. CASE WriteFails
    BY <1>0, <1>10 DEF WriteFails, Undisturbed, TypeInv, Phases, Marked
<1>11. CASE RestartFails
    BY <1>0, <1>11 DEF RestartFails, Undisturbed, TypeInv, Phases, Marked
<1>12. CASE Verify
    BY <1>0, <1>12 DEF Verify, Undisturbed, TypeInv, Phases, Marked
<1>13. CASE Persist
    <2>1. Marked(files) /\ phase = "persist" /\ (up => live = Boot(files))
        BY <1>0, <1>13, CandidateBoots DEF Persist, Progress, Marked, Revision, TypeInv
    <2> QED BY <1>0, <2>1, <1>13 DEF Persist, Undisturbed
<1>14. CASE PersistFails
    <2>1. Marked(files) /\ phase = "persist" /\ (up => live = Boot(files))
        BY <1>0, <1>14, CandidateBoots DEF PersistFails, Progress, Marked, Revision, TypeInv
    <2>2. files' = files \/ (files'.managed = NoRevision /\ files'.conf = files.conf /\ files'.marker = files.marker)
        BY <1>0, <1>14 DEF PersistFails, TypeInv, Files
    <2>3. Boot(files') = Boot(files)
        BY <2>2 DEF Boot
    <2>4. Marked(files')
        BY <2>1, <2>2 DEF Marked
    <2> QED BY <1>0, <2>1, <2>3, <2>4, <1>14 DEF PersistFails, Undisturbed
<1>15. CASE RestoreFiles
    BY <1>0, <1>15 DEF RestoreFiles, Undisturbed, TypeInv, Phases, Marked
<1>16. CASE RestoreFails
    BY <1>0, <1>16 DEF RestoreFails, Undisturbed, TypeInv, Phases, Marked
<1>17. CASE Recover
    BY <1>0, <1>17 DEF Recover, Restarted, Undisturbed, Progress, TypeInv, Phases, Marked
<1>18. CASE RecoverFails
    BY <1>0, <1>18 DEF RecoverFails, Undisturbed, TypeInv, Phases, Marked
<1>19. CASE EngineExits
    BY <1>0, <1>19 DEF EngineExits, Undisturbed, TypeInv, Phases, Marked
<1>20. CASE RunnerStarts
    BY <1>0, <1>20 DEF RunnerStarts, Restarted, Writing, Undisturbed, TypeInv, Phases, Marked
<1>21. CASE PanelDies
    <2>1. phase = "persist" => Marked(files) /\ (up => live = Boot(files))
        BY <1>0, CandidateBoots DEF Progress, Marked, Revision, TypeInv
    <2> QED BY <1>0, <2>1, <1>21 DEF PanelDies, Writing, Undisturbed, TypeInv, Phases
<1>22. CASE EditRow
    BY <1>0, <1>22 DEF EditRow, Undisturbed, TypeInv, Phases, Marked
<1> QED BY <1>1, <1>2, <1>3, <1>4, <1>5, <1>6, <1>7, <1>8, <1>9, <1>10, <1>11, <1>12, <1>13,
        <1>14, <1>15, <1>16, <1>17, <1>18, <1>19, <1>20, <1>21, <1>22 DEF RunnerNext,
        Transaction

\* Mode and revision are saved together.
LEMMA SavedStep ==
    ASSUME RunnerInv, RunnerNext
    PROVE  SavedAgrees'
<1> USE DEF ContainerVars, LocalVars, Fault
<1>0. SavedAgrees
    BY DEF RunnerInv
<1>1. ASSUME NEW m \in ApplyModes, Apply(m)
      PROVE  SavedAgrees'
    BY <1>0, <1>1 DEF Apply, SavedAgrees, Revision
<1>2. CASE Refuse
    BY <1>0, <1>2 DEF Refuse, SavedAgrees, Revision
<1>3. CASE Inspect
    BY <1>0, <1>3 DEF Inspect, SavedAgrees, Revision
<1>4. CASE Prepare
    BY <1>0, <1>4 DEF Prepare, SavedAgrees, Revision
<1>5. CASE StartWriting
    BY <1>0, <1>5 DEF StartWriting, SavedAgrees, Revision
<1>6. CASE WriteConfig
    BY <1>0, <1>6 DEF WriteConfig, SavedAgrees, Revision
<1>7. CASE WriteMarker
    BY <1>0, <1>7 DEF WriteMarker, SavedAgrees, Revision
<1>8. CASE MarkManaged
    BY <1>0, <1>8 DEF MarkManaged, SavedAgrees, Revision
<1>9. CASE RestartRunner
    BY <1>0, <1>9 DEF RestartRunner, Restarted, SavedAgrees, Revision
<1>10. CASE WriteFails
    BY <1>0, <1>10 DEF WriteFails, SavedAgrees, Revision
<1>11. CASE RestartFails
    BY <1>0, <1>11 DEF RestartFails, SavedAgrees, Revision
<1>12. CASE Verify
    BY <1>0, <1>12 DEF Verify, SavedAgrees, Revision
<1>13. CASE Persist
    BY <1>0, <1>13 DEF Persist, SavedAgrees, Revision
<1>14. CASE PersistFails
    BY <1>0, <1>14 DEF PersistFails, SavedAgrees, Revision
<1>15. CASE RestoreFiles
    BY <1>0, <1>15 DEF RestoreFiles, SavedAgrees, Revision
<1>16. CASE RestoreFails
    BY <1>0, <1>16 DEF RestoreFails, SavedAgrees, Revision
<1>17. CASE Recover
    BY <1>0, <1>17 DEF Recover, Restarted, SavedAgrees, Revision
<1>18. CASE RecoverFails
    BY <1>0, <1>18 DEF RecoverFails, SavedAgrees, Revision
<1>19. CASE EngineExits
    BY <1>0, <1>19 DEF EngineExits, SavedAgrees, Revision
<1>20. CASE RunnerStarts
    BY <1>0, <1>20 DEF RunnerStarts, Restarted, Writing, SavedAgrees, Revision
<1>21. CASE PanelDies
    BY <1>0, <1>21 DEF PanelDies, Writing, SavedAgrees, Revision
<1>22. CASE EditRow
    BY <1>0, <1>22 DEF EditRow, SavedAgrees, Revision
<1> QED BY <1>1, <1>2, <1>3, <1>4, <1>5, <1>6, <1>7, <1>8, <1>9, <1>10, <1>11, <1>12, <1>13,
        <1>14, <1>15, <1>16, <1>17, <1>18, <1>19, <1>20, <1>21, <1>22 DEF RunnerNext,
        Transaction

\* A success stays true until the next request.
LEMMA AppliedStep ==
    ASSUME RunnerInv, RunnerNext
    PROVE  Applied'
<1> USE DEF ContainerVars, LocalVars, Fault
<1>0. TypeInv /\ Progress /\ Applied
    BY DEF RunnerInv
<1>1. ASSUME NEW m \in ApplyModes, Apply(m)
      PROVE  Applied'
    BY <1>0, <1>1 DEF Apply, Applied, TypeInv, Phases
<1>2. CASE Refuse
    BY <1>0, <1>2 DEF Refuse, Applied, TypeInv, Phases
<1>3. CASE Inspect
    BY <1>0, <1>3 DEF Inspect, Applied, TypeInv, Phases
<1>4. CASE Prepare
    BY <1>0, <1>4 DEF Prepare, Applied, TypeInv, Phases
<1>5. CASE StartWriting
    BY <1>0, <1>5 DEF StartWriting, Applied, TypeInv, Phases
<1>6. CASE WriteConfig
    BY <1>0, <1>6 DEF WriteConfig, Applied, TypeInv, Phases
<1>7. CASE WriteMarker
    BY <1>0, <1>7 DEF WriteMarker, Applied, TypeInv, Phases
<1>8. CASE MarkManaged
    BY <1>0, <1>8 DEF MarkManaged, Applied, TypeInv, Phases
<1>9. CASE RestartRunner
    BY <1>0, <1>9 DEF RestartRunner, Restarted, Applied, TypeInv, Phases
<1>10. CASE WriteFails
    BY <1>0, <1>10 DEF WriteFails, Applied, TypeInv, Phases
<1>11. CASE RestartFails
    BY <1>0, <1>11 DEF RestartFails, Applied, TypeInv, Phases
<1>12. CASE Verify
    BY <1>0, <1>12 DEF Verify, Applied, TypeInv, Phases
<1>13. CASE Persist
    BY <1>0, <1>13 DEF Persist, Applied, Progress, AllDone, Done, CandidateServes
<1>14. CASE PersistFails
    BY <1>0, <1>14 DEF PersistFails, Applied, TypeInv, Phases
<1>15. CASE RestoreFiles
    BY <1>0, <1>15 DEF RestoreFiles, Applied, TypeInv, Phases
<1>16. CASE RestoreFails
    BY <1>0, <1>16 DEF RestoreFails, Applied, TypeInv, Phases
<1>17. CASE Recover
    BY <1>0, <1>17 DEF Recover, Restarted, Applied, TypeInv, Phases
<1>18. CASE RecoverFails
    BY <1>0, <1>18 DEF RecoverFails, Applied, TypeInv, Phases
<1>19. CASE EngineExits
    BY <1>0, <1>19 DEF EngineExits, Applied, AllDone, Done, CandidateServes
<1>20. CASE RunnerStarts
    BY <1>0, <1>20 DEF RunnerStarts, Restarted, Writing, Applied, AllDone, Done, CandidateServes
<1>21. CASE PanelDies
    BY <1>0, <1>21 DEF PanelDies, Writing, Applied, TypeInv, Phases
<1>22. CASE EditRow
    BY <1>0, <1>22 DEF EditRow, Applied, AllDone, Done, CandidateServes
<1> QED BY <1>1, <1>2, <1>3, <1>4, <1>5, <1>6, <1>7, <1>8, <1>9, <1>10, <1>11, <1>12, <1>13,
        <1>14, <1>15, <1>16, <1>17, <1>18, <1>19, <1>20, <1>21, <1>22 DEF RunnerNext,
        Transaction

-----------------------------------------------------------------------------
\* A panel that was never configured establishes the invariant.
LEMMA RunnerStart == RunnerInit => RunnerInv
<1> SUFFICES ASSUME RunnerInit PROVE RunnerInv
    OBVIOUS
<1>1. Stopped \in Configs /\ files \in Files /\ rows \in Rows
    <2>1. Stopped \in Configs /\ NoRevision \in Revisions
        BY NoRevisionType DEF Stopped, Configs, Config
    <2> QED BY <2>1, RunnerRows DEF RunnerInit, Files
<1>2. TypeInv
    <2>1. saved \in [mode : Modes \cup {"none"}, revision : Revisions]
        BY NoRevisionType DEF RunnerInit
    <2>2. snap \in Files /\ live \in Configs /\ cand \in Configs
        BY <1>1 DEF RunnerInit
    <2> QED BY <1>1, <2>1, <2>2 DEF RunnerInit, TypeInv, Phases, Modes, Engines
<1>3. Boot(files) = Stopped
    BY DEF RunnerInit, Boot, Stopped
<1>4. Progress /\ SavedAgrees /\ Applied
    BY DEF RunnerInit, Progress, SavedAgrees, Applied
<1>5. Undisturbed
    BY <1>3 DEF RunnerInit, Undisturbed, Marked
<1> QED BY <1>2, <1>4, <1>5 DEF RunnerInv

\* The invariant is about nothing else.
LEMMA RunnerUnchanged == RunnerInv /\ UNCHANGED runnerVars => RunnerInv'
<1> SUFFICES ASSUME RunnerInv, UNCHANGED runnerVars PROVE RunnerInv'
    OBVIOUS
<1>1. TypeInv' /\ Progress'
    BY DEF RunnerInv, TypeInv, Progress, AllDone, Done, CandidateServes, Revision, runnerVars
<1>2. Undisturbed' /\ SavedAgrees' /\ Applied'
    BY DEF RunnerInv, Undisturbed, Marked, SavedAgrees, Applied, AllDone, Done,
       CandidateServes, runnerVars
<1> QED BY <1>1, <1>2 DEF RunnerInv

\* Every step keeps the invariant.
LEMMA RunnerStep == RunnerInv /\ [RunnerNext]_<<runnerVars, faults>> => RunnerInv'
<1> SUFFICES ASSUME RunnerInv, [RunnerNext]_<<runnerVars, faults>> PROVE RunnerInv'
    OBVIOUS
<1>1. CASE RunnerNext
    BY <1>1, TypeStep, ProgressStep, UndisturbedStep, SavedStep, AppliedStep DEF RunnerInv
<1>2. CASE UNCHANGED <<runnerVars, faults>>
    BY <1>2, RunnerUnchanged
<1> QED BY <1>1, <1>2

\* The invariant holds throughout.
LEMMA RunnerAlways == RunnerSpec => []RunnerInv
    BY RunnerStart, RunnerStep, PTL DEF RunnerSpec

-----------------------------------------------------------------------------
\* What was verified stays served while the files stand.
LEMMA AppliedPromise == RunnerInv => AppliedIsServed
<1>1. RunnerInv => AppliedIsServed
    <2> SUFFICES ASSUME RunnerInv, state = "applied", up PROVE AppliedIsServed
        BY DEF AppliedIsServed
    <2>1. live = cand /\ CandidateServes
        BY CandidateBoots DEF RunnerInv, Applied
    <2> QED BY <2>1 DEF CandidateServes, AppliedIsServed, Listening
<1> QED BY <1>1

\* What the invariant is for.
LEMMA RunnerPromises ==
    RunnerInv => ReadyServesRevision /\ FailedApplyLeavesFiles /\ AppliedIsServed
<1>1. RunnerInv => ReadyServesRevision
    BY DEF RunnerInv, Undisturbed, Marked, SavedAgrees, Ready, ReadyServesRevision
<1>2. RunnerInv => FailedApplyLeavesFiles
    BY DEF RunnerInv, Undisturbed, FailedApplyLeavesFiles
<1> QED BY <1>1, <1>2, AppliedPromise

\* What RequireExternalRuntimeReady accepts between applies is what the runner
\* serves and would serve again: transitionExternalRuntime writes the revision
\* last and persistExternalRuntimeRevision saves it with its mode.
THEOREM ReadyIsServed == RunnerSpec => []ReadyServesRevision
BY RunnerPromises, RunnerAlways, PTL

\* A failed apply leaves the files of before and a runner that serves them
\* (restore in transitionExternalRuntime).
THEOREM FailureLeavesFiles == RunnerSpec => []FailedApplyLeavesFiles
BY RunnerPromises, RunnerAlways, PTL

\* After a reported success everything that was enabled is served whenever the
\* runner is up, however often Docker restarts it (verifyExternalRuntime).
THEOREM SuccessStaysServed == RunnerSpec => []AppliedIsServed
BY RunnerPromises, RunnerAlways, PTL

-----------------------------------------------------------------------------
(* The updates, and the runner under them.                                 *)


BeforeRename == {"ready", "signature", "pull", "self", "clean", "clean_helper", "rename"}
JobPhases == BeforeRename \cup {"create", "helper", "report"}
Trial == {"begin", "stop", "start", "image", "health", "commit"}
Undoing == {"rb_remove", "rb_rename", "rb_start", "rb_health"}
HelperPhases == Trial \cup {"done"} \cup Undoing
Kinds == {"update", "restart"}
BoxStates == {"none", "created", "up", "down"}
BoxNames == {"none", "panel", "panel-old"}
Slots == Boxes \cup {NoBox}

BoxType == [name : BoxNames, image : Images, st : BoxStates]
JobType == [pc : JobPhases \cup {"none"}, kind : Kinds, self : Slots, cand : Images, new : Slots]
HelperType == [pc : HelperPhases \cup {"none"}, kind : Kinds, old : Slots, new : Slots,
               image : Images, ok : Nat, polls : Nat, restored : BOOLEAN]

\* A request knows the container it runs in.
JobsTyped(j) ==
    /\ j \in [Requests -> JobType]
    /\ \A r \in Requests : j[r].pc # "none" => j[r].self \in Boxes

OtaTypes ==
    /\ box \in [Boxes -> BoxType]
    /\ tag \in Images /\ verified \subseteq Images
    /\ JobsTyped(job)
    /\ helper \in HelperType
    /\ runnerName \in RunnerNames \cup {"removed"}
    /\ ota \in {"idle", "running", "failed", "succeeded", "rolled_back", "rollback_failed"}
    /\ submits \in Nat /\ moves \in Nat /\ spoilt \in BOOLEAN

\* An image is verified before anything can be created from it.
ImagesInv ==
    /\ FirstImage \in verified
    /\ \A c \in Boxes : box[c].image \in verified
    /\ \A r \in Requests : job[r].pc # "signature" => job[r].cand \in verified

\* An update that removes containers has checked the runner's name.
NameInv ==
    \A r \in Requests :
        job[r].kind = "update" /\ job[r].pc \in {"clean", "clean_helper"} =>
            runnerName \notin Reserved

\* The layouts of the panel containers.
Only(S) == \A d \in Boxes \ S : box[d] = Absent
Alone(c) == IsUp(c) /\ box[c].name = "panel" /\ Only({c})
Renamed(c) == IsUp(c) /\ box[c].name = "panel-old" /\ Only({c})
Pair(o, n) ==
    /\ o \in Boxes /\ n \in Boxes /\ o # n
    /\ box[o].name = "panel-old" /\ box[n].name = "panel"
    /\ Only({o, n})

Accepted(n) == box[n].image \in Sound /\ helper.ok = 3

\* Where a request stands.
JobLayout(r) ==
    /\ job[r].pc \in BeforeRename => Alone(job[r].self)
    /\ job[r].pc = "create" => Renamed(job[r].self)
    /\ job[r].pc \in BeforeRename \cup {"create"} => job[r].new = NoBox
    /\ job[r].pc = "helper" =>
          Pair(job[r].self, job[r].new) /\ IsUp(job[r].self) /\ ~IsUp(job[r].new)

\* Where the helper's script stands.
HelperLayout ==
    /\ helper.pc \in Trial \cup {"rb_remove"} => Pair(helper.old, helper.new)
    /\ helper.pc \in {"image", "health", "commit"} => IsUp(helper.new)
    /\ helper.pc \in {"start", "image", "health", "commit"} => ~IsUp(helper.old)
    /\ helper.pc \in {"begin", "stop", "start", "image", "health"} => helper.ok \in {0, 1, 2}
    /\ helper.pc = "commit" => Accepted(helper.new)
    /\ helper.pc = "done" => Alone(helper.new) /\ Accepted(helper.new)
    /\ helper.pc \in {"rb_rename", "rb_start", "rb_health"} =>
          /\ Exists(helper.old)
          /\ helper.restored =>
                /\ Only({helper.old})
                /\ helper.pc # "rb_rename" => box[helper.old].name = "panel"
                /\ helper.pc = "rb_health" => IsUp(helper.old)

\* At most one request, and the helper only beside the one that started it.
OneAtATime ==
    /\ \A r, s \in Requests : job[r].pc # "none" /\ job[s].pc # "none" => r = s
    /\ helper.pc # "none" => \A r \in Requests : job[r].pc \in {"none", "report"}

\* With nothing in progress there is one container, and it is the panel.
Home ==
    helper.pc = "none" /\ (\A r \in Requests : job[r].pc \in {"none", "report"}) =>
        \E c \in Boxes : Alone(c)

Layout ==
    /\ OneAtATime
    /\ \A r \in Requests : JobLayout(r)
    /\ HelperLayout
    /\ Home

Orderly == ~spoilt => Layout

-----------------------------------------------------------------------------
(* Types.                                                                  *)

\* What the updates of one container and of one request are typed by.
LEMMA BoxUpdates ==
    ASSUME NEW b \in [Boxes -> BoxType], NEW c
    PROVE  /\ Absent \in BoxType
           /\ \A n \in BoxNames : [b EXCEPT ![c].name = n] \in [Boxes -> BoxType]
           /\ \A s \in BoxStates : [b EXCEPT ![c].st = s] \in [Boxes -> BoxType]
           /\ \A x \in BoxType : [b EXCEPT ![c] = x] \in [Boxes -> BoxType]
<1>1. Absent \in BoxType
    BY ImageAssumption DEF Absent, BoxType, BoxNames, BoxStates
<1>2. \A n \in BoxNames : [b EXCEPT ![c].name = n] \in [Boxes -> BoxType]
    BY DEF BoxType
<1>3. \A s \in BoxStates : [b EXCEPT ![c].st = s] \in [Boxes -> BoxType]
    BY DEF BoxType
<1> QED BY <1>1, <1>2, <1>3

\* What the updates of one request, and the death of a panel, give.
LEMMA JobUpdates ==
    ASSUME JobsTyped(job), NEW r \in Requests
    PROVE  /\ NoJob \in JobType
           /\ JobsTyped([job EXCEPT ![r] = NoJob])
           /\ job[r].pc # "none" =>
                \A p \in JobPhases : JobsTyped([job EXCEPT ![r].pc = p])
           /\ \A c \in Boxes : JobsTyped(KilledJobs(c))
<1>1. NoJob \in JobType /\ NoJob.pc = "none"
    BY ImageAssumption DEF NoJob, JobType, JobPhases, Kinds, Slots
<1>2. JobsTyped([job EXCEPT ![r] = NoJob])
    BY <1>1 DEF JobsTyped
<1>3. ASSUME job[r].pc # "none", NEW p \in JobPhases PROVE JobsTyped([job EXCEPT ![r].pc = p])
    BY <1>3 DEF JobsTyped, JobType
<1>4. ASSUME NEW c \in Boxes PROVE JobsTyped(KilledJobs(c))
    BY <1>1 DEF JobsTyped, KilledJobs
<1> QED BY <1>1, <1>2, <1>3, <1>4

\* The starting state has the types.
LEMMA OtaTypesStart == Init => OtaTypes
<1> SUFFICES ASSUME Init PROVE OtaTypes
    OBVIOUS
<1>1. box \in [Boxes -> BoxType]
    BY ImageAssumption DEF Init, OtaInit, Absent, BoxType, BoxNames, BoxStates
<1>2. JobsTyped(job)
    BY ImageAssumption DEF Init, OtaInit, JobsTyped, NoJob, JobType, Kinds, Slots
<1>3. helper \in HelperType
    BY ImageAssumption DEF Init, OtaInit, NoHelper, HelperType, Kinds, Slots
<1> QED BY <1>1, <1>2, <1>3, ImageAssumption DEF Init, OtaInit, OtaTypes

\* What an undone rename leaves.
LEMMA UndoTypes ==
    ASSUME OtaTypes, NEW r \in Requests, NEW m, UndoRename(r, m)
    PROVE  box' \in [Boxes -> BoxType] /\ spoilt' \in BOOLEAN
<1> DEFINE rid == [c \in Boxes |-> IF c = m THEN Absent ELSE box[c]]
<1>1. rid \in [Boxes -> BoxType]
    BY BoxUpdates DEF OtaTypes
<1>2. box' \in {rid, [rid EXCEPT ![job[r].self].name = "panel"]} /\ spoilt' \in BOOLEAN
    BY DEF UndoRename, OtaTypes
<1>3. [rid EXCEPT ![job[r].self].name = "panel"] \in [Boxes -> BoxType]
    BY <1>1, BoxUpdates DEF BoxNames
<1> QED BY <1>1, <1>2, <1>3

\* What abandoning a request leaves.
LEMMA AbandonTypes ==
    ASSUME OtaTypes, NEW r \in Requests, Abandon(r)
    PROVE  JobsTyped(job') /\ ota' \in {ota, "failed"}
BY JobUpdates DEF OtaTypes, Abandon, WriteStatus

\* The steps of a request keep the types.
LEMMA RequestTypes ==
    ASSUME OtaTypes, NEW r \in Requests,
           SubmitUpdate(r) \/ SubmitRestart(r) \/ Request(r)
    PROVE  OtaTypes'
<1> USE DEF OtaTypes, rest
<1>a. JobsTyped([job EXCEPT ![r] = NoJob]) /\ \A c \in Boxes : JobsTyped(KilledJobs(c))
    BY JobUpdates
<1>b. ASSUME NEW p \in JobPhases, job[r].pc # "none" PROVE JobsTyped([job EXCEPT ![r].pc = p])
    BY <1>b, JobUpdates
<1>1. ASSUME NEW k \in Kinds, NEW p \in JobPhases, Submit(r, k, p) PROVE OtaTypes'
    <2>1. PICK c \in Boxes :
             job' = [job EXCEPT ![r] = [NoJob EXCEPT !.kind = k, !.self = c, !.pc = p,
                                                     !.cand = box[c].image]]
        BY <1>1, Zenon DEF Submit
    <2>2. [NoJob EXCEPT !.kind = k, !.self = c, !.pc = p, !.cand = box[c].image] \in JobType
        BY JobUpdates DEF JobType, BoxType, Slots
    <2>3. JobsTyped(job')
        BY <2>1, <2>2, JobUpdates DEF JobsTyped, JobType
    <2> QED BY <1>1, <2>3 DEF Submit, WriteStatus
<1>2. CASE GiveUp(r)
    BY <1>2, AbandonTypes DEF GiveUp
<1>3. CASE CheckReady(r)
    <2>1. CASE job' = [job EXCEPT ![r].pc = "signature", ![r].cand = tag] /\ ota' = "running"
        <3>1. /\ job[r].self \in Boxes /\ job[r] \in JobType
              /\ [job[r] EXCEPT !.pc = "signature", !.cand = tag] \in JobType
            BY <1>3 DEF CheckReady, JobsTyped, JobType, JobPhases, BeforeRename
        <3>2. job' = [job EXCEPT ![r] = [job[r] EXCEPT !.pc = "signature", !.cand = tag]]
            BY <2>1, Zenon
        <3>3. JobsTyped(job')
            BY <3>1, <3>2 DEF JobsTyped, JobType
        <3> QED BY <1>3, <2>1, <3>3 DEF CheckReady
    <2> QED BY <1>3, <2>1, AbandonTypes DEF CheckReady
<1>4. CASE VerifySignature(r)
    <2>1. job[r].cand \in Images
        BY DEF JobsTyped, JobType
    <2> QED BY <1>4, <2>1, <1>b, AbandonTypes DEF VerifySignature, Step, JobPhases, BeforeRename
<1>5. CASE Pull(r)
    BY <1>5, <1>b DEF Pull, Step, JobPhases, BeforeRename
<1>6. CASE InspectSelf(r)
    BY <1>6, <1>b, AbandonTypes DEF InspectSelf, Step, JobPhases, BeforeRename
<1>7. CASE CleanOld(r)
    <2>1. CASE Step(r, "clean_helper") /\ UNCHANGED <<box, spoilt>>
        BY <1>7, <2>1, <1>b DEF CleanOld, Step, JobPhases, BeforeRename
    <2>2. ASSUME NEW c \in Boxes,
                 box' = [box EXCEPT ![c] = Absent],
                 job' = [KilledJobs(c) EXCEPT ![r] =
                           IF job[r].self = c THEN NoJob ELSE [job[r] EXCEPT !.pc = "clean_helper"]],
                 spoilt' = (spoilt \/ IsUp(c)), UNCHANGED runnerName
          PROVE  OtaTypes'
        <3>1. [job[r] EXCEPT !.pc = "clean_helper"] \in JobType /\ job[r].self \in Boxes
            BY <1>7 DEF CleanOld, JobsTyped, JobType, JobPhases, BeforeRename
        <3>2. JobsTyped(job')
            BY <1>a, <2>2, <3>1, JobUpdates DEF JobsTyped, NoJob, JobType
        <3>3. box' \in [Boxes -> BoxType]
            BY <2>2, BoxUpdates
        <3> QED BY <1>7, <2>2, <3>2, <3>3 DEF CleanOld
    <2> QED BY <1>7, <2>1, <2>2 DEF CleanOld
<1>8. CASE CleanHelper(r)
    <2>1. [helper EXCEPT !.pc = "rb_remove"] \in HelperType /\ NoHelper \in HelperType
        BY ImageAssumption DEF HelperType, HelperPhases, Undoing, NoHelper, Kinds, Slots
    <2> QED BY <1>8, <2>1, <1>b DEF CleanHelper, Step, JobPhases, BeforeRename
<1>9. CASE Rename(r)
    <2>1. [box EXCEPT ![job[r].self].name = "panel-old"] \in [Boxes -> BoxType]
        BY BoxUpdates DEF BoxNames
    <2> QED BY <1>9, <2>1, <1>b, AbandonTypes DEF Rename, Step, JobPhases
<1>10. CASE Create(r)
    <2>1. ASSUME NEW c \in Boxes,
                 box' = [box EXCEPT ![c] = [name |-> "panel", image |-> job[r].cand,
                                            st |-> "created"]],
                 job' = [job EXCEPT ![r].new = c, ![r].pc = "helper"], UNCHANGED <<ota, spoilt>>
          PROVE  OtaTypes'
        <3>1. JobsTyped(job')
            BY <1>10, <2>1 DEF Create, JobsTyped, JobType, JobPhases, Slots
        <3>2. [name |-> "panel", image |-> job[r].cand, st |-> "created"] \in BoxType
            BY DEF BoxType, BoxNames, BoxStates, JobsTyped, JobType
        <3>3. box' \in [Boxes -> BoxType]
            BY <2>1, <3>2, BoxUpdates
        <3> QED BY <1>10, <2>1, <3>1, <3>3 DEF Create
    <2>2. CASE UndoRename(r, NoBox) /\ Abandon(r)
        BY <1>10, <2>2, UndoTypes, AbandonTypes DEF Create
    <2>3. CASE ~(NameTaken("panel") \/ \A c \in Boxes : Exists(c))
        <3> DEFINE c == CHOOSE b \in Boxes : ~Exists(b)
        <3>1. c \in Boxes
            BY <2>3
        <3>2. /\ box' = [box EXCEPT ![c] = [name |-> "panel", image |-> job[r].cand,
                                            st |-> "created"]]
              /\ job' = [job EXCEPT ![r].new = c, ![r].pc = "helper"]
              /\ UNCHANGED <<ota, spoilt>>
            BY <1>10, <2>3 DEF Create
        <3> QED BY <2>1, <3>1, <3>2
    <2> QED BY <1>10, <2>2, <2>3 DEF Create
<1>11. CASE CreateFails(r)
    <2>1. box' \in [Boxes -> BoxType] /\ spoilt' \in BOOLEAN
        BY <1>11, UndoTypes DEF CreateFails
    <2> QED BY <1>11, <2>1, AbandonTypes DEF CreateFails
<1>12. CASE StartHelper(r)
    <2>1. CASE UndoRename(r, job[r].new) /\ Abandon(r) /\ UNCHANGED helper
        BY <1>12, <2>1, UndoTypes, AbandonTypes DEF StartHelper
    <2>2. CASE /\ helper' = [NoHelper EXCEPT !.pc = "begin", !.kind = job[r].kind,
                   !.old = job[r].self, !.new = job[r].new, !.image = job[r].cand]
               /\ Step(r, "report") /\ UNCHANGED <<box, ota, spoilt>>
        <3>1. helper' \in HelperType
            BY <1>12, <2>2 DEF StartHelper, NoHelper, HelperType, HelperPhases, Trial, JobsTyped,
               JobType
        <3> QED BY <1>12, <2>2, <3>1, <1>b DEF StartHelper, Step, JobPhases
    <2> QED BY <1>12, <2>1, <2>2 DEF StartHelper
<1>13. CASE Report(r)
    BY <1>13, <1>a DEF Report, WriteStatus
<1> QED
    BY <1>1, <1>2, <1>3, <1>4, <1>5, <1>6, <1>7, <1>8, <1>9, <1>10, <1>11, <1>12, <1>13
    DEF SubmitUpdate, SubmitRestart, Request, Kinds, JobPhases, BeforeRename

\* The counters of a health loop stay numbers.
LEMMA PollTypes ==
    ASSUME NEW h \in HelperType, NEW p \in HelperPhases
    PROVE  /\ [h EXCEPT !.ok = @ + 1, !.polls = @ + 1, !.pc = p] \in HelperType
           /\ [h EXCEPT !.ok = 0, !.polls = @ + 1] \in HelperType
<1> DEFINE n == h.polls + 1
           k == h.ok + 1
<1>1. n \in Nat /\ k \in Nat
    BY DEF HelperType
<1> HIDE DEF n, k
<1>2. [h EXCEPT !.ok = k, !.polls = n, !.pc = p] \in HelperType
    BY <1>1 DEF HelperType
<1>3. [h EXCEPT !.ok = 0, !.polls = n] \in HelperType
    BY <1>1 DEF HelperType
<1> QED BY <1>2, <1>3 DEF n, k

\* The helper's steps keep its type.
LEMMA ScriptTypes ==
    ASSUME helper \in HelperType, Helper
    PROVE  helper' \in HelperType
<1>a. {"stop", "start", "image", "health", "commit", "done", "rb_remove", "rb_rename", "rb_start",
       "rb_health"} \subseteq HelperPhases
    BY DEF HelperPhases, Trial, Undoing
<1>b. NoHelper \in HelperType
    BY ImageAssumption DEF HelperType, NoHelper, Kinds, Slots
<1>1. CASE Switch \/ StopOld \/ StartNew
    BY <1>a, <1>1 DEF Switch, StopOld, StartNew, HelperStep, HelperType
<1>2. CASE CheckImage \/ RemoveOld \/ SwitchFails
    BY <1>a, <1>2 DEF CheckImage, RemoveOld, SwitchFails, HelperStep, HelperType
<1>3. CASE Poll
    <2>1. CASE helper' = [helper EXCEPT !.ok = 0, !.polls = @ + 1]
        BY <1>a, <2>1, PollTypes, Zenon
    <2>2. CASE helper' = [helper EXCEPT !.ok = @ + 1, !.polls = @ + 1,
                            !.pc = IF helper.ok = 2 THEN "commit" ELSE "health"]
        BY <1>a, <2>2, PollTypes, Zenon
    <2>3. CASE HelperStep("rb_remove")
        BY <1>a, <2>3 DEF HelperStep, HelperType
    <2> QED BY <1>3, <2>1, <2>2, <2>3, Zenon DEF Poll
<1>4. CASE RemoveNew \/ RenameBack \/ StartOld
    BY <1>a, <1>4 DEF RemoveNew, RenameBack, StartOld, HelperStep, HelperType
<1>5. CASE RollbackFails
    BY <1>a, <1>5 DEF RollbackFails, HelperType
<1>6. CASE Succeed \/ ReportRollback
    BY <1>b, <1>6 DEF Succeed, ReportRollback
<1> QED BY <1>1, <1>2, <1>3, <1>4, <1>5, <1>6 DEF Helper

\* The helper's steps keep the types of the containers.
LEMMA ScriptBoxes ==
    ASSUME box \in [Boxes -> BoxType], Helper
    PROVE  box' \in [Boxes -> BoxType]
<1>2. CASE StopOld
    <2>1. box' = box \/ box' = [box EXCEPT ![helper.old].st = "down"]
        BY <1>2 DEF StopOld
    <2>2. [box EXCEPT ![helper.old].st = "down"] \in [Boxes -> BoxType]
        BY BoxUpdates DEF BoxNames, BoxStates
    <2> QED BY <2>1, <2>2
<1>3. CASE StartNew
    <2>1. box' = box \/ box' = [box EXCEPT ![helper.new].st = "up"]
        BY <1>3 DEF StartNew
    <2>2. [box EXCEPT ![helper.new].st = "up"] \in [Boxes -> BoxType]
        BY BoxUpdates DEF BoxNames, BoxStates
    <2> QED BY <2>1, <2>2
<1>4. CASE RemoveOld
    <2>1. box' = box \/ box' = [box EXCEPT ![helper.old] = Absent]
        BY <1>4 DEF RemoveOld
    <2>2. [box EXCEPT ![helper.old] = Absent] \in [Boxes -> BoxType]
        BY BoxUpdates DEF BoxNames, BoxStates
    <2> QED BY <2>1, <2>2
<1>5. CASE RemoveNew
    <2>1. box' = box \/ box' = [box EXCEPT ![helper.new] = Absent]
        BY <1>5 DEF RemoveNew
    <2>2. [box EXCEPT ![helper.new] = Absent] \in [Boxes -> BoxType]
        BY BoxUpdates DEF BoxNames, BoxStates
    <2> QED BY <2>1, <2>2
<1>6. CASE RenameBack
    <2>1. box' = box \/ box' = [box EXCEPT ![helper.old].name = "panel"]
        BY <1>6 DEF RenameBack
    <2>2. [box EXCEPT ![helper.old].name = "panel"] \in [Boxes -> BoxType]
        BY BoxUpdates DEF BoxNames, BoxStates
    <2> QED BY <2>1, <2>2
<1>7. CASE StartOld
    <2>1. box' = box \/ box' = [box EXCEPT ![helper.old].st = "up"]
        BY <1>7 DEF StartOld
    <2>2. [box EXCEPT ![helper.old].st = "up"] \in [Boxes -> BoxType]
        BY BoxUpdates DEF BoxNames, BoxStates
    <2> QED BY <2>1, <2>2
<1> QED
    BY <1>2, <1>3, <1>4, <1>5, <1>6, <1>7
    DEF Helper, Switch, CheckImage, Poll, Succeed, SwitchFails, RollbackFails, ReportRollback

\* The helper's steps keep the types.
LEMMA HelperTypes ==
    ASSUME OtaTypes, Helper
    PROVE  OtaTypes'
<1>1. UNCHANGED <<tag, verified, runnerName, submits, moves>>
    BY Zenon DEF Helper, Switch, StopOld, StartNew, CheckImage, Poll, RemoveOld, Succeed,
       SwitchFails, RemoveNew, RenameBack, StartOld, RollbackFails, ReportRollback, KeepRest, rest
<1>2. spoilt' \in {spoilt, TRUE} /\ ota' \in {ota, "running", "succeeded", "rolled_back", "rollback_failed"}
    BY DEF Helper, Switch, StopOld, StartNew, CheckImage, Poll, RemoveOld, Succeed,
       SwitchFails, RemoveNew, RenameBack, StartOld, RollbackFails, ReportRollback
<1>3. JobsTyped(job')
    <2>1. job' = job \/ \E c \in Boxes : job' = KilledJobs(c)
        BY DEF Helper, Switch, StopOld, StartNew, CheckImage, Poll, RemoveOld, Succeed,
           SwitchFails, RemoveNew, RenameBack, StartOld, RollbackFails, ReportRollback, Exists
    <2>2. NoJob \in JobType /\ NoJob.pc = "none"
        BY ImageAssumption DEF NoJob, JobType, Kinds, Slots
    <2> QED BY <2>1, <2>2 DEF OtaTypes, JobsTyped, KilledJobs
<1> QED BY <1>1, <1>2, <1>3, ScriptTypes, ScriptBoxes DEF OtaTypes

\* So do crashes, reboots and a moving tag.
LEMMA SurroundingTypes ==
    ASSUME OtaTypes, MoveTag \/ PanelCrashes \/ HostReboots \/ UNCHANGED otaVars
    PROVE  OtaTypes'
<1> USE DEF OtaTypes, rest
<1>1. NoJob \in JobType /\ NoJob.pc = "none" /\ NoHelper \in HelperType
    BY ImageAssumption DEF NoJob, JobType, NoHelper, HelperType, Kinds, Slots
<1>2. CASE MoveTag
    BY <1>2 DEF MoveTag
<1>3. CASE PanelCrashes
    <2>1. JobsTyped(job')
        BY <1>1, <1>3 DEF PanelCrashes, JobsTyped, KilledJobs
    <2> QED BY <1>3, <2>1 DEF PanelCrashes
<1>4. CASE HostReboots
    <2>1. JobsTyped(job')
        BY <1>1, <1>4 DEF HostReboots, JobsTyped
    <2>2. box' \in [Boxes -> BoxType]
        BY <1>4 DEF HostReboots, BoxType, BoxStates
    <2> QED BY <1>1, <1>4, <2>1, <2>2 DEF HostReboots
<1>5. CASE UNCHANGED otaVars
    BY <1>5 DEF otaVars
<1> QED BY <1>2, <1>3, <1>4, <1>5

\* Every reachable state is of the types.
LEMMA OtaTyped == Spec => []OtaTypes
<1>1. OtaTypes /\ [Next]_vars => OtaTypes'
    BY RequestTypes, HelperTypes, SurroundingTypes DEF Next, Runner, vars
<1> QED BY <1>1, OtaTypesStart, PTL DEF Spec

-----------------------------------------------------------------------------
(* Images.                                                                 *)

LEMMA ImagesStart == Init => ImagesInv
<1> SUFFICES ASSUME Init PROVE ImagesInv
    OBVIOUS
<1> QED BY DEF Init, OtaInit, ImagesInv, Absent, NoJob

\* The steps of a request verify an image before they put it anywhere.
LEMMA RequestImages ==
    ASSUME OtaTypes, ImagesInv, NEW r \in Requests,
           SubmitUpdate(r) \/ SubmitRestart(r) \/ Request(r)
    PROVE  ImagesInv'
<1>a. box \in [Boxes -> BoxType] /\ job \in [Requests -> JobType]
    BY DEF OtaTypes, JobsTyped
<1> USE DEF ImagesInv, rest
<1>b. ASSUME UNCHANGED <<box, verified>>,
             \A s \in Requests : job'[s] = job[s] \/ job'[s].pc = "signature"
                                    \/ job'[s].cand \in verified
      PROVE  ImagesInv'
    BY <1>b
<1>c. ASSUME UNCHANGED <<box, verified>>, Abandon(r) PROVE ImagesInv'
    BY <1>a, <1>b, <1>c DEF Abandon, NoJob
<1>d. ASSUME UNCHANGED <<box, verified>>, job[r].pc # "signature", NEW p, Step(r, p) PROVE ImagesInv'
    BY <1>a, <1>b, <1>d DEF Step, JobType
<1>e. ASSUME NEW m, UndoRename(r, m)
      PROVE  \A c \in Boxes : box'[c].image \in verified
    <2> DEFINE rid == [c \in Boxes |-> IF c = m THEN Absent ELSE box[c]]
    <2>1. \A c \in Boxes : rid[c].image \in verified
        BY DEF Absent
    <2>2. rid \in [Boxes -> BoxType]
        BY <1>a, BoxUpdates
    <2>3. \A c \in Boxes : [rid EXCEPT ![job[r].self].name = "panel"][c].image = rid[c].image
        <3> HIDE DEF rid
        <3> QED BY <2>2 DEF BoxType
    <2>4. box' = rid \/ box' = [rid EXCEPT ![job[r].self].name = "panel"]
        BY <1>e DEF UndoRename
    <2> HIDE DEF rid
    <2> QED BY <2>1, <2>3, <2>4
<1>1. ASSUME NEW k \in Kinds, NEW p \in JobPhases, Submit(r, k, p) PROVE ImagesInv'
    <2>1. PICK c \in Boxes :
             job' = [job EXCEPT ![r] = [NoJob EXCEPT !.kind = k, !.self = c, !.pc = p,
                                                     !.cand = box[c].image]]
        BY <1>1, Zenon DEF Submit
    <2>2. job'[r].cand = box[c].image /\ \A s \in Requests \ {r} : job'[s] = job[s]
        BY <1>a, <2>1 DEF NoJob
    <2> QED BY <1>1, <1>b, <2>2 DEF Submit
<1>2. CASE GiveUp(r)
    BY <1>2, <1>c DEF GiveUp
<1>3. CASE CheckReady(r)
    <2>1. CASE job' = [job EXCEPT ![r].pc = "signature", ![r].cand = tag] /\ ota' = "running"
        <3>1. job'[r].pc = "signature" /\ \A s \in Requests \ {r} : job'[s] = job[s]
            BY <1>a, <2>1 DEF JobType
        <3> QED BY <1>3, <1>b, <3>1 DEF CheckReady
    <2> QED BY <1>3, <1>c, <2>1 DEF CheckReady
<1>4. CASE VerifySignature(r)
    <2>1. CASE Step(r, "pull") /\ verified' = verified \cup {job[r].cand}
        <3>1. UNCHANGED box /\ job'[r].cand = job[r].cand /\ \A s \in Requests \ {r} : job'[s] = job[s]
            BY <1>a, <1>4, <2>1 DEF VerifySignature, Step, JobType
        <3> QED BY <2>1, <3>1
    <2>2. CASE Abandon(r) /\ UNCHANGED verified
        BY <1>4, <1>c, <2>2 DEF VerifySignature
    <2> QED BY <1>4, <2>1, <2>2 DEF VerifySignature
<1>5. CASE Pull(r)
    BY <1>5, <1>d DEF Pull
<1>6. CASE InspectSelf(r)
    BY <1>6, <1>c, <1>d DEF InspectSelf
<1>7. CASE CleanOld(r)
    <2>1. CASE Step(r, "clean_helper") /\ UNCHANGED box
        BY <1>7, <1>d, <2>1 DEF CleanOld
    <2>2. ASSUME NEW c \in Boxes,
                 box' = [box EXCEPT ![c] = Absent],
                 job' = [KilledJobs(c) EXCEPT ![r] =
                           IF job[r].self = c THEN NoJob ELSE [job[r] EXCEPT !.pc = "clean_helper"]]
          PROVE  ImagesInv'
        <3>1. \A d \in Boxes : box'[d].image \in verified
            BY <1>a, <2>2 DEF Absent
        <3>2. \A s \in Requests : job'[s].pc = "signature" => job[s].pc = "signature"
            BY <1>a, <2>2 DEF KilledJobs, NoJob, JobType
        <3>3. \A s \in Requests \ {r} : job'[s].cand = FirstImage \/ job'[s] = job[s]
            BY <1>a, <2>2 DEF KilledJobs, NoJob
        <3>4. job'[r].cand \in {FirstImage, job[r].cand}
            BY <1>a, <2>2 DEF KilledJobs, NoJob, JobType
        <3> QED BY <1>7, <3>1, <3>2, <3>3, <3>4 DEF CleanOld
    <2> QED BY <1>7, <2>1, <2>2 DEF CleanOld
<1>8. CASE CleanHelper(r)
    <2>1. Step(r, "rename") \/ UNCHANGED job
        BY <1>8 DEF CleanHelper
    <2> QED BY <1>8, <1>b, <1>d, <2>1 DEF CleanHelper
<1>9. CASE Rename(r)
    <2>1. CASE box' = [box EXCEPT ![job[r].self].name = "panel-old"] /\ Step(r, "create")
        <3>1. \A c \in Boxes : box'[c].image = box[c].image
            BY <1>a, <2>1 DEF BoxType
        <3>2. job'[r].cand = job[r].cand /\ \A s \in Requests \ {r} : job'[s] = job[s]
            BY <1>a, <2>1 DEF Step, JobType
        <3> QED BY <1>9, <3>1, <3>2 DEF Rename
    <2> QED BY <1>9, <1>c, <2>1 DEF Rename
<1>10. CASE Create(r)
    <2>1. ASSUME NEW c,
                 box' = [box EXCEPT ![c] = [name |-> "panel", image |-> job[r].cand,
                                            st |-> "created"]],
                 job' = [job EXCEPT ![r].new = c, ![r].pc = "helper"]
          PROVE  ImagesInv'
        <3>1. job[r].cand \in verified
            BY <1>10 DEF Create
        <3>2. \A d \in Boxes : box'[d].image \in verified
            BY <1>a, <2>1, <3>1
        <3>3. job'[r].cand = job[r].cand /\ \A s \in Requests \ {r} : job'[s] = job[s]
            BY <1>a, <2>1 DEF JobType
        <3> QED BY <1>10, <3>1, <3>2, <3>3 DEF Create
    <2>2. CASE UndoRename(r, NoBox) /\ Abandon(r)
        BY <1>a, <1>10, <1>e, <2>2 DEF Create, Abandon, NoJob
    <2> QED BY <1>10, <2>1, <2>2 DEF Create
<1>11. CASE CreateFails(r)
    <2>1. \A c \in Boxes : box'[c].image \in verified
        BY <1>11, <1>e DEF CreateFails
    <2> QED BY <1>a, <1>11, <2>1 DEF CreateFails, Abandon, NoJob
<1>12. CASE StartHelper(r)
    <2>1. CASE UndoRename(r, job[r].new) /\ Abandon(r)
        BY <1>a, <1>12, <1>e, <2>1 DEF StartHelper, Abandon, NoJob
    <2>2. CASE Step(r, "report") /\ UNCHANGED box
        BY <1>12, <1>d, <2>2 DEF StartHelper
    <2> QED BY <1>12, <2>1, <2>2 DEF StartHelper
<1>13. CASE Report(r)
    BY <1>a, <1>13 DEF Report, NoJob
<1> QED
    BY <1>1, <1>2, <1>3, <1>4, <1>5, <1>6, <1>7, <1>8, <1>9, <1>10, <1>11, <1>12, <1>13
    DEF SubmitUpdate, SubmitRestart, Request, Kinds, JobPhases, BeforeRename

\* Nobody else creates a container or changes the image of one.
LEMMA OtherImages ==
    ASSUME OtaTypes, ImagesInv, Helper \/ MoveTag \/ PanelCrashes \/ HostReboots \/ UNCHANGED otaVars
    PROVE  ImagesInv'
<1>a. box \in [Boxes -> BoxType] /\ job \in [Requests -> JobType]
    BY DEF OtaTypes, JobsTyped
<1>1. UNCHANGED verified
    BY Zenon DEF Helper, Switch, StopOld, StartNew, CheckImage, Poll, RemoveOld, Succeed,
       SwitchFails, RemoveNew, RenameBack, StartOld, RollbackFails, ReportRollback, KeepRest, rest,
       MoveTag, PanelCrashes, HostReboots, otaVars
<1>2. \A r \in Requests : job'[r] = job[r] \/ job'[r] = NoJob
    BY DEF Helper, Switch, StopOld, StartNew, CheckImage, Poll, RemoveOld, Succeed,
       SwitchFails, RemoveNew, RenameBack, StartOld, RollbackFails, ReportRollback,
       MoveTag, PanelCrashes, HostReboots, otaVars, KilledJobs
<1>3. \A c \in Boxes : box'[c].image \in {box[c].image, FirstImage}
    <2>1. CASE StopOld \/ StartNew \/ StartOld
        BY <1>a, <2>1 DEF StopOld, StartNew, StartOld, BoxType
    <2>2. CASE RemoveOld \/ RemoveNew \/ RenameBack
        BY <1>a, <2>2 DEF RemoveOld, RemoveNew, RenameBack, BoxType, Absent
    <2>3. CASE HostReboots
        BY <1>a, <2>3 DEF HostReboots, BoxType
    <2> QED
        BY <2>1, <2>2, <2>3 DEF Helper, Switch, CheckImage, Poll, Succeed, SwitchFails,
           RollbackFails, ReportRollback, MoveTag, PanelCrashes, otaVars
<1> QED BY <1>1, <1>2, <1>3 DEF ImagesInv, NoJob

\* No container is ever created from an image whose signature was not verified:
\* PerformUpdate pins the pull and the successor to the digest it has checked,
\* wherever the tag points by then.
THEOREM ImagesAreVerified == Spec => []OnlyVerifiedImages
<1>1. OtaTypes /\ ImagesInv /\ [Next]_vars => ImagesInv'
    BY RequestImages, OtherImages DEF Next, Runner, vars
<1>2. ImagesInv => OnlyVerifiedImages
    BY DEF ImagesInv, OnlyVerifiedImages, Exists
<1> QED BY <1>1, <1>2, OtaTyped, ImagesStart, PTL DEF Spec

-----------------------------------------------------------------------------
(* The runner beside an update.                                            *)

LEMMA NamesStart == Init => NameInv
BY DEF Init, OtaInit, NameInv, NoJob

\* The runner's name is checked before the request reaches CleanOld, and only
\* CleanOld itself changes it, to the name of nothing.
LEMMA NamesStep == OtaTypes /\ NameInv /\ [Next]_vars => NameInv'
<1> SUFFICES ASSUME OtaTypes, NameInv, [Next]_vars PROVE NameInv'
    OBVIOUS
<1>a. job \in [Requests -> JobType]
    BY DEF OtaTypes, JobsTyped
<1>b. runnerName' \in {runnerName, "removed"} /\ "removed" \notin Reserved
    <2>1. CASE \E r \in Requests : CleanOld(r)
        BY <2>1 DEF CleanOld, Reserved
    <2>2. CASE ~\E r \in Requests : CleanOld(r)
        <3>1. \A r \in Requests : ~CleanOld(r)
            BY <2>2
        <3>2. UNCHANGED runnerName
            BY <3>1, ZenonT(60) DEF Next, Runner, vars, otaVars, rest, KeepRest, SubmitUpdate, SubmitRestart, Submit,
               Request, GiveUp, CheckReady, VerifySignature, Pull, InspectSelf, CleanHelper, Rename,
               Create, CreateFails, StartHelper, Report,
               Helper, Switch, StopOld, StartNew, CheckImage, Poll, RemoveOld, Succeed,
               SwitchFails, RemoveNew, RenameBack, StartOld, RollbackFails, ReportRollback,
               MoveTag, PanelCrashes, HostReboots
        <3> QED BY <3>2 DEF Reserved
    <2> QED BY <2>1, <2>2
<1>c. ASSUME \A r \in Requests :
                job'[r].kind = "update" /\ job'[r].pc \in {"clean", "clean_helper"} =>
                   \/ job[r].kind = "update" /\ job[r].pc \in {"clean", "clean_helper"}
                   \/ runnerName \notin Reserved
      PROVE  NameInv'
    BY <1>b, <1>c DEF NameInv
<1>d. ASSUME \A r \in Requests : job'[r] = job[r] \/ job'[r] = NoJob PROVE NameInv'
    BY <1>c, <1>d DEF NoJob
<1>e. ASSUME NEW r \in Requests, NEW p, Step(r, p), p \notin {"clean", "clean_helper"} PROVE NameInv'
    BY <1>a, <1>c, <1>e DEF Step, JobType
<1>f. ASSUME NEW r \in Requests, Abandon(r) PROVE NameInv'
    BY <1>a, <1>d, <1>f DEF Abandon
<1>1. ASSUME NEW r \in Requests, SubmitUpdate(r) \/ SubmitRestart(r) PROVE NameInv'
    <2>1. PICK c, k, p : /\ p \in {"ready", "self"}
                         /\ job' = [job EXCEPT ![r] = [NoJob EXCEPT !.kind = k, !.self = c, !.pc = p,
                                                     !.cand = box[c].image]]
        BY <1>1, Zenon DEF SubmitUpdate, SubmitRestart, Submit
    <2>2. job'[r].pc = p /\ \A s \in Requests \ {r} : job'[s] = job[s]
        BY <1>a, <2>1 DEF NoJob
    <2> QED BY <1>c, <2>1, <2>2
<1>2. ASSUME NEW r \in Requests, GiveUp(r) \/ Report(r) \/ CreateFails(r) PROVE NameInv'
    BY <1>a, <1>d, <1>f, <1>2 DEF GiveUp, Report, CreateFails
<1>3. ASSUME NEW r \in Requests, CheckReady(r) PROVE NameInv'
    <2>1. CASE job' = [job EXCEPT ![r].pc = "signature", ![r].cand = tag]
        <3>1. job'[r].pc = "signature" /\ \A s \in Requests \ {r} : job'[s] = job[s]
            BY <1>a, <2>1 DEF JobType
        <3> QED BY <1>c, <3>1
    <2> QED BY <1>3, <1>f, <2>1 DEF CheckReady
<1>4. ASSUME NEW r \in Requests, VerifySignature(r) \/ Pull(r) PROVE NameInv'
    BY <1>4, <1>e, <1>f DEF VerifySignature, Pull
<1>5. ASSUME NEW r \in Requests, InspectSelf(r) PROVE NameInv'
    <2>1. CASE Step(r, "clean") /\ ~(job[r].kind = "update" /\ runnerName \in Reserved)
        <3>1. job'[r].kind = job[r].kind /\ \A s \in Requests \ {r} : job'[s] = job[s]
            BY <1>a, <2>1 DEF Step, JobType
        <3> QED BY <1>c, <2>1, <3>1
    <2> QED BY <1>5, <1>f, <2>1 DEF InspectSelf
<1>6. ASSUME NEW r \in Requests, CleanOld(r) PROVE NameInv'
    <2>1. ASSUME NEW c \in Boxes,
                 job' = [KilledJobs(c) EXCEPT ![r] =
                           IF job[r].self = c THEN NoJob ELSE [job[r] EXCEPT !.pc = "clean_helper"]]
          PROVE  NameInv'
        <3>1. \A s \in Requests \ {r} : job'[s] = NoJob \/ job'[s] = job[s]
            BY <1>a, <2>1 DEF KilledJobs
        <3>2. job'[r] = NoJob \/ job'[r].kind = job[r].kind
            BY <1>a, <2>1 DEF KilledJobs, JobType
        <3> QED BY <1>6, <1>c, <3>1, <3>2 DEF CleanOld, NoJob
    <2>2. CASE Step(r, "clean_helper")
        <3>1. job'[r].kind = job[r].kind /\ \A s \in Requests \ {r} : job'[s] = job[s]
            BY <1>a, <2>2 DEF Step, JobType
        <3> QED BY <1>6, <1>c, <3>1 DEF CleanOld
    <2> QED BY <1>6, <2>1, <2>2 DEF CleanOld
<1>7. ASSUME NEW r \in Requests, CleanHelper(r) \/ Rename(r) PROVE NameInv'
    <2>1. UNCHANGED job => NameInv'
        BY <1>d
    <2> QED BY <1>7, <1>e, <1>f, <2>1 DEF CleanHelper, Rename
<1>8. ASSUME NEW r \in Requests, Create(r) PROVE NameInv'
    <2>1. ASSUME NEW c, job' = [job EXCEPT ![r].new = c, ![r].pc = "helper"] PROVE NameInv'
        <3>1. job'[r].pc = "helper" /\ \A s \in Requests \ {r} : job'[s] = job[s]
            BY <1>a, <2>1 DEF JobType
        <3> QED BY <1>c, <3>1
    <2> QED BY <1>8, <1>f, <2>1 DEF Create
<1>9. ASSUME NEW r \in Requests, StartHelper(r) PROVE NameInv'
    BY <1>9, <1>e, <1>f DEF StartHelper
<1>10. CASE Helper \/ MoveTag \/ PanelCrashes \/ HostReboots \/ UNCHANGED otaVars
    <2>1. \A r \in Requests : job'[r] = job[r] \/ job'[r] = NoJob
        BY <1>10 DEF Helper, Switch, StopOld, StartNew, CheckImage, Poll, RemoveOld, Succeed,
           SwitchFails, RemoveNew, RenameBack, StartOld, RollbackFails, ReportRollback,
           MoveTag, PanelCrashes, HostReboots, otaVars, KilledJobs
    <2> QED BY <1>d, <2>1
<1> QED
    BY <1>1, <1>2, <1>3, <1>4, <1>5, <1>6, <1>7, <1>8, <1>9, <1>10 DEF Next, Runner, Request, vars

\* An update's request stops no proxy: the one step of it that stops containers
\* by name comes after validateExternalRunnerIdentity, and the runner is given
\* no new name in between.
THEOREM UpdatesSpareRunner == Spec => UpdateSparesRunner
<1>1. OtaTypes /\ NameInv =>
        [\A r \in Requests : job[r].kind = "update" /\ Request(r) => live' = live]_vars
    <2> SUFFICES ASSUME OtaTypes, NameInv, NEW r \in Requests, job[r].kind = "update", Request(r)
                 PROVE  live' = live
        OBVIOUS
    <2>1. CASE CleanOld(r)
        BY <2>1 DEF CleanOld, NameInv, Reserved, Die, PanelDies, ContainerVars, runnerVars
    <2>2. CASE ~CleanOld(r)
        BY <2>2 DEF Request, GiveUp, CheckReady, VerifySignature, Pull, InspectSelf, CleanHelper,
           Rename, Create, CreateFails, StartHelper, Report, Quiet, runnerVars
    <2> QED BY <2>1, <2>2
<1> QED BY <1>1, OtaTyped, NamesStart, NamesStep, PTL DEF Spec, UpdateSparesRunner

\* A panel that dies in the middle of an apply leaves the runner's invariant.
LEMMA DyingKeepsRunner ==
    ASSUME RunnerInv, PanelDies
    PROVE  RunnerInv'
<1> USE DEF PanelDies, ContainerVars, LocalVars
<1>1. TypeInv' /\ Progress'
    BY DEF RunnerInv, TypeInv, Phases, Progress
<1>2. Undisturbed'
    <2>1. phase = "persist" => Marked(files) /\ (up => live = Boot(files))
        BY CandidateBoots DEF RunnerInv, Progress, Marked, Revision, TypeInv
    <2> QED BY <2>1 DEF RunnerInv, Undisturbed, Writing, TypeInv, Phases
<1>3. SavedAgrees' /\ Applied'
    BY DEF RunnerInv, SavedAgrees, Applied
<1> QED BY <1>1, <1>2, <1>3 DEF RunnerInv

\* So does a runner that is removed.
LEMMA RemovalKeepsRunner ==
    ASSUME RunnerInv, up' = FALSE, live' = Stopped,
           UNCHANGED <<rows, files, saved, phase, at, LocalVars, state, edits, unsure>>
    PROVE  RunnerInv'
<1> USE DEF LocalVars
<1>1. TypeInv'
    BY RestartTypes DEF RunnerInv, TypeInv
<1>2. Progress'
    BY DEF RunnerInv, Progress, AllDone, Done, Revision, CandidateServes
<1>3. Undisturbed' /\ SavedAgrees' /\ Applied'
    BY DEF RunnerInv, Undisturbed, Marked, SavedAgrees, Applied, AllDone, Done, CandidateServes
<1> QED BY <1>1, <1>2, <1>3 DEF RunnerInv

\* What a step of the panel's replacement does to the runner.
LEMMA RunnerBeside ==
    ASSUME [Next]_vars
    PROVE  \/ RunnerNext \/ PanelDies \/ UNCHANGED runnerVars
           \/ /\ up' = FALSE /\ live' = Stopped
              /\ UNCHANGED <<rows, files, saved, phase, at, LocalVars, state, edits, unsure>>
<1>1. CASE Runner
    BY <1>1 DEF Runner, RunnerNext
<1>2. ASSUME NEW r \in Requests, SubmitUpdate(r) \/ SubmitRestart(r) PROVE UNCHANGED runnerVars
    BY <1>2, Zenon DEF SubmitUpdate, SubmitRestart, Submit, Quiet
<1>3. ASSUME NEW r \in Requests, Request(r), ~CleanOld(r) PROVE UNCHANGED runnerVars
    BY <1>3 DEF Request, GiveUp, CheckReady, VerifySignature, Pull, InspectSelf, CleanHelper,
       Rename, Create, CreateFails, StartHelper, Report, Quiet
<1>4. ASSUME NEW r \in Requests, CleanOld(r)
      PROVE  \/ PanelDies \/ UNCHANGED runnerVars
             \/ /\ up' = FALSE /\ live' = Stopped
                /\ UNCHANGED <<rows, files, saved, phase, at, LocalVars, state, edits, unsure>>
    BY <1>4 DEF CleanOld, Die, runnerVars, LocalVars
<1>5. CASE Helper
    BY <1>5 DEF Helper, Switch, StopOld, StartNew, CheckImage, Poll, RemoveOld, Succeed,
       SwitchFails, RemoveNew, RenameBack, StartOld, RollbackFails, ReportRollback, Die, Quiet
<1>6. CASE MoveTag \/ PanelCrashes \/ HostReboots
    BY <1>6 DEF MoveTag, PanelCrashes, HostReboots, Quiet
<1>7. CASE UNCHANGED vars
    BY <1>7 DEF vars
<1> QED BY <1>1, <1>2, <1>3, <1>4, <1>5, <1>6, <1>7 DEF Next

\* The invariant of the runner and its transaction holds while panels are
\* replaced, crash and come back around them.
LEMMA RunnerUnderUpdates == Spec => []RunnerInv
<1>1. Init => RunnerInv
    BY RunnerStart DEF Init
<1>2. RunnerInv /\ [Next]_vars => RunnerInv'
    <2> SUFFICES ASSUME RunnerInv, [Next]_vars PROVE RunnerInv'
        OBVIOUS
    <2>1. CASE UNCHANGED runnerVars
        BY <2>1, RunnerUnchanged
    <2>2. CASE RunnerNext
        BY <2>2, RunnerStep
    <2>3. CASE PanelDies
        BY <2>3, DyingKeepsRunner
    <2>4. CASE /\ up' = FALSE /\ live' = Stopped
               /\ UNCHANGED <<rows, files, saved, phase, at, LocalVars, state, edits, unsure>>
        BY <2>4, RemovalKeepsRunner
    <2> QED BY <2>1, <2>2, <2>3, <2>4, RunnerBeside
<1> QED BY <1>1, <1>2, PTL DEF Spec

\* What RequireExternalRuntimeReady accepts before an update is what the runner
\* serves, and what a failed apply leaves is what it found, also while the
\* panel's container is being replaced under the transaction.
THEOREM ReadyDuringUpdates == Spec => [](ReadyServesRevision /\ FailedApplyLeavesFiles /\ AppliedIsServed)
<1>1. RunnerInv => ReadyServesRevision /\ FailedApplyLeavesFiles /\ AppliedIsServed
    BY RunnerPromises
<1> QED BY <1>1, RunnerUnderUpdates, PTL

-----------------------------------------------------------------------------
(* The layouts.                                                            *)

LEMMA LayoutStart == Init => Orderly
<1> SUFFICES ASSUME Init PROVE Layout
    BY DEF Orderly
<1>1. Alone(FirstBox)
    BY BoxAssumption DEF Init, OtaInit, Alone, IsUp, Only
<1>2. helper.pc = "none" /\ \A r \in Requests : job[r].pc = "none"
    BY DEF Init, OtaInit, NoHelper, NoJob
<1> QED
    BY <1>1, <1>2, BoxAssumption DEF Layout, OneAtATime, JobLayout, HelperLayout, Home,
       BeforeRename, Trial

\* A request that has not yet started its helper is alone in the system.
LEMMA SoleRequest ==
    ASSUME Layout, NEW r \in Requests, job[r].pc \notin {"none", "report"}
    PROVE  helper.pc = "none" /\ \A s \in Requests \ {r} : job[s].pc = "none"
BY DEF Layout, OneAtATime

\* So its step need only be followed by its own layout.
LEMMA RequestMoves ==
    ASSUME Layout, NEW r \in Requests, job[r].pc \notin {"none", "report"},
           UNCHANGED helper, \A s \in Requests \ {r} : job'[s] = job[s],
           JobLayout(r)',
           job'[r].pc \in {"none", "report"} => \E c \in Boxes : Alone(c)'
    PROVE  Layout'
<1>1. helper'.pc = "none" /\ \A s \in Requests \ {r} : job'[s].pc = "none"
    BY SoleRequest
<1>2. OneAtATime' /\ HelperLayout'
    BY <1>1 DEF OneAtATime, HelperLayout, Trial
<1>3. \A s \in Requests : JobLayout(s)'
    BY <1>1 DEF JobLayout, BeforeRename
<1>4. Home'
    BY <1>1 DEF Home
<1> QED BY <1>2, <1>3, <1>4 DEF Layout

\* Steps up to the rename, which change no container.
LEMMA RequestAdvances ==
    ASSUME OtaTypes, Layout, NEW r \in Requests, job[r].pc \in BeforeRename,
           UNCHANGED <<box, helper>>, NEW p \in BeforeRename, Step(r, p)
    PROVE  Layout'
<1>1. /\ \A s \in Requests \ {r} : job'[s] = job[s]
      /\ job'[r].pc = p /\ job'[r].self = job[r].self /\ job'[r].new = job[r].new
    BY DEF Step, OtaTypes, JobsTyped, JobType
<1>2. JobLayout(r)'
    BY <1>1 DEF Layout, JobLayout, BeforeRename, Alone, IsUp, Only
<1> QED BY <1>1, <1>2, RequestMoves DEF BeforeRename

LEMMA RequestEnds ==
    ASSUME OtaTypes, Layout, NEW r \in Requests, job[r].pc \in BeforeRename,
           UNCHANGED <<box, helper>>, Abandon(r)
    PROVE  Layout'
<1>1. (\A s \in Requests \ {r} : job'[s] = job[s]) /\ job'[r].pc = "none"
    BY DEF Abandon, OtaTypes, JobsTyped, NoJob
<1>2. Alone(job[r].self) /\ job[r].self \in Boxes
    BY DEF Layout, JobLayout, Alone, IsUp
<1>3. \E c \in Boxes : Alone(c)'
    BY <1>2 DEF Alone, IsUp, Only
<1> QED BY <1>1, <1>3, RequestMoves DEF BeforeRename, JobLayout

\* An undone rename leaves the panel alone, and its request over.
LEMMA RenameUndone ==
    ASSUME OtaTypes, Layout, NEW r \in Requests, job[r].pc \in {"create", "helper"},
           UndoRename(r, job[r].new), Abandon(r), UNCHANGED helper
    PROVE  Layout'
<1> DEFINE o == job[r].self
           n == job[r].new
           rid == [c \in Boxes |-> IF c = n THEN Absent ELSE box[c]]
<1>1. /\ o \in Boxes /\ n # o /\ IsUp(o) /\ box[o].name = "panel-old"
      /\ \A c \in Boxes \ {o} : rid[c] = Absent
    <2>1. CASE job[r].pc = "create"
        BY <2>1, BoxAssumption DEF Layout, JobLayout, Renamed, IsUp, Only
    <2>2. CASE job[r].pc = "helper"
        BY <2>2 DEF Layout, JobLayout, Pair, IsUp, Only
    <2> QED BY <2>1, <2>2
<1>2. rid[o] = box[o] /\ rid \in [Boxes -> BoxType]
    BY <1>1, BoxUpdates DEF OtaTypes
<1>3. \A c \in Boxes \ {o} : rid[c].name # "panel"
    BY <1>1 DEF Absent
<1>4. box' = [rid EXCEPT ![o].name = "panel"]
    BY <1>3, Zenon DEF UndoRename
<1> HIDE DEF rid
<1>5. ASSUME NEW c \in Boxes, c = o PROVE Alone(c)'
    BY <1>1, <1>2, <1>4, <1>5 DEF Alone, IsUp, Only, BoxType
<1>6. (\A s \in Requests \ {r} : job'[s] = job[s]) /\ job'[r].pc = "none"
    BY DEF Abandon, OtaTypes, JobsTyped, NoJob
<1> QED BY <1>1, <1>5, <1>6, RequestMoves DEF JobLayout, BeforeRename

\* The steps of a request.
LEMMA RequestLayout ==
    ASSUME OtaTypes, Layout, NEW r \in Requests, ~spoilt',
           SubmitUpdate(r) \/ SubmitRestart(r) \/ Request(r)
    PROVE  Layout'
<1>a. box \in [Boxes -> BoxType] /\ job \in [Requests -> JobType]
    BY DEF OtaTypes, JobsTyped
<1>1. ASSUME NEW k \in Kinds, NEW p \in {"ready", "self"}, Submit(r, k, p) PROVE Layout'
    <2>1. AtRest /\ UNCHANGED <<box, helper>>
        BY <1>1 DEF Submit
    <2>2. PICK c \in Boxes :
             /\ IsUp(c)
             /\ job' = [job EXCEPT ![r] = [NoJob EXCEPT !.kind = k, !.self = c, !.pc = p,
                                                       !.cand = box[c].image]]
        BY <1>1, Zenon DEF Submit
    <2>3. /\ job'[r].pc = p /\ job'[r].self = c /\ job'[r].new = NoBox
          /\ \A s \in Requests \ {r} : job'[s] = job[s]
        BY <1>a, <2>2 DEF NoJob
    <2>4. PICK d \in Boxes : Alone(d)
        BY <2>1 DEF AtRest, Layout, Home
    <2>5. c = d
        BY <2>2, <2>4 DEF Alone, IsUp, Only, Absent
    <2>6. JobLayout(r)'
        BY <2>1, <2>3, <2>4, <2>5 DEF JobLayout, BeforeRename, Alone, IsUp, Only
    <2>7. \A s \in Requests \ {r} : job'[s].pc = "none"
        BY <2>1, <2>3 DEF AtRest
    <2>8. \A s \in Requests : JobLayout(s)'
        BY <2>6, <2>7 DEF JobLayout, BeforeRename
    <2>9. helper'.pc = "none"
        BY <2>1 DEF AtRest
    <2> QED
        BY <2>3, <2>7, <2>8, <2>9 DEF Layout, OneAtATime, HelperLayout, Home, Trial
<1>2. CASE GiveUp(r)
    BY <1>2, RequestEnds DEF GiveUp, BeforeRename
<1>3. CASE CheckReady(r)
    <2>1. CASE job' = [job EXCEPT ![r].pc = "signature", ![r].cand = tag]
        <3>1. /\ \A s \in Requests \ {r} : job'[s] = job[s]
              /\ job'[r].pc = "signature" /\ job'[r].self = job[r].self /\ job'[r].new = job[r].new
            BY <1>a, <2>1 DEF JobType
        <3>2. job[r].pc = "ready" /\ UNCHANGED <<box, helper>>
            BY <1>3 DEF CheckReady
        <3>3. JobLayout(r)'
            BY <3>1, <3>2 DEF Layout, JobLayout, BeforeRename, Alone, IsUp, Only
        <3> QED BY <3>1, <3>2, <3>3, RequestMoves
    <2> QED BY <1>3, <2>1, RequestEnds DEF CheckReady, BeforeRename
<1>4. CASE VerifySignature(r)
    BY <1>4, RequestAdvances, RequestEnds DEF VerifySignature, BeforeRename
<1>5. CASE Pull(r)
    BY <1>5, RequestAdvances DEF Pull, BeforeRename
<1>6. CASE InspectSelf(r)
    BY <1>6, RequestAdvances, RequestEnds DEF InspectSelf, BeforeRename
<1>7. CASE CleanOld(r)
    <2>1. job[r].pc = "clean" /\ Alone(job[r].self) /\ UNCHANGED helper
        BY <1>7 DEF CleanOld, Layout, JobLayout, BeforeRename
    <2>2. \A c \in Boxes : box[c].name # "panel-old"
        BY <2>1 DEF Alone, Only, Absent
    <2>3. Step(r, "clean_helper") /\ UNCHANGED box
        BY <1>7, <2>2 DEF CleanOld
    <2> QED BY <2>1, <2>3, RequestAdvances DEF BeforeRename
<1>8. CASE CleanHelper(r)
    <2>1. job[r].pc = "clean_helper" /\ helper.pc = "none"
        BY <1>8, SoleRequest DEF CleanHelper
    <2> QED BY <1>8, <2>1, RequestAdvances DEF CleanHelper, BeforeRename
<1>9. CASE Rename(r)
    <2>1. job[r].pc = "rename" /\ Alone(job[r].self) /\ job[r].new = NoBox /\ UNCHANGED helper
        BY <1>9 DEF Rename, Layout, JobLayout, BeforeRename
    <2>2. CASE box' = [box EXCEPT ![job[r].self].name = "panel-old"] /\ Step(r, "create")
        <3>1. /\ \A s \in Requests \ {r} : job'[s] = job[s]
              /\ job'[r].pc = "create" /\ job'[r].self = job[r].self /\ job'[r].new = job[r].new
            BY <1>a, <2>2 DEF Step, JobType
        <3>2. Renamed(job[r].self)'
            BY <1>a, <2>1, <2>2, <3>1 DEF Alone, Renamed, IsUp, Only, BoxType
        <3>3. JobLayout(r)'
            BY <2>1, <3>1, <3>2 DEF JobLayout, BeforeRename
        <3> QED BY <2>1, <3>1, <3>3, RequestMoves
    <2> QED BY <1>9, <2>1, <2>2, RequestEnds DEF Rename, BeforeRename
<1>10. CASE Create(r)
    <2>1. /\ job[r].pc = "create" /\ Renamed(job[r].self) /\ job[r].new = NoBox
          /\ UNCHANGED helper
        BY <1>10 DEF Create, Layout, JobLayout, BeforeRename
    <2>2. CASE UndoRename(r, NoBox) /\ Abandon(r)
        BY <2>1, <2>2, RenameUndone
    <2>3. CASE ~(NameTaken("panel") \/ \A c \in Boxes : Exists(c))
        <3>1. PICK c \in Boxes :
                 /\ ~Exists(c)
                 /\ box' = [box EXCEPT ![c] = [name |-> "panel", image |-> job[r].cand,
                                               st |-> "created"]]
                 /\ job' = [job EXCEPT ![r].new = c, ![r].pc = "helper"]
            BY <1>10, <2>3, Zenon DEF Create
        <3>2. /\ \A s \in Requests \ {r} : job'[s] = job[s]
              /\ job'[r].pc = "helper" /\ job'[r].self = job[r].self /\ job'[r].new = c
            BY <1>a, <3>1 DEF JobType
        <3>3. c # job[r].self /\ job[r].self \in Boxes
            BY <2>1, <3>1 DEF Renamed, IsUp, Exists
        <3>4. JobLayout(r)'
            BY <1>a, <2>1, <3>1, <3>2, <3>3 DEF JobLayout, BeforeRename, Renamed, Pair, IsUp, Only
        <3> QED BY <2>1, <3>2, <3>4, RequestMoves
    <2> QED BY <1>10, <2>2, <2>3 DEF Create
<1>11. CASE CreateFails(r)
    <2>1. UndoRename(r, job[r].new) /\ Abandon(r) /\ UNCHANGED helper
        BY <1>11 DEF CreateFails
    <2> QED BY <1>11, <2>1, RenameUndone DEF CreateFails
<1>12. CASE StartHelper(r)
    <2>1. job[r].pc = "helper" /\ helper.pc = "none" /\ \A s \in Requests \ {r} : job[s].pc = "none"
        BY <1>12, SoleRequest DEF StartHelper
    <2>2. CASE UndoRename(r, job[r].new) /\ Abandon(r) /\ UNCHANGED helper
        BY <2>1, <2>2, RenameUndone
    <2>3. CASE /\ helper' = [NoHelper EXCEPT !.pc = "begin", !.kind = job[r].kind,
                   !.old = job[r].self, !.new = job[r].new, !.image = job[r].cand]
               /\ Step(r, "report") /\ UNCHANGED <<box, ota, spoilt>>
        <3>1. /\ \A s \in Requests \ {r} : job'[s] = job[s]
              /\ job'[r].pc = "report"
            BY <1>a, <2>3 DEF Step, JobType
        <3>2. /\ helper'.pc = "begin" /\ helper'.old = job[r].self /\ helper'.new = job[r].new
              /\ helper'.ok = 0
            BY <2>3 DEF NoHelper
        <3>3. HelperLayout'
            BY <2>1, <2>3, <3>2 DEF Layout, JobLayout, HelperLayout, Pair, Only, Trial
        <3>4. OneAtATime' /\ Home' /\ \A s \in Requests : JobLayout(s)'
            BY <2>1, <3>1, <3>2 DEF OneAtATime, Home, JobLayout, BeforeRename
        <3> QED BY <3>3, <3>4 DEF Layout
    <2> QED BY <1>12, <2>2, <2>3 DEF StartHelper
<1>13. CASE Report(r)
    <2>1. /\ job[r].pc = "report" /\ UNCHANGED <<box, helper>>
          /\ job'[r].pc = "none" /\ \A s \in Requests \ {r} : job'[s] = job[s]
        BY <1>a, <1>13 DEF Report, NoJob
    <2>2. \A s \in Requests : JobLayout(s)'
        BY <2>1 DEF Layout, JobLayout, BeforeRename, Alone, Renamed, Pair, IsUp, Only
    <2>3. HelperLayout'
        BY <2>1 DEF Layout, HelperLayout, Accepted, Alone, Pair, Exists, IsUp, Only
    <2>4. OneAtATime'
        BY <2>1 DEF Layout, OneAtATime
    <2>5. Home'
        BY <2>1 DEF Layout, Home, Alone, IsUp, Only
    <2> QED BY <2>2, <2>3, <2>4, <2>5 DEF Layout
<1> QED
    BY <1>1, <1>2, <1>3, <1>4, <1>5, <1>6, <1>7, <1>8, <1>9, <1>10, <1>11, <1>12, <1>13
    DEF SubmitUpdate, SubmitRestart, Request, Kinds

\* A step of the helper need only be followed by the helper's own layout.
LEMMA HelperMoves ==
    ASSUME Layout, helper.pc # "none",
           \A r \in Requests : job'[r] = job[r] \/ job'[r] = NoJob,
           helper'.pc # "none" => HelperLayout',
           helper'.pc = "none" => \E c \in Boxes : Alone(c)'
    PROVE  Layout'
<1>1. \A r \in Requests : job'[r].pc \in {"none", "report"}
    BY DEF Layout, OneAtATime, NoJob
<1>2. OneAtATime'
    BY <1>1 DEF Layout, OneAtATime, NoJob
<1>3. \A r \in Requests : JobLayout(r)'
    BY <1>1 DEF JobLayout, BeforeRename
<1>4. HelperLayout' /\ Home'
    BY DEF HelperLayout, Home, Trial
<1> QED BY <1>2, <1>3, <1>4 DEF Layout

\* The steps of the helper's script.
LEMMA ScriptLayout ==
    ASSUME OtaTypes, Layout, ~spoilt', Helper
    PROVE  Layout'
<1>a. box \in [Boxes -> BoxType] /\ helper \in HelperType
    BY DEF OtaTypes
<1>b. HelperLayout
    BY DEF Layout
<1>c. \A r \in Requests : job'[r] = job[r] \/ job'[r] = NoJob
    BY DEF Helper, Switch, StopOld, StartNew, CheckImage, Poll, RemoveOld, Succeed, SwitchFails,
       RemoveNew, RenameBack, StartOld, RollbackFails, ReportRollback, KilledJobs
<1> USE <1>a, <1>b DEF HelperStep
<1>1. CASE Switch
    <2>1. /\ UNCHANGED box /\ helper.pc = "begin" /\ helper'.pc = "stop"
          /\ helper'.old = helper.old /\ helper'.new = helper.new /\ helper'.ok = helper.ok
        BY <1>1 DEF Switch, HelperType
    <2>2. HelperLayout'
        BY <2>1 DEF HelperLayout, Trial, Pair, IsUp, Only
    <2> QED BY <1>c, <2>1, <2>2, HelperMoves
<1>2. CASE StopOld
    <2>1. helper.pc = "stop" /\ Pair(helper.old, helper.new) /\ Exists(helper.old)
        BY <1>2 DEF StopOld, HelperLayout, Trial, Pair, Exists
    <2>2. /\ box' = [box EXCEPT ![helper.old].st = "down"] /\ helper'.pc = "start"
          /\ helper'.old = helper.old /\ helper'.new = helper.new /\ helper'.ok = helper.ok
        BY <1>2, <2>1 DEF StopOld, HelperType
    <2>3. Pair(helper.old, helper.new)' /\ ~IsUp(helper.old)'
        BY <2>1, <2>2 DEF Pair, IsUp, Only, BoxType
    <2>4. HelperLayout'
        BY <2>1, <2>2, <2>3 DEF HelperLayout, Trial
    <2> QED BY <1>c, <2>1, <2>2, <2>4, HelperMoves
<1>3. CASE StartNew
    <2>1. /\ helper.pc = "start" /\ Pair(helper.old, helper.new) /\ Exists(helper.new)
          /\ ~IsUp(helper.old)
        BY <1>3 DEF StartNew, HelperLayout, Trial, Pair, Exists
    <2>2. /\ box' = [box EXCEPT ![helper.new].st = "up"] /\ helper'.pc = "image"
          /\ helper'.old = helper.old /\ helper'.new = helper.new /\ helper'.ok = helper.ok
        BY <1>3, <2>1 DEF StartNew, HelperType
    <2>3. Pair(helper.old, helper.new)' /\ ~IsUp(helper.old)' /\ IsUp(helper.new)'
        BY <2>1, <2>2 DEF Pair, IsUp, Only, BoxType
    <2>4. HelperLayout'
        BY <2>1, <2>2, <2>3 DEF HelperLayout, Trial
    <2> QED BY <1>c, <2>1, <2>2, <2>4, HelperMoves
<1>4. CASE CheckImage
    <2>1. /\ UNCHANGED box /\ helper.pc = "image" /\ helper'.pc \in {"health", "rb_remove"}
          /\ helper'.old = helper.old /\ helper'.new = helper.new /\ helper'.ok = helper.ok
        BY <1>4 DEF CheckImage, HelperType
    <2>2. HelperLayout'
        BY <2>1 DEF HelperLayout, Trial, Pair, IsUp, Only
    <2> QED BY <1>c, <2>1, <2>2, HelperMoves
<1>5. CASE Poll
    <2>1. helper.pc = "health" /\ UNCHANGED box /\ helper.ok \in {0, 1, 2}
        BY <1>5 DEF Poll, HelperLayout
    <2>2. /\ helper'.old = helper.old /\ helper'.new = helper.new
          /\ \/ helper'.pc = "commit" /\ helper'.ok = 3 /\ Answers(helper.new)
             \/ helper'.pc = "health" /\ helper'.ok \in {0, 1, 2}
             \/ helper'.pc = "rb_remove"
        <3>1. CASE /\ Answers(helper.new)
                   /\ helper' = [helper EXCEPT !.ok = @ + 1, !.polls = @ + 1,
                                   !.pc = IF helper.ok = 2 THEN "commit" ELSE "health"]
            BY <2>1, <3>1 DEF HelperType
        <3>2. CASE helper' = [helper EXCEPT !.ok = 0, !.polls = @ + 1]
            BY <2>1, <3>2 DEF HelperType
        <3>3. CASE HelperStep("rb_remove")
            BY <3>3 DEF HelperType
        <3> QED BY <1>5, <3>1, <3>2, <3>3, Zenon DEF Poll
    <2>3. HelperLayout'
        BY <2>1, <2>2 DEF HelperLayout, Trial, Pair, IsUp, Only, Accepted, Answers
    <2> QED BY <1>c, <2>1, <2>2, <2>3, HelperMoves
<1>6. CASE RemoveOld
    <2>1. /\ helper.pc = "commit" /\ Pair(helper.old, helper.new) /\ IsUp(helper.new)
          /\ Accepted(helper.new) /\ Exists(helper.old) /\ ~IsUp(helper.old)
        BY <1>6 DEF RemoveOld, HelperLayout, Trial, Pair, Exists
    <2>2. /\ box' = [box EXCEPT ![helper.old] = Absent] /\ helper'.pc = "done"
          /\ helper'.old = helper.old /\ helper'.new = helper.new /\ helper'.ok = helper.ok
        BY <1>6, <2>1 DEF RemoveOld, HelperType
    <2>3. Alone(helper.new)' /\ Accepted(helper.new)'
        BY <2>1, <2>2 DEF Alone, Accepted, Pair, IsUp, Only
    <2>4. HelperLayout'
        BY <2>1, <2>2, <2>3 DEF HelperLayout, Trial
    <2> QED BY <1>c, <2>1, <2>2, <2>4, HelperMoves
<1>7. CASE Succeed
    <2>1. helper.pc = "done" /\ UNCHANGED box /\ helper'.pc = "none" /\ Alone(helper.new)
        BY <1>7 DEF Succeed, NoHelper, HelperLayout
    <2>2. \E c \in Boxes : Alone(c)'
        BY <2>1 DEF Alone, IsUp, Only
    <2> QED BY <1>c, <2>1, <2>2, HelperMoves
<1>8. CASE SwitchFails
    <2>1. /\ UNCHANGED box /\ helper.pc \in {"stop", "start", "commit"} /\ helper'.pc = "rb_remove"
          /\ helper'.old = helper.old /\ helper'.new = helper.new
        BY <1>8 DEF SwitchFails, HelperType
    <2>2. HelperLayout'
        BY <2>1 DEF HelperLayout, Trial, Pair, IsUp, Only
    <2> QED BY <1>c, <2>1, <2>2, HelperMoves
<1>9. CASE RemoveNew
    <2>1. helper.pc = "rb_remove" /\ Pair(helper.old, helper.new) /\ Exists(helper.new)
        BY <1>9 DEF RemoveNew, HelperLayout, Trial, Pair, Exists
    <2>2. /\ box' = [box EXCEPT ![helper.new] = Absent] /\ helper'.pc = "rb_rename"
          /\ helper'.old = helper.old /\ helper'.new = helper.new
        BY <1>9, <2>1 DEF RemoveNew, HelperType
    <2>3. Exists(helper.old)' /\ Only({helper.old})'
        BY <2>1, <2>2 DEF Pair, Exists, Only
    <2>4. HelperLayout'
        BY <2>1, <2>2, <2>3 DEF HelperLayout, Trial
    <2> QED BY <1>c, <2>1, <2>2, <2>4, HelperMoves
<1>10. CASE RenameBack
    <2>1. /\ helper.pc = "rb_rename" /\ Exists(helper.old) /\ helper'.pc = "rb_start"
          /\ helper'.old = helper.old /\ helper'.new = helper.new
          /\ helper.restored => Only({helper.old})
        BY <1>10 DEF RenameBack, HelperType, HelperLayout
    <2>2. CASE box' = [box EXCEPT ![helper.old].name = "panel"] /\ helper'.restored = helper.restored
        <3>1. Exists(helper.old)' /\ box'[helper.old].name = "panel"
              /\ (helper.restored => Only({helper.old})')
            BY <2>1, <2>2 DEF Exists, Only, BoxType
        <3>2. HelperLayout'
            BY <2>1, <2>2, <3>1 DEF HelperLayout, Trial
        <3> QED BY <1>c, <2>1, <3>2, HelperMoves
    <2>3. CASE UNCHANGED box /\ helper'.restored = FALSE
        <3>1. HelperLayout'
            BY <2>1, <2>3 DEF HelperLayout, Trial, Exists
        <3> QED BY <1>c, <2>1, <3>1, HelperMoves
    <2> QED BY <1>10, <2>2, <2>3 DEF RenameBack, HelperType
<1>11. CASE StartOld
    <2>1. /\ helper.pc = "rb_start" /\ Exists(helper.old) /\ helper'.pc = "rb_health"
          /\ helper'.old = helper.old /\ helper'.new = helper.new
          /\ helper'.restored = helper.restored
          /\ box' = [box EXCEPT ![helper.old].st = "up"]
        BY <1>11 DEF StartOld, HelperType, HelperLayout
    <2>2. /\ Exists(helper.old)' /\ IsUp(helper.old)' /\ box'[helper.old].name = box[helper.old].name
          /\ Only({helper.old}) => Only({helper.old})'
        BY <2>1 DEF Exists, IsUp, Only, BoxType
    <2>3. HelperLayout'
        BY <2>1, <2>2 DEF HelperLayout, Trial
    <2> QED BY <1>c, <2>1, <2>3, HelperMoves
<1>12. CASE RollbackFails
    <2>1. /\ UNCHANGED box /\ helper.pc \in {"rb_remove", "rb_rename", "rb_start"}
          /\ helper'.pc \in {"rb_rename", "rb_start", "rb_health"}
          /\ helper'.old = helper.old /\ helper'.new = helper.new /\ helper'.restored = FALSE
        BY <1>12 DEF RollbackFails, HelperType
    <2>2. Exists(helper.old)
        BY <2>1 DEF HelperLayout, Trial, Pair, Exists
    <2>3. HelperLayout'
        BY <2>1, <2>2 DEF HelperLayout, Trial, Exists
    <2> QED BY <1>c, <2>1, <2>3, HelperMoves
<1>13. CASE ReportRollback
    <2>1. /\ helper.pc = "rb_health" /\ UNCHANGED box /\ helper'.pc = "none"
          /\ helper.restored /\ IsUp(helper.old)
        BY <1>13 DEF ReportRollback, NoHelper
    <2>2. Alone(helper.old)
        BY <2>1 DEF HelperLayout, Alone
    <2>3. \E c \in Boxes : Alone(c)'
        BY <2>1, <2>2 DEF Alone, IsUp, Only
    <2> QED BY <1>c, <2>1, <2>3, HelperMoves
<1> QED
    BY <1>1, <1>2, <1>3, <1>4, <1>5, <1>6, <1>7, <1>8, <1>9, <1>10, <1>11, <1>12, <1>13 DEF Helper

\* What happens around them.
LEMMA SurroundingLayout ==
    ASSUME OtaTypes, Layout, ~spoilt', MoveTag \/ PanelCrashes \/ HostReboots \/ UNCHANGED otaVars
    PROVE  Layout'
<1>1. CASE UNCHANGED <<box, helper, job>>
    <2>1. OneAtATime' /\ \A r \in Requests : JobLayout(r)'
        BY <1>1 DEF Layout, OneAtATime, JobLayout, Alone, Renamed, Pair, IsUp, Only
    <2>2. HelperLayout' /\ Home'
        BY <1>1 DEF Layout, HelperLayout, Home, Accepted, Alone, Pair, Exists, IsUp, Only
    <2> QED BY <2>1, <2>2 DEF Layout
<1>2. CASE HostReboots
    <2>1. AtRest /\ helper'.pc = "none" /\ \A r \in Requests : job'[r].pc = "none"
        BY <1>2 DEF HostReboots, NoHelper, NoJob
    <2>2. PICK d \in Boxes : Alone(d)
        BY <2>1 DEF AtRest, Layout, Home
    <2>3. Alone(d)'
        <3>1. PICK c \in Boxes :
                 /\ box[c].st \in {"up", "down"}
                 /\ box' = [b \in Boxes |-> IF box[b].st \in {"up", "down"}
                      THEN [box[b] EXCEPT !.st = IF b = c THEN "up" ELSE "down"] ELSE box[b]]
            BY <1>2, Zenon DEF HostReboots
        <3>2. c = d
            BY <2>2, <3>1 DEF Alone, Only, Absent
        <3>3. \A b \in Boxes \ {d} : box'[b] = Absent
            BY <2>2, <3>1 DEF Alone, Only, Absent
        <3>4. box'[d].st = "up" /\ box'[d].name = box[d].name
            BY <3>1, <3>2 DEF OtaTypes, BoxType
        <3> QED BY <2>2, <3>3, <3>4 DEF Alone, Only, IsUp
    <2> QED
        BY <2>1, <2>3 DEF Layout, OneAtATime, JobLayout, BeforeRename, HelperLayout, Trial, Home
<1>3. CASE PanelCrashes
    <2>1. UNCHANGED <<box, helper, job>>
        BY <1>3 DEF PanelCrashes
    <2> QED BY <1>1, <2>1
<1> QED BY <1>1, <1>2, <1>3 DEF MoveTag, otaVars

\* The containers are always in one of the layouts, unless requests have met.
LEMMA OrderlyAlways == Spec => []Orderly
<1>1. OtaTypes /\ Orderly /\ [Next]_vars => Orderly'
    <2> SUFFICES ASSUME OtaTypes, Orderly, [Next]_vars, ~spoilt' PROVE Layout'
        BY DEF Orderly
    <2>1. ~spoilt
        <3>1. spoilt' = spoilt \/ spoilt' = TRUE \/ spoilt' = (spoilt \/ ~AtRest)
              \/ (\E c \in Boxes : spoilt' = (spoilt \/ IsUp(c))) \/ spoilt' = (spoilt \/ job' # job)
            BY ZenonT(60) DEF Next, Runner, vars, otaVars, SubmitUpdate, SubmitRestart, Submit,
               Request, GiveUp, CheckReady, VerifySignature, Pull, InspectSelf, CleanOld,
               CleanHelper, Rename, Create, CreateFails, StartHelper, Report, UndoRename,
               Helper, Switch, StopOld, StartNew, CheckImage, Poll, RemoveOld, Succeed,
               SwitchFails, RemoveNew, RenameBack, StartOld, RollbackFails, ReportRollback,
               MoveTag, PanelCrashes, HostReboots
        <3> QED BY <3>1, Zenon
    <2>2. Layout
        BY <2>1 DEF Orderly
    <2> QED BY <2>2, RequestLayout, ScriptLayout, SurroundingLayout DEF Next, Runner, vars
<1> QED BY <1>1, LayoutStart, OtaTyped, PTL DEF Spec

\* From the first step of the swap to its commit the old container is there to
\* return to, and it is removed for a successor that has answered ready three
\* times (swapScript of updater.go).
THEOREM OldPanelIsKept == Spec => []TrialKeepsOld
<1>1. OtaTypes /\ Orderly => TrialKeepsOld
    <2> SUFFICES ASSUME OtaTypes, Layout, helper.pc # "none"
                 PROVE  /\ helper.pc # "done" => Exists(helper.old)
                        /\ helper.pc \in {"commit", "done"} =>
                              box[helper.new].image \in Sound /\ helper.ok = 3
        BY DEF TrialKeepsOld, Orderly
    <2>1. helper.pc \in HelperPhases
        BY DEF OtaTypes, HelperType
    <2>2. helper.pc \in Trial \cup {"rb_remove"} => Exists(helper.old)
        BY DEF Layout, HelperLayout, Pair, Exists
    <2>3. helper.pc \in {"rb_rename", "rb_start", "rb_health"} => Exists(helper.old)
        BY DEF Layout, HelperLayout
    <2>4. helper.pc \in {"commit", "done"} => Accepted(helper.new)
        BY DEF Layout, HelperLayout
    <2> QED BY <2>1, <2>2, <2>3, <2>4 DEF HelperPhases, Undoing, Accepted
<1> QED BY <1>1, OtaTyped, OrderlyAlways, PTL

\* When update-status.json says succeeded or rolled_back and nothing is under
\* way, exactly one panel container exists, runs and has the panel's name.
THEOREM StatusTellsTheTruth == Spec => []StatusIsTrue
<1>1. Orderly => StatusIsTrue
    <2> SUFFICES ASSUME Layout, AtRest
                 PROVE  \E c \in Boxes : /\ IsUp(c) /\ box[c].name = "panel"
                                         /\ \A d \in Boxes \ {c} : ~Exists(d)
        BY DEF StatusIsTrue, Orderly
    <2>1. PICK c \in Boxes : Alone(c)
        BY DEF Layout, Home, AtRest
    <2> QED BY <2>1 DEF Alone, Only, Exists, Absent
<1> QED BY <1>1, OrderlyAlways, PTL
=============================================================================
