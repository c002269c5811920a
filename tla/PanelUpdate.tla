----------------------------- MODULE PanelUpdate -----------------------------
(***************************************************************************)
(* Replacing the panel's own container: PerformUpdate and RestartSelf of   *)
(* service/updater/updater.go, the shell script of the helper container    *)
(* that performs the swap, and the status file of status.go, composed with *)
(* the external proxy runner whose service an update must not interrupt.   *)
(*                                                                         *)
(* A request is a goroutine of the panel process in one container and dies *)
(* with it.  It renames that container, creates its successor and leaves   *)
(* the swap to a helper container: stop old, start new, check the image,   *)
(* three ready answers in a row, remove old; anything else rolls back.     *)
(* No lock covers two requests, nor a request and a helper at work.        *)
(***************************************************************************)
EXTENDS ExternalRunner

CONSTANTS
    Requests,      \* concurrent POST /system/update/apply and /admin/restart
    Boxes,         \* slots for panel containers
    FirstBox,      \* the one the panel starts in
    NoBox,
    Images,        \* image digests in the registry
    FirstImage,    \* the image the panel starts with
    Signed,        \* those the cosign identity signed
    Sound,         \* those whose panel becomes ready
    RunnerNames,   \* container names the operator may have given the runner
    MaxSubmits, MaxMoves,   \* bounds on requests and on moves of the image tag
    MaxPolls       \* attempts of a health loop (30 in the script)

ASSUME ImageAssumption == FirstImage \in Images /\ Signed \subseteq Images
ASSUME BoxAssumption == FirstBox \in Boxes /\ NoBox \notin Boxes
ASSUME PollAssumption == MaxPolls \in Nat /\ MaxSubmits \in Nat /\ MaxMoves \in Nat

Absent == [name |-> "none", image |-> FirstImage, st |-> "none"]
NoJob == [pc |-> "none", kind |-> "update", self |-> NoBox, cand |-> FirstImage,
          new |-> NoBox]
NoHelper == [pc |-> "none", kind |-> "update", old |-> NoBox, new |-> NoBox,
             image |-> FirstImage, ok |-> 0, polls |-> 0, restored |-> TRUE]
Reserved == {"panel", "panel-old", "zenith-updater"}

VARIABLES
    box,       \* box[c]: name, image and state of a panel container
    tag,       \* the digest ZENITH_UPDATE_IMAGE resolves to
    job,       \* job[r]: a PerformUpdate or RestartSelf in progress
    helper,    \* the container zenith-updater
    ota,       \* State in update-status.json
    runnerName,
    submits, moves,
    verified,  \* history: digests whose signature was checked
    spoilt     \* history: a request met another, a crash or an undo that failed

otaVars == <<box, tag, job, helper, ota, runnerName, submits, moves, verified, spoilt>>
vars == <<runnerVars, faults, otaVars>>
rest == <<runnerName, submits, moves>>

Exists(c) == c \in Boxes /\ box[c].name # "none"
IsUp(c) == c \in Boxes /\ box[c].st = "up"
NameTaken(n) == n = runnerName \/ \E c \in Boxes : box[c].name = n

\* GET /proxy/readiness, asked over the unix socket by `ctl ready`.
ProxyReady ==
    \A i \in Inbounds :
        \/ rows[i] = "off"
        \/ SavedMode = "xray" /\ ~IsXraySupported(rows[i])
        \/ up /\ \E e \in Engines : live[e] # NoConfig /\ live[e][i] = rows[i]
Answers(c) == IsUp(c) /\ box[c].image \in Sound /\ ProxyReady

AtRest == helper.pc = "none" /\ \A r \in Requests : job[r].pc = "none"

\* The process of container c is gone, with every goroutine in it.
KilledJobs(c) == [r \in Requests |-> IF job[r].self = c THEN NoJob ELSE job[r]]
Die(c) == IF IsUp(c) THEN PanelDies ELSE UNCHANGED runnerVars

OtaInit ==
    /\ box = [c \in Boxes |-> IF c = FirstBox
                THEN [name |-> "panel", image |-> FirstImage, st |-> "up"] ELSE Absent]
    /\ tag = FirstImage
    /\ job = [r \in Requests |-> NoJob]
    /\ helper = NoHelper
    /\ ota = "idle"
    /\ runnerName \in RunnerNames
    /\ submits = 0 /\ moves = 0
    /\ verified = {FirstImage}
    /\ spoilt = FALSE

Init == RunnerInit /\ OtaInit

-----------------------------------------------------------------------------
(* The request, up to the helper's start.                                  *)

Step(r, pc) == job' = [job EXCEPT ![r].pc = pc]
Quiet == UNCHANGED runnerVars

\* The status file is PerformUpdate's; RestartSelf writes none.
WriteStatus(kind, st) == ota' = IF kind = "update" THEN st ELSE ota

Submit(r, kind, pc) ==
    /\ job[r].pc = "none" /\ submits < MaxSubmits
    /\ \E c \in Boxes :
        /\ IsUp(c)
        /\ job' = [job EXCEPT ![r] = [NoJob EXCEPT !.kind = kind, !.self = c, !.pc = pc,
                                                  !.cand = box[c].image]]
    /\ WriteStatus(kind, "running")
    /\ submits' = submits + 1
    /\ spoilt' = (spoilt \/ ~AtRest)
    /\ UNCHANGED <<box, tag, helper, runnerName, moves, verified, faults>> /\ Quiet

SubmitUpdate(r) == Submit(r, "update", "ready")
\* RestartSelf keeps the image and asks nothing of the runner.
SubmitRestart(r) == Submit(r, "restart", "self")

\* Return with an error: an update records it, a restart only logs it.
Abandon(r) ==
    /\ job' = [job EXCEPT ![r] = NoJob]
    /\ WriteStatus(job[r].kind, "failed")

\* A Docker or registry call fails before anything was changed.
GiveUp(r) ==
    /\ job[r].pc \in {"ready", "signature", "pull", "self", "rename"} /\ Fault
    /\ Abandon(r)
    /\ UNCHANGED <<box, tag, helper, rest, verified, spoilt>> /\ Quiet

\* RequireExternalRuntimeReady, then the digest the tag stands for.
CheckReady(r) ==
    /\ job[r].pc = "ready"
    /\ IF Ready
       THEN /\ job' = [job EXCEPT ![r].pc = "signature", ![r].cand = tag]
            /\ ota' = "running"
       ELSE Abandon(r)
    /\ UNCHANGED <<box, tag, helper, rest, verified, spoilt, faults>> /\ Quiet

VerifySignature(r) ==
    /\ job[r].pc = "signature"
    /\ IF job[r].cand \in Signed
       THEN Step(r, "pull") /\ ota' = "running" /\ verified' = verified \cup {job[r].cand}
       ELSE Abandon(r) /\ UNCHANGED verified
    /\ UNCHANGED <<box, tag, helper, rest, spoilt, faults>> /\ Quiet

\* The pull is pinned to the digest, whatever the tag has moved to meanwhile.
PullByTag(r) ==
    /\ job[r].pc = "pull"
    /\ job' = [job EXCEPT ![r].pc = "self", ![r].cand = tag]
    /\ UNCHANGED <<box, tag, helper, ota, rest, verified, spoilt, faults>> /\ Quiet
Pull(r) ==
    /\ job[r].pc = "pull"
    /\ Step(r, "self")
    /\ UNCHANGED <<box, tag, helper, ota, rest, verified, spoilt, faults>> /\ Quiet

\* Inspect the own container; an update also checks that the runner's name is
\* none of those it is about to use (validateExternalRunnerIdentity).
InspectSelfOnly(r) ==
    /\ job[r].pc = "self"
    /\ Step(r, "clean") /\ UNCHANGED ota
    /\ UNCHANGED <<box, tag, helper, rest, verified, spoilt, faults>> /\ Quiet
InspectSelf(r) ==
    /\ job[r].pc = "self"
    /\ IF job[r].kind = "update" /\ runnerName \in Reserved
       THEN Abandon(r)
       ELSE Step(r, "clean") /\ UNCHANGED ota
    /\ UNCHANGED <<box, tag, helper, rest, verified, spoilt, faults>> /\ Quiet

\* Whatever is called <name>-old is stopped and removed, the own container
\* and the runner not excepted.  Errors are dropped.
CleanOld(r) ==
    /\ job[r].pc = "clean"
    /\ \/ /\ \A c \in Boxes : box[c].name # "panel-old"
          /\ Step(r, "clean_helper")
          /\ UNCHANGED <<box, spoilt, rows, files, saved, phase, at, LocalVars,
                         state, edits, unsure>>
          /\ IF runnerName = "panel-old"
             THEN up' = FALSE /\ live' = Stopped /\ runnerName' = "removed"
             ELSE UNCHANGED <<up, live, runnerName>>
       \/ \E c \in Boxes :
          /\ box[c].name = "panel-old"
          /\ box' = [box EXCEPT ![c] = Absent]
          /\ job' = [KilledJobs(c) EXCEPT ![r] =
                       IF job[r].self = c THEN NoJob ELSE [job[r] EXCEPT !.pc = "clean_helper"]]
          /\ spoilt' = (spoilt \/ IsUp(c))
          /\ Die(c) /\ UNCHANGED runnerName
    /\ UNCHANGED <<tag, helper, ota, submits, moves, verified, faults>>

\* docker stop zenith-updater: a helper at work gets TERM and rolls back if it
\* had begun to switch; docker rm -f ends it wherever it is by then.
CleanHelper(r) ==
    /\ job[r].pc = "clean_helper"
    /\ IF helper.pc = "none" THEN Step(r, "rename") /\ UNCHANGED <<helper, spoilt>>
       ELSE /\ spoilt' = TRUE
            /\ \/ helper' = NoHelper /\ Step(r, "rename")
               \/ /\ helper.pc \in {"stop", "start", "image", "health", "commit"}
                  /\ helper' = [helper EXCEPT !.pc = "rb_remove"]
                  /\ UNCHANGED job
    /\ UNCHANGED <<box, tag, ota, rest, verified, faults>> /\ Quiet

Rename(r) ==
    /\ job[r].pc = "rename"
    /\ IF NameTaken("panel-old") \/ ~Exists(job[r].self)
       THEN Abandon(r) /\ UNCHANGED box
       ELSE /\ box' = [box EXCEPT ![job[r].self].name = "panel-old"]
            /\ Step(r, "create") /\ UNCHANGED ota
    /\ UNCHANGED <<tag, helper, rest, verified, spoilt, faults>> /\ Quiet

\* Undo the rename, and forget the container created, if it was; an undo that
\* fails is not reported.
UndoRename(r, made) ==
    LET rid == [c \in Boxes |-> IF c = made THEN Absent ELSE box[c]]
        free == \A c \in Boxes \ {job[r].self} : rid[c].name # "panel"
    IN  IF free THEN box' = [rid EXCEPT ![job[r].self].name = "panel"] /\ UNCHANGED spoilt
        ELSE box' = rid /\ spoilt' = TRUE

\* The successor: same configuration, the candidate's image ID, the old name.
Create(r) ==
    /\ job[r].pc = "create"
    /\ IF NameTaken("panel") \/ \A c \in Boxes : Exists(c)
       THEN UndoRename(r, NoBox) /\ Abandon(r)
       ELSE LET c == CHOOSE b \in Boxes : ~Exists(b)
            IN  /\ box' = [box EXCEPT ![c] = [name |-> "panel", image |-> job[r].cand,
                                              st |-> "created"]]
                /\ job' = [job EXCEPT ![r].new = c, ![r].pc = "helper"]
                /\ UNCHANGED <<ota, spoilt>>
    /\ UNCHANGED <<tag, helper, rest, verified, faults>> /\ Quiet

CreateFails(r) ==
    /\ job[r].pc \in {"create", "helper"} /\ Fault
    /\ \/ UndoRename(r, job[r].new)
       \/ UNCHANGED box /\ spoilt' = TRUE
    /\ Abandon(r)
    /\ UNCHANGED <<tag, helper, rest, verified>> /\ Quiet

StartHelper(r) ==
    /\ job[r].pc = "helper"
    /\ IF helper.pc # "none" \/ runnerName = "zenith-updater"
       THEN UndoRename(r, job[r].new) /\ Abandon(r) /\ UNCHANGED helper
       ELSE /\ helper' = [NoHelper EXCEPT !.pc = "begin", !.kind = job[r].kind,
                !.old = job[r].self, !.new = job[r].new, !.image = job[r].cand]
            /\ Step(r, "report") /\ UNCHANGED <<box, ota, spoilt>>
    /\ UNCHANGED <<tag, rest, verified, faults>> /\ Quiet

\* The helper may have written the file before this.
Report(r) ==
    /\ job[r].pc = "report"
    /\ WriteStatus(job[r].kind, "running")
    /\ job' = [job EXCEPT ![r] = NoJob]
    /\ UNCHANGED <<box, tag, helper, rest, verified, spoilt, faults>> /\ Quiet

-----------------------------------------------------------------------------
(* swapScript, one action per docker command.                              *)

HelperStep(pc) == helper' = [helper EXCEPT !.pc = pc]
KeepRest == UNCHANGED <<tag, rest, verified>>

Switch ==
    /\ helper.pc = "begin"
    /\ HelperStep("stop") /\ ota' = "running"
    /\ UNCHANGED <<box, job, spoilt, faults>> /\ KeepRest /\ Quiet

StopOld ==
    /\ helper.pc = "stop"
    /\ IF Exists(helper.old)
       THEN /\ box' = [box EXCEPT ![helper.old].st = "down"]
            /\ job' = KilledJobs(helper.old)
            /\ HelperStep("start") /\ Die(helper.old)
       ELSE HelperStep("rb_remove") /\ UNCHANGED <<box, job>> /\ Quiet
    /\ UNCHANGED <<ota, spoilt, faults>> /\ KeepRest

StartNew ==
    /\ helper.pc = "start"
    /\ IF Exists(helper.new)
       THEN box' = [box EXCEPT ![helper.new].st = "up"] /\ HelperStep("image")
       ELSE UNCHANGED box /\ HelperStep("rb_remove")
    /\ UNCHANGED <<job, ota, spoilt, faults>> /\ KeepRest /\ Quiet

\* Only an update passes the image ID to compare with.
CheckImage ==
    /\ helper.pc = "image"
    /\ IF helper.kind = "update" /\ ~(Exists(helper.new) /\ box[helper.new].image = helper.image)
       THEN HelperStep("rb_remove") /\ UNCHANGED ota
       ELSE HelperStep("health") /\ ota' = "running"
    /\ UNCHANGED <<box, job, spoilt, faults>> /\ KeepRest /\ Quiet

\* Three ready answers in a row commit, MaxPolls attempts are made.
PollOnce ==
    /\ helper.pc = "health"
    /\ helper' = [helper EXCEPT !.pc = IF IsUp(helper.new) THEN "commit" ELSE "rb_remove"]
    /\ UNCHANGED <<box, job, ota, spoilt, faults>> /\ KeepRest /\ Quiet
Poll ==
    /\ helper.pc = "health"
    /\ \/ /\ Answers(helper.new) /\ helper.polls < MaxPolls
          /\ helper' = [helper EXCEPT !.ok = @ + 1, !.polls = @ + 1,
                          !.pc = IF helper.ok = 2 THEN "commit" ELSE "health"]
       \/ /\ helper.polls < MaxPolls
          /\ helper' = [helper EXCEPT !.ok = 0, !.polls = @ + 1]
       \/ /\ helper.polls = MaxPolls
          /\ HelperStep("rb_remove")
    /\ UNCHANGED <<box, job, ota, spoilt, faults>> /\ KeepRest /\ Quiet

RemoveOld ==
    /\ helper.pc = "commit"
    /\ IF Exists(helper.old) /\ ~IsUp(helper.old)
       THEN box' = [box EXCEPT ![helper.old] = Absent] /\ HelperStep("done")
       ELSE UNCHANGED box /\ HelperStep("rb_remove")
    /\ UNCHANGED <<job, ota, spoilt, faults>> /\ KeepRest /\ Quiet

Succeed ==
    /\ helper.pc = "done"
    /\ ota' = "succeeded" /\ helper' = NoHelper
    /\ UNCHANGED <<box, job, spoilt, faults>> /\ KeepRest /\ Quiet

\* A docker command of the script fails: the EXIT trap rolls back.
SwitchFails ==
    /\ helper.pc \in {"stop", "start", "commit"} /\ Fault
    /\ HelperStep("rb_remove")
    /\ UNCHANGED <<box, job, ota, spoilt>> /\ KeepRest /\ Quiet

RemoveNew ==
    /\ helper.pc = "rb_remove"
    /\ IF Exists(helper.new)
       THEN /\ box' = [box EXCEPT ![helper.new] = Absent]
            /\ job' = KilledJobs(helper.new)
            /\ HelperStep("rb_rename") /\ Die(helper.new)
       ELSE /\ helper' = [helper EXCEPT !.pc = "rb_rename", !.restored = FALSE]
            /\ UNCHANGED <<box, job>> /\ Quiet
    /\ UNCHANGED <<ota, spoilt, faults>> /\ KeepRest

RenameBack ==
    /\ helper.pc = "rb_rename"
    /\ IF Exists(helper.old) /\ ~NameTaken("panel")
       THEN box' = [box EXCEPT ![helper.old].name = "panel"] /\ HelperStep("rb_start")
       ELSE UNCHANGED box /\ helper' = [helper EXCEPT !.pc = "rb_start", !.restored = FALSE]
    /\ UNCHANGED <<job, ota, spoilt, faults>> /\ KeepRest /\ Quiet

StartOld ==
    /\ helper.pc = "rb_start"
    /\ IF Exists(helper.old)
       THEN /\ box' = [box EXCEPT ![helper.old].st = "up"]
            /\ HelperStep("rb_health")
       ELSE UNCHANGED box /\ helper' = [helper EXCEPT !.pc = "rb_health", !.restored = FALSE]
    /\ UNCHANGED <<job, ota, spoilt, faults>> /\ KeepRest /\ Quiet

\* Each command of the rollback may fail; the next ones are tried all the same.
RollbackFails ==
    /\ helper.pc \in {"rb_remove", "rb_rename", "rb_start"} /\ Fault
    /\ helper' = [helper EXCEPT !.restored = FALSE,
                    !.pc = CASE helper.pc = "rb_remove" -> "rb_rename"
                             [] helper.pc = "rb_rename" -> "rb_start"
                             [] helper.pc = "rb_start" -> "rb_health"]
    /\ UNCHANGED <<box, job, ota, spoilt>> /\ KeepRest /\ Quiet

\* rolled_back is written when every command worked and the old panel answers.
ReportRollbackAlways ==
    /\ helper.pc = "rb_health"
    /\ ota' = "rolled_back" /\ UNCHANGED spoilt
    /\ helper' = NoHelper
    /\ UNCHANGED <<box, job, faults>> /\ KeepRest /\ Quiet
ReportRollback ==
    /\ helper.pc = "rb_health"
    /\ \/ /\ helper.restored /\ IsUp(helper.old)
          /\ ota' = "rolled_back" /\ UNCHANGED spoilt
       \/ ota' = "rollback_failed" /\ spoilt' = TRUE
    /\ helper' = NoHelper
    /\ UNCHANGED <<box, job, faults>> /\ KeepRest /\ Quiet

-----------------------------------------------------------------------------
(* The environment.                                                        *)

MoveTag ==
    /\ moves < MaxMoves /\ moves' = moves + 1
    /\ \E i \in Images \ {tag} : tag' = i
    /\ UNCHANGED <<box, job, helper, ota, runnerName, submits, verified, spoilt, faults>>
    /\ Quiet

\* The panel process crashes and Docker (--restart always) starts it again.
PanelCrashes ==
    /\ \E c \in Boxes :
        /\ IsUp(c) /\ Fault /\ PanelDies
        /\ job' = KilledJobs(c)
        /\ spoilt' = (spoilt \/ job' # job)
    /\ UNCHANGED <<box, tag, helper, ota, rest, verified>>

\* Docker restarts every container that was ever started, the helper excepted;
\* on the host's network only one panel can bind the port.
HostReboots ==
    /\ Fault /\ PanelDies
    /\ \E c \in Boxes :
        /\ box[c].st \in {"up", "down"}
        /\ box' = [b \in Boxes |-> IF box[b].st \in {"up", "down"}
                     THEN [box[b] EXCEPT !.st = IF b = c THEN "up" ELSE "down"] ELSE box[b]]
    /\ helper' = NoHelper /\ job' = [r \in Requests |-> NoJob]
    /\ spoilt' = (spoilt \/ ~AtRest)
    /\ UNCHANGED <<tag, ota, rest, verified>>

Request(r) ==
    \/ GiveUp(r) \/ CheckReady(r) \/ VerifySignature(r) \/ Pull(r) \/ InspectSelf(r)
    \/ CleanOld(r) \/ CleanHelper(r) \/ Rename(r) \/ Create(r) \/ CreateFails(r)
    \/ StartHelper(r) \/ Report(r)

Helper ==
    \/ Switch \/ StopOld \/ StartNew \/ CheckImage \/ Poll \/ RemoveOld \/ Succeed
    \/ SwitchFails \/ RemoveNew \/ RenameBack \/ StartOld \/ RollbackFails \/ ReportRollback

\* The runner's module, its transaction running in a live panel only.
Runner ==
    /\ \/ (\E c \in Boxes : IsUp(c)) /\ \E m \in ApplyModes : Apply(m)
       \/ Transaction
       \/ EngineExits \/ RunnerStarts \/ EditRow
    /\ runnerName = "removed" => ~up'
    /\ UNCHANGED otaVars

Next ==
    \/ Runner
    \/ \E r \in Requests : SubmitUpdate(r) \/ SubmitRestart(r) \/ Request(r)
    \/ Helper
    \/ MoveTag \/ PanelCrashes \/ HostReboots

Spec == Init /\ [][Next]_vars

-----------------------------------------------------------------------------
\* From the stop of the old container to the commit, the container to return
\* to exists; it is gone only when the new one has answered three times in a
\* row (swapScript).  Requests that meet each other are excepted.
TrialKeepsOld ==
    helper.pc # "none" /\ ~spoilt =>
        /\ helper.pc # "done" => Exists(helper.old)
        /\ helper.pc \in {"commit", "done"} =>
             box[helper.new].image \in Sound /\ helper.ok = 3

\* Once nothing is in progress the file tells the truth: succeeded names the
\* one running panel, rolled_back the old one under its own name.
StatusIsTrue ==
    AtRest /\ ~spoilt /\ ota \in {"succeeded", "rolled_back"} =>
        \E c \in Boxes :
            /\ IsUp(c) /\ box[c].name = "panel"
            /\ \A d \in Boxes \ {c} : ~Exists(d)

\* No panel container ever has an image whose signature was not verified,
\* although the tag may move at any moment.
OnlyVerifiedImages == \A c \in Boxes : Exists(c) => box[c].image \in verified

\* An update's own steps never stop the runner, whatever it is called.
UpdateSparesRunner ==
    [][\A r \in Requests : job[r].kind = "update" /\ Request(r) => live' = live]_vars
=============================================================================
