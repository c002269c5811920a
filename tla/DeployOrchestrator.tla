------------------------- MODULE DeployOrchestrator -------------------------
(***************************************************************************)
(* Smart Deploy (service/deploy/orchestrator.go): a deployment carries out *)
(* the operations of a plan, certificate, tuning, inbounds, keeps one      *)
(* journal row per operation, activates the result through the proxy       *)
(* runtime, and undoes the operations when something fails or when an      *)
(* administrator rolls it back.                                            *)
(*                                                                         *)
(* opMu admits one Apply or Rollback at a time; the request inside it is   *)
(* the record job.  Between any two of its steps the request may be        *)
(* cancelled, somebody else may apply the runtime or delete an inbound,    *)
(* and the panel may die.                                                  *)
(*                                                                         *)
(* All tuning operations of one name write one drop-in file, so one file   *)
(* stands for tuning.  An inbound row is named by the operation that       *)
(* created it.  ApplyRuntime is what ProxyRuntime shows it to be: on       *)
(* success the engines serve the table, on failure what they served.       *)
(***************************************************************************)
EXTENDS Naturals, Sequences

CONSTANTS
    Deployments,   \* ids of deployments
    NoDeployment,  \* opMu is free
    Plan,          \* the operations of a preset, in order
    Contents,      \* contents a tuning operation may write
    Absent,        \* the drop-in file does not exist
    MaxFaults, MaxCrashes, MaxEdits   \* bounds on failing calls, panel crashes, deleted inbounds

OpTypes == {"cert", "tune", "inbound"}

ASSUME DeployAssumption ==
    /\ NoDeployment \notin Deployments
    /\ Plan \in Seq(OpTypes) /\ Plan # <<>>
    /\ \A k, l \in DOMAIN Plan : Plan[k] = "tune" /\ Plan[l] = "tune" => k = l
    /\ Absent \notin Contents
    /\ MaxFaults \in Nat /\ MaxCrashes \in Nat /\ MaxEdits \in Nat

Steps == DOMAIN Plan
Rows == Deployments \X {k \in Steps : Plan[k] = "inbound"}
Phases == {"idle", "record", "act", "save", "undo", "activate", "list", "revert",
           "reapply", "mark"}

VARIABLES
    status,      \* Deployment.Status; "none" when there is no row
    op,          \* op[d][k]: DeploymentOp.Status; "none" when there is no row
    snapshot,    \* snapshot[d]: the content that the tuning operation of d replaced
    dropin,      \* the content of the drop-in file
    table,       \* inbounds that exist
    served,      \* inbounds the engines serve
    phase,
    job,         \* the request that holds opMu
    faults, crashes, edits,
    \* history, read by properties only
    original,    \* the content of the file before any deployment
    stack,       \* deployments whose tuning is in place, the latest last
    astray       \* tuning was left behind, or undone out of order

stored == <<status, op, snapshot>>
host == <<dropin, table, served>>
boundVars == <<faults, crashes, edits>>
tuning == <<dropin, stack, astray>>
vars == <<stored, host, phase, job, boundVars, original, stack, astray>>

\* Why the job is where it is: an Apply under way, the clean-up after a failed
\* operation or a failed activation, or a Rollback request.
Whys == {"deploying", "execute", "activation", "request"}
NoJob == [dep |-> NoDeployment, why |-> "request", k |-> 1, errs |-> FALSE, gone |-> FALSE]

-----------------------------------------------------------------------------
Init ==
    /\ status = [d \in Deployments |-> "none"]
    /\ op = [d \in Deployments |-> [k \in Steps |-> "none"]]
    /\ snapshot = [d \in Deployments |-> Absent]
    /\ dropin \in Contents \cup {Absent}
    /\ table = {} /\ served = {}
    /\ phase = "idle" /\ job = NoJob
    /\ faults = 0 /\ crashes = 0 /\ edits = 0
    /\ original = dropin
    /\ stack = <<>> /\ astray = FALSE

Fault == faults < MaxFaults /\ faults' = faults + 1
NoFault == UNCHANGED faults

\* The clean-up of a failed Apply runs without the request's cancellation.
Cancelled == job.gone /\ job.why \in {"deploying", "request"}

\* A call that takes the request's context succeeds or fails.
Succeeds == NoFault /\ ~Cancelled
Fails == IF Cancelled THEN NoFault ELSE Fault

this == job.dep
type == Plan[job.k]
row == <<this, job.k>>

SetOp(s) == op' = [op EXCEPT ![this][job.k] = s]
Goto(p) == phase' = p /\ UNCHANGED job

(* A definition whose name extends that of the next one is the same code   *)
(* with a plausible bug in it.                                             *)

\* On to the next operation, or to the activation after the last one.
Advance ==
    IF job.k = Len(Plan)
    THEN phase' = "activate" /\ UNCHANGED job
    ELSE phase' = "record" /\ job' = [job EXCEPT !.k = @ + 1]

CleanUp(why) == phase' = "list" /\ job' = [job EXCEPT !.why = why]

-----------------------------------------------------------------------------
(* Apply.                                                                  *)

Apply(d) ==
    /\ phase = "idle" /\ status[d] = "none"
    /\ status' = [status EXCEPT ![d] = "running"]
    /\ phase' = "record"
    /\ job' = [NoJob EXCEPT !.dep = d, !.why = "deploying"]
    /\ UNCHANGED <<op, snapshot, host, boundVars, original, stack, astray>>

\* The journal row comes before the operation.
Record ==
    /\ phase = "record"
    /\ \/ NoFault /\ SetOp("pending") /\ Goto("act")
       \/ Fault /\ UNCHANGED op /\ CleanUp("execute")
    /\ UNCHANGED <<status, snapshot, host, crashes, edits, original, stack, astray>>

\* writeDropin reads the file before it replaces it.
SnapshotAfterWrite(content) == snapshot' = [snapshot EXCEPT ![this] = content]
Snapshot(content) == snapshot' = [snapshot EXCEPT ![this] = dropin]

\* A tuning operation writes the file and has the kernel load it; when that
\* fails, or the request is cancelled meanwhile, the file stays.
Tune(content) ==
    /\ type = "tune"
    /\ Snapshot(content)
    /\ dropin' = content
    /\ stack' = Append(stack, this)
    /\ UNCHANGED <<table, served>>

Done ==
    \/ /\ type = "cert" /\ NoFault
       /\ UNCHANGED <<host, snapshot, stack>>
    \/ \E c \in Contents : Tune(c) /\ NoFault
    \/ /\ type = "inbound" /\ NoFault
       /\ table' = table \cup {row}
       /\ UNCHANGED <<dropin, served, snapshot, stack>>

Undone ==
    \/ /\ Fault \/ (Fails /\ type = "cert")
       /\ UNCHANGED <<host, snapshot, stack, astray>>
    \/ \E c \in Contents : Tune(c) /\ Fails /\ astray' = TRUE

Act ==
    /\ phase = "act"
    /\ \/ Done /\ Goto("save") /\ UNCHANGED <<op, astray>>
       \/ Undone /\ (SetOp("failed") \/ UNCHANGED op) /\ CleanUp("execute")
    /\ UNCHANGED <<status, crashes, edits, original>>

\* The journal row is set to applied.  When that fails, a certificate stays
\* and the other operations are undone at once.
Save ==
    /\ phase = "save"
    /\ \/ NoFault /\ SetOp("applied") /\ Advance
       \/ /\ Fault /\ UNCHANGED op
          /\ IF type = "cert" THEN CleanUp("execute") ELSE Goto("undo")
    /\ UNCHANGED <<status, snapshot, host, crashes, edits, original, stack, astray>>

\* revertFile: the file gets the content of the snapshot, whatever it holds
\* now.  Out of order, or a second time, that undoes a later deployment's
\* tuning.
Latest == stack # <<>> /\ stack[Len(stack)] = this
Restore ==
    /\ dropin' = snapshot[this]
    /\ IF Latest
       THEN stack' = SubSeq(stack, 1, Len(stack) - 1) /\ UNCHANGED astray
       ELSE /\ UNCHANGED stack
            /\ astray' = \/ astray
                         \/ dropin # snapshot[this]
                         \/ \E i \in DOMAIN stack : stack[i] = this

\* revertOne: certificates are kept.
Revert ==
    \/ type = "cert" /\ UNCHANGED <<host, stack, astray>>
    \/ type = "tune" /\ Restore /\ UNCHANGED <<table, served>>
    \/ type = "inbound" /\ table' = table \ {row} /\ UNCHANGED <<tuning, served>>

Undo ==
    /\ phase = "undo"
    /\ \/ NoFault /\ Revert
       \/ Fault /\ astray' = (astray \/ type = "tune") /\ UNCHANGED <<host, stack>>
    /\ CleanUp("execute")
    /\ UNCHANGED <<stored, crashes, edits, original>>

ActivateAnyway ==
    /\ phase = "activate"
    /\ \/ NoFault /\ Goto("mark") /\ UNCHANGED served
       \/ Succeeds /\ served' = table /\ Goto("mark")
       \/ Fails /\ CleanUp("activation") /\ UNCHANGED served
    /\ UNCHANGED <<stored, dropin, table, crashes, edits, original, stack, astray>>

\* The created inbounds are recorded on the deployment, and the runtime is
\* applied.
Activate ==
    /\ phase = "activate"
    /\ \/ Succeeds /\ served' = table /\ Goto("mark")
       \/ Fails /\ CleanUp("activation") /\ UNCHANGED served
       \/ Fault /\ CleanUp("execute") /\ UNCHANGED served
    /\ UNCHANGED <<stored, dropin, table, crashes, edits, original, stack, astray>>

-----------------------------------------------------------------------------
(* Rollback, and the clean-up that Apply shares with it.                   *)

Rollback(d) ==
    /\ phase = "idle" /\ status[d] \notin {"none", "rolled_back"}
    /\ phase' = "list"
    /\ job' = [NoJob EXCEPT !.dep = d]
    /\ UNCHANGED <<stored, host, boundVars, original, stack, astray>>

\* The operations a rollback undoes, from the last one down; pending and
\* failed ones are not among them.
Undoable(k) == op[this][k] \in {"applied", "revert_failed"}
Below(k) == {l \in Steps : l < k /\ Undoable(l)}

AfterReverts == IF job.why = "execute" THEN "mark" ELSE "reapply"

Continue(p, k, failed) ==
    phase' = p /\ job' = [job EXCEPT !.k = k, !.errs = @ \/ failed]

RevertNext(k, failed) ==
    \/ Below(k) = {} /\ Continue(AfterReverts, 1, failed)
    \/ \E l \in Below(k) : (\A m \in Below(k) : m <= l) /\ Continue("revert", l, failed)

List ==
    /\ phase = "list"
    /\ \/ Succeeds /\ RevertNext(Len(Plan) + 1, FALSE)
       \/ Fails /\ Continue(AfterReverts, 1, TRUE)
    /\ UNCHANGED <<stored, host, crashes, edits, original, stack, astray>>

OutcomeForgettingInbound(undone) ==
    IF undone \/ type = "inbound" THEN "reverted" ELSE "revert_failed"
Outcome(undone) == IF undone THEN "reverted" ELSE "revert_failed"

\* The operation's undo fails, or the write of its journal row, or both; neither
\* ends the rollback.
RevertOne ==
    /\ phase = "revert"
    /\ \E undone, written \in BOOLEAN :
          /\ type = "cert" => undone
          /\ Cancelled => ~written
          /\ IF undone THEN Revert ELSE UNCHANGED <<host, stack, astray>>
          /\ IF written THEN SetOp(Outcome(undone)) ELSE UNCHANGED op
          /\ RevertNext(job.k, ~undone \/ ~written)
          /\ faults' = faults + (IF undone THEN 0 ELSE 1)
                             + (IF written \/ Cancelled THEN 0 ELSE 1)
          /\ faults' <= MaxFaults
    /\ UNCHANGED <<status, snapshot, crashes, edits, original>>

\* The runtime is applied again, also when operations could not be undone.
Reapply ==
    /\ phase = "reapply"
    /\ \/ Succeeds /\ served' = table /\ UNCHANGED job
       \/ Fails /\ UNCHANGED served /\ job' = [job EXCEPT !.errs = TRUE]
    /\ phase' = "mark"
    /\ UNCHANGED <<stored, dropin, table, crashes, edits, original, stack, astray>>

VerdictOfRequest ==
    CASE job.why = "deploying" -> "succeeded"
      [] job.why = "request" -> "rolled_back"
      [] OTHER -> "failed"
Verdict ==
    CASE job.why = "deploying" -> "succeeded"
      [] job.why = "request" /\ ~job.errs -> "rolled_back"
      [] OTHER -> "failed"

\* The outcome is written and opMu released; a write that fails leaves the
\* old status.
Mark ==
    /\ phase = "mark"
    /\ \/ NoFault /\ status' = [status EXCEPT ![this] = Verdict]
       \/ Fault /\ UNCHANGED status
    /\ phase' = "idle" /\ job' = NoJob
    /\ UNCHANGED <<op, snapshot, host, crashes, edits, original, stack, astray>>

-----------------------------------------------------------------------------
(* Everybody else.                                                         *)

Cancel ==
    /\ phase # "idle" /\ ~job.gone
    /\ job' = [job EXCEPT !.gone = TRUE]
    /\ UNCHANGED <<stored, host, phase, boundVars, original, stack, astray>>

\* POST /proxy/apply.
ApplyRuntime ==
    /\ served' = table
    /\ UNCHANGED <<stored, dropin, table, phase, job, boundVars, original, stack, astray>>

DeleteInbound ==
    /\ edits < MaxEdits /\ edits' = edits + 1
    /\ \E r \in table : table' = table \ {r}
    /\ UNCHANGED <<stored, dropin, served, phase, job, faults, crashes, original, stack, astray>>

\* The panel dies and is started again; at boot it starts the engines, or fails
\* to.
Crash ==
    /\ crashes < MaxCrashes /\ crashes' = crashes + 1
    /\ phase' = "idle" /\ job' = NoJob
    /\ served' \in {table, {}}
    /\ astray' = (astray \/ (phase \in {"save", "undo"} /\ type = "tune"))
    /\ UNCHANGED <<stored, dropin, table, faults, edits, original, stack>>

Next ==
    \/ \E d \in Deployments : Apply(d) \/ Rollback(d)
    \/ Record \/ Act \/ Save \/ Undo \/ Activate
    \/ List \/ RevertOne \/ Reapply \/ Mark
    \/ Cancel \/ ApplyRuntime \/ DeleteInbound \/ Crash

Spec == Init /\ [][Next]_vars

-----------------------------------------------------------------------------
TypeOK ==
    /\ status \in [Deployments -> {"none", "running", "succeeded", "failed", "rolled_back"}]
    /\ op \in [Deployments -> [Steps -> {"none", "pending", "applied", "failed",
                                         "reverted", "revert_failed"}]]
    /\ snapshot \in [Deployments -> Contents \cup {Absent}]
    /\ dropin \in Contents \cup {Absent} /\ original \in Contents \cup {Absent}
    /\ table \subseteq Rows /\ served \subseteq Rows
    /\ phase \in Phases
    /\ job \in [dep : Deployments \cup {NoDeployment}, why : Whys, k : Steps,
                errs : BOOLEAN, gone : BOOLEAN]
    /\ phase = "idle" <=> job.dep = NoDeployment
    /\ stack \in Seq(Deployments) /\ astray \in BOOLEAN
    /\ faults \in Nat /\ crashes \in Nat /\ edits \in Nat

StatusOf(r) == op[r[1]][r[2]]

\* "Ops are written before their side effects so that a crash mid-apply still
\* leaves a breadcrumb": an inbound that a deployment created is never without
\* a journal row that says it may exist, whatever fails or crashes.
JournalKnowsInbounds ==
    \A r \in table : StatusOf(r) \in {"pending", "applied", "revert_failed"}

\* A deployment that is rolled back has no inbound left, neither in the table
\* nor in the engines, but for one that a crash or a double failure cut off
\* from its journal row.
RolledBackIsGone ==
    \A d \in Deployments : status[d] = "rolled_back" =>
        /\ \A k \in Steps : op[d][k] \notin {"applied", "revert_failed"}
        /\ \A r \in table \cup served : r[1] = d => StatusOf(r) = "pending"

\* Undoing deployments restores the drop-in file: when none is in place and
\* nothing was left behind or undone out of order, the file is the original
\* one, however often failed rollbacks were repeated.
FilesRestored ==
    /\ phase = "idle" /\ ~astray
    /\ \A d \in Deployments, k \in Steps :
          Plan[k] = "tune" => op[d][k] \notin {"applied", "revert_failed"}
    => dropin = original

\* A deployment that is reported as succeeded has done every operation, and
\* the engines serve each of its inbounds that nobody has deleted.
SucceededIsServed ==
    [][\A d \in Deployments :
          status[d] # "succeeded" /\ status'[d] = "succeeded" =>
              /\ \A k \in Steps : op[d][k] = "applied"
              /\ \A r \in table : r[1] = d => r \in served]_vars
=============================================================================
