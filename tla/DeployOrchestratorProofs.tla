---------------------- MODULE DeployOrchestratorProofs ----------------------
(***************************************************************************)
(* Proofs about DeployOrchestrator for any set of deployments, any plan    *)
(* with at most one tuning, any contents and any bounds: the journal knows *)
(* the inbounds that exist, a rollback that reports success has removed    *)
(* them, and a deployment that reports success has its inbounds served.    *)
(***************************************************************************)
EXTENDS DeployOrchestrator, SequenceTheorems, TLAPS

Statuses == {"none", "running", "succeeded", "failed", "rolled_back"}
OpStatuses == {"none", "pending", "applied", "failed", "reverted", "revert_failed"}
Jobs == [dep : Deployments \cup {NoDeployment}, why : Whys, k : Steps,
         errs : BOOLEAN, gone : BOOLEAN]

\* A plan has a first operation, and every other one has a predecessor in it.
LEMMA StepsAreNumbers ==
    /\ Steps = 1 .. Len(Plan)
    /\ Len(Plan) \in Nat \ {0}
    /\ 1 \in Steps
BY DeployAssumption, EmptySeq DEF Steps


-----------------------------------------------------------------------------
LEMMA TypeInit == Init => TypeOK
<1> SUFFICES ASSUME Init PROVE TypeOK
    OBVIOUS
<1>1. job \in Jobs /\ phase \in Phases /\ (phase = "idle" <=> job.dep = NoDeployment)
    BY StepsAreNumbers DEF Init, NoJob, Jobs, Whys, Phases
<1>2. stack \in Seq(Deployments) /\ astray \in BOOLEAN
    BY EmptySeq DEF Init
<1> QED BY <1>1, <1>2 DEF Init, TypeOK, Jobs

\* A rollback moves on to a step of the plan.
LEMMA ContinueTypes ==
    ASSUME TypeOK, NEW p \in Phases, NEW l \in Steps, NEW failed \in BOOLEAN,
           Continue(p, l, failed)
    PROVE  phase' \in Phases /\ job' \in Jobs /\ job'.dep = job.dep
BY DEF TypeOK, Continue, Jobs

LEMMA RevertNextTypes ==
    ASSUME TypeOK, NEW k \in Nat, NEW failed \in BOOLEAN, RevertNext(k, failed)
    PROVE  /\ phase' \in Phases \ {"idle"} /\ job' \in Jobs /\ job'.dep = job.dep
           /\ job'.why = job.why /\ job'.gone = job.gone
<1>1. AfterReverts \in Phases \ {"idle"} /\ "revert" \in Phases \ {"idle"}
    BY DEF AfterReverts, Phases
<1>2. CASE Below(k) = {} /\ Continue(AfterReverts, 1, failed)
    BY <1>1, <1>2, StepsAreNumbers DEF TypeOK, Continue, Jobs
<1>3. ASSUME NEW l \in Below(k), Continue("revert", l, failed)
      PROVE  /\ phase' \in Phases \ {"idle"} /\ job' \in Jobs /\ job'.dep = job.dep
             /\ job'.why = job.why /\ job'.gone = job.gone
    BY <1>1, <1>3 DEF TypeOK, Continue, Jobs, Below
<1> QED BY <1>2, <1>3 DEF RevertNext

\* The job types of the other ways to move on.
LEMMA JobTypes ==
    ASSUME TypeOK, phase # "idle"
    PROVE  /\ \A p \in Phases \ {"idle"} : Goto(p) =>
                  phase' \in Phases /\ job' \in Jobs /\ phase' # "idle" /\ job'.dep = job.dep
           /\ \A w \in Whys : CleanUp(w) =>
                  phase' \in Phases /\ job' \in Jobs /\ phase' # "idle" /\ job'.dep = job.dep
           /\ Advance =>
                  phase' \in Phases /\ job' \in Jobs /\ phase' # "idle" /\ job'.dep = job.dep
           /\ this \in Deployments
<1>1. job \in Jobs /\ job.dep # NoDeployment
    BY DEF TypeOK, Jobs
<1>2. ASSUME NEW p \in Phases \ {"idle"}, Goto(p)
      PROVE  phase' \in Phases /\ job' \in Jobs /\ phase' # "idle" /\ job'.dep = job.dep
    BY <1>1, <1>2 DEF Goto
<1>3. ASSUME NEW w \in Whys, CleanUp(w)
      PROVE  phase' \in Phases /\ job' \in Jobs /\ phase' # "idle" /\ job'.dep = job.dep
    BY <1>1, <1>3 DEF CleanUp, Jobs, Phases
<1>4. ASSUME Advance
      PROVE  phase' \in Phases /\ job' \in Jobs /\ phase' # "idle" /\ job'.dep = job.dep
    BY <1>1, <1>4, StepsAreNumbers DEF Advance, Jobs, Phases
<1> QED BY <1>1, <1>2, <1>3, <1>4 DEF Jobs, this

\* What a tuning and its undo leave behind.
LEMMA TuneTypes ==
    ASSUME TypeOK, phase # "idle"
    PROVE  /\ \A c \in Contents : Tune(c) =>
                  /\ snapshot' \in [Deployments -> Contents \cup {Absent}]
                  /\ dropin' \in Contents \cup {Absent}
                  /\ stack' \in Seq(Deployments)
                  /\ table' = table /\ served' = served
           /\ Revert =>
                  /\ dropin' \in Contents \cup {Absent}
                  /\ stack' \in Seq(Deployments) /\ astray' \in BOOLEAN
                  /\ table' \subseteq table /\ served' = served
<1>1. this \in Deployments
    BY JobTypes
<1>2. ASSUME NEW c \in Contents, Tune(c)
      PROVE  /\ snapshot' \in [Deployments -> Contents \cup {Absent}]
             /\ dropin' \in Contents \cup {Absent}
             /\ stack' \in Seq(Deployments)
             /\ table' = table /\ served' = served
    <2>1. stack' \in Seq(Deployments)
        BY <1>1, <1>2, AppendProperties DEF Tune, TypeOK
    <2> QED BY <1>1, <1>2, <2>1 DEF Tune, Snapshot, TypeOK
<1>3. ASSUME Revert
      PROVE  /\ dropin' \in Contents \cup {Absent}
             /\ stack' \in Seq(Deployments) /\ astray' \in BOOLEAN
             /\ table' \subseteq table /\ served' = served
    <2>1. CASE type = "tune" /\ Restore /\ UNCHANGED <<table, served>>
        <3>1. CASE Latest
            <4>1. stack \in Seq(Deployments) /\ Len(stack) \in Nat
                BY DEF TypeOK
            <4>2. \A i \in 1 .. Len(stack) - 1 : stack[i] \in Deployments
                BY <4>1, ElementOfSeq
            <4>3. SubSeq(stack, 1, Len(stack) - 1) \in Seq(Deployments)
                BY <4>1, <4>2, SubSeqProperties
            <4> QED BY <1>1, <2>1, <3>1, <4>3 DEF Restore, TypeOK
        <3>2. CASE ~Latest
            BY <1>1, <2>1, <3>2 DEF Restore, TypeOK
        <3> QED BY <3>1, <3>2
    <2>2. CASE type # "tune"
        BY <1>3, <2>2 DEF Revert, host, tuning, TypeOK
    <2> QED BY <1>3, <2>1, <2>2 DEF Revert
<1> QED BY <1>2, <1>3

\* A journal row takes the status it is given, and no other row changes.
LEMMA SetOpTypes ==
    ASSUME TypeOK, this \in Deployments, NEW s \in OpStatuses, SetOp(s)
    PROVE  /\ op' \in [Deployments -> [Steps -> OpStatuses]]
           /\ op'[this][job.k] = s
           /\ \A d \in Deployments, k \in Steps :
                 d # this \/ k # job.k => op'[d][k] = op[d][k]
BY DEF SetOp, TypeOK, OpStatuses

LEMMA FaultTypes ==
    ASSUME TypeOK, NoFault \/ Fault \/ Succeeds \/ Fails
    PROVE  faults' \in Nat
<1>1. NoFault \/ Fault
    BY DEF Succeeds, Fails
<1> QED BY <1>1 DEF NoFault, Fault, TypeOK

LEMMA TypeStep ==
    TypeOK /\ [Next]_vars => TypeOK'
<1> SUFFICES ASSUME TypeOK, [Next]_vars PROVE TypeOK'
    OBVIOUS
<1> USE DEF stored, host, boundVars, Fault, NoFault, Succeeds, Fails
<1>1. CASE UNCHANGED vars
    BY <1>1 DEF vars, TypeOK
<1>2. ASSUME NEW d \in Deployments, Apply(d) PROVE TypeOK'
    <2>1. job' \in Jobs /\ phase' \in Phases /\ (phase' = "idle" <=> job'.dep = NoDeployment)
        BY <1>2, DeployAssumption, StepsAreNumbers DEF Apply, NoJob, Jobs, Phases, Whys
    <2> QED BY <1>2, <2>1 DEF Apply, TypeOK, Jobs
<1>3. ASSUME NEW d \in Deployments, Rollback(d) PROVE TypeOK'
    <2>1. job' \in Jobs /\ phase' \in Phases /\ (phase' = "idle" <=> job'.dep = NoDeployment)
        BY <1>3, DeployAssumption, StepsAreNumbers DEF Rollback, NoJob, Jobs, Phases, Whys
    <2> QED BY <1>3, <2>1 DEF Rollback, TypeOK, Jobs
<1>4. CASE Record
    <2>1. phase # "idle" /\ this \in Deployments
        BY <1>4, JobTypes DEF Record
    <2>2. op' \in [Deployments -> [Steps -> OpStatuses]]
        BY <1>4, <2>1, SetOpTypes DEF Record, OpStatuses, TypeOK
    <2>3. phase' \in Phases /\ job' \in Jobs /\ phase' # "idle" /\ job'.dep = job.dep
        BY <1>4, <2>1, JobTypes DEF Record, Phases, Whys
    <2>4. faults' \in Nat
        BY <1>4, FaultTypes DEF Record
    <2>5. UNCHANGED <<status, snapshot, host, crashes, edits, original, stack, astray>>
        BY <1>4 DEF Record
    <2>6. job'.dep # NoDeployment
        BY <2>1, <2>3 DEF TypeOK
    <2> QED BY <2>2, <2>3, <2>4, <2>5, <2>6 DEF TypeOK, OpStatuses, Jobs
<1>5. CASE Act
    <2>1. phase # "idle" /\ this \in Deployments
        BY <1>5, JobTypes DEF Act
    <2>2. CASE Done /\ Goto("save") /\ UNCHANGED <<op, astray>>
        <3>1. \/ UNCHANGED <<dropin, table, served, snapshot, stack>>
              \/ \E c \in Contents : Tune(c)
              \/ type = "inbound" /\ table' = table \cup {row} /\ UNCHANGED <<dropin, served, snapshot, stack>>
            BY <2>2 DEF Done
        <3>2. type = "inbound" => row \in Rows
            BY <2>1 DEF type, row, Rows, TypeOK, this
        <3>3. phase' \in Phases /\ job' \in Jobs /\ phase' # "idle" /\ job'.dep # NoDeployment
            BY <2>1, <2>2, JobTypes DEF TypeOK, Phases
        <3>4. faults' = faults
            BY <2>2 DEF Done
        <3> QED BY <1>5, <2>1, <2>2, <3>1, <3>2, <3>3, <3>4, TuneTypes DEF Act, TypeOK, Jobs
    <2>3. CASE Undone /\ (SetOp("failed") \/ UNCHANGED op) /\ CleanUp("execute")
        <3>1. \/ UNCHANGED <<dropin, table, served, snapshot, stack, astray>>
              \/ astray' = TRUE /\ \E c \in Contents : Tune(c)
            BY <2>3 DEF Undone
        <3>2. phase' \in Phases /\ job' \in Jobs /\ phase' # "idle" /\ job'.dep # NoDeployment
            BY <2>1, <2>3, JobTypes DEF TypeOK, Whys
        <3>3. faults' \in Nat
            BY <2>3 DEF Undone, TypeOK
        <3>4. op' \in [Deployments -> [Steps -> OpStatuses]]
            BY <2>1, <2>3 DEF SetOp, TypeOK, OpStatuses
        <3> QED BY <1>5, <2>1, <2>3, <3>1, <3>2, <3>3, <3>4, TuneTypes
                DEF Act, TypeOK, Jobs, OpStatuses
    <2> QED BY <1>5, <2>2, <2>3 DEF Act
<1>6. CASE Save
    <2>1. phase # "idle" /\ this \in Deployments
        BY <1>6, JobTypes DEF Save
    <2>2. phase' \in Phases /\ job' \in Jobs /\ phase' # "idle" /\ job'.dep # NoDeployment
        BY <1>6, <2>1, JobTypes DEF Save, TypeOK, Phases, Whys
    <2>3. op' \in [Deployments -> [Steps -> OpStatuses]] /\ faults' \in Nat
        <3>1. CASE NoFault /\ SetOp("applied")
            BY <2>1, <3>1, SetOpTypes, FaultTypes DEF OpStatuses
        <3>2. CASE Fault /\ UNCHANGED op
            BY <3>2, FaultTypes DEF TypeOK, OpStatuses
        <3> QED BY <1>6, <3>1, <3>2 DEF Save
    <2> QED BY <1>6, <2>2, <2>3 DEF Save, TypeOK, Jobs, OpStatuses
<1>7. CASE Undo
    <2>1. phase # "idle" /\ CleanUp("execute")
        BY <1>7 DEF Undo
    <2>2. phase' \in Phases /\ job' \in Jobs /\ phase' # "idle" /\ job'.dep # NoDeployment
        BY <2>1, JobTypes DEF TypeOK, Whys
    <2>3. /\ dropin' \in Contents \cup {Absent}
          /\ stack' \in Seq(Deployments) /\ astray' \in BOOLEAN
          /\ table' \subseteq Rows /\ served' \subseteq Rows /\ faults' \in Nat
        <3>1. CASE NoFault /\ Revert
            BY <2>1, <3>1, TuneTypes DEF TypeOK
        <3>2. CASE Fault /\ astray' = (astray \/ type = "tune") /\ UNCHANGED <<host, stack>>
            BY <3>2 DEF TypeOK
        <3> QED BY <1>7, <3>1, <3>2 DEF Undo
    <2> QED BY <1>7, <2>2, <2>3 DEF Undo, TypeOK, Jobs
<1>8. CASE Activate
    BY <1>8, JobTypes DEF Activate, TypeOK, Jobs, Phases, Whys
<1>9. CASE List
    <2>1. /\ phase' \in Phases \ {"idle"} /\ job' \in Jobs /\ job'.dep = job.dep
        <3>1. CASE RevertNext(Len(Plan) + 1, FALSE)
            <4>1. Len(Plan) + 1 \in Nat /\ FALSE \in BOOLEAN
                BY StepsAreNumbers
            <4> QED BY <3>1, <4>1, RevertNextTypes
        <3>2. CASE Continue(AfterReverts, 1, TRUE)
            BY <3>2, StepsAreNumbers DEF Continue, AfterReverts, Phases, TypeOK, Jobs
        <3> QED BY <1>9, <3>1, <3>2 DEF List
    <2>2. faults' \in Nat
        BY <1>9, FaultTypes DEF List
    <2> QED BY <1>9, <2>1, <2>2 DEF List, TypeOK, Jobs
<1>10. CASE RevertOne
    <2>1. phase # "idle" /\ this \in Deployments
        BY <1>10, JobTypes DEF RevertOne
    <2>2. PICK undone \in BOOLEAN, written \in BOOLEAN :
            /\ IF undone THEN Revert ELSE UNCHANGED <<host, stack, astray>>
            /\ IF written THEN SetOp(Outcome(undone)) ELSE UNCHANGED op
            /\ RevertNext(job.k, ~undone \/ ~written)
            /\ faults' = faults + (IF undone THEN 0 ELSE 1)
                               + (IF written \/ Cancelled THEN 0 ELSE 1)
        BY <1>10 DEF RevertOne
    <2>3. phase' \in Phases \ {"idle"} /\ job' \in Jobs /\ job'.dep = job.dep
        <3>1. job.k \in Nat
            BY StepsAreNumbers DEF TypeOK
        <3> QED BY <2>2, <3>1, RevertNextTypes
    <2>4. /\ dropin' \in Contents \cup {Absent}
          /\ stack' \in Seq(Deployments) /\ astray' \in BOOLEAN
          /\ table' \subseteq Rows /\ served' \subseteq Rows
        BY <2>1, <2>2, TuneTypes DEF TypeOK
    <2>5. op' \in [Deployments -> [Steps -> OpStatuses]]
        <3>1. Outcome(undone) \in OpStatuses
            BY DEF Outcome, OpStatuses
        <3>2. CASE SetOp(Outcome(undone))
            BY <2>1, <3>1, <3>2, SetOpTypes
        <3>3. CASE UNCHANGED op
            BY <3>3 DEF TypeOK, OpStatuses
        <3> QED BY <2>2, <3>2, <3>3
    <2>6. faults' \in Nat
        BY <2>2 DEF TypeOK
    <2> QED BY <1>10, <2>1, <2>3, <2>4, <2>5, <2>6 DEF RevertOne, TypeOK, Jobs, OpStatuses
<1>11. CASE Reapply
    <2>1. phase' = "mark" /\ phase # "idle" /\ job' \in Jobs /\ job'.dep = job.dep
        BY <1>11 DEF Reapply, TypeOK, Jobs
    <2> QED BY <1>11, <2>1 DEF Reapply, TypeOK, Jobs, Phases
<1>12. CASE Mark
    <2>1. job' \in Jobs /\ job'.dep = NoDeployment /\ phase' = "idle"
        BY <1>12, StepsAreNumbers DEF Mark, NoJob, Jobs, Whys
    <2>2. status' \in [Deployments -> Statuses]
        BY <1>12, JobTypes DEF Mark, TypeOK, Verdict, Statuses
    <2> QED BY <1>12, <2>1, <2>2 DEF Mark, TypeOK, Jobs, Phases, Statuses
<1>13. CASE Cancel
    <2>1. job' \in Jobs /\ job'.dep = job.dep
        BY <1>13 DEF Cancel, TypeOK, Jobs
    <2> QED BY <1>13, <2>1 DEF Cancel, TypeOK, Jobs
<1>14. CASE ApplyRuntime
    BY <1>14 DEF ApplyRuntime, TypeOK
<1>15. CASE DeleteInbound
    BY <1>15 DEF DeleteInbound, TypeOK
<1>16. CASE Crash
    <2>1. job' \in Jobs /\ job'.dep = NoDeployment /\ phase' = "idle"
        BY <1>16, StepsAreNumbers DEF Crash, NoJob, Jobs, Whys
    <2> QED BY <1>16, <2>1 DEF Crash, TypeOK, Jobs, Phases
<1> QED BY <1>1, <1>2, <1>3, <1>4, <1>5, <1>6, <1>7, <1>8, <1>9, <1>10, <1>11, <1>12,
           <1>13, <1>14, <1>15, <1>16 DEF Next

\* Every variable keeps its type.
THEOREM DeployTypeCorrect == Spec => []TypeOK
BY TypeInit, TypeStep, PTL DEF Spec

-----------------------------------------------------------------------------
\* Where a request is, and what its deployment looks like there.
JobInv ==
    /\ \A d \in Deployments : status[d] = "none" => \A k \in Steps : op[d][k] = "none"
    /\ phase # "idle" => status[this] \notin {"none", "rolled_back"}
    /\ phase \in {"record", "act", "save", "undo", "activate"} => job.why = "deploying"
    /\ phase \in {"list", "revert", "reapply"} => job.why # "deploying"
    /\ phase = "record" => op[this][job.k] = "none"
    /\ phase \in {"act", "save", "undo"} => op[this][job.k] = "pending"
    /\ phase \in {"record", "act", "save", "undo"} =>
          \A l \in Steps : job.k < l => op[this][l] = "none"

\* Every inbound in the table is known to the journal, and the one that an
\* Apply is about to create is not there yet.
RowsInv ==
    /\ JournalKnowsInbounds
    /\ phase = "act" => \A r \in table : r[1] = this => r # row

\* A rollback without errors leaves nothing to undo above the step it has
\* reached, and in the end serves nothing of its deployment.
GoneInv ==
    /\ RolledBackIsGone
    /\ phase = "revert" /\ ~job.errs => \A k \in Steps : job.k < k => ~Undoable(k)
    /\ phase \in {"reapply", "mark"} /\ job.why # "deploying" /\ ~job.errs =>
          \A k \in Steps : ~Undoable(k)
    /\ phase = "mark" /\ job.why = "request" /\ ~job.errs =>
          \A r \in served : r[1] = this => StatusOf(r) = "pending"

\* An Apply has done every operation before the one it has reached, and its
\* inbounds are served once the activation is over.
DoneInv ==
    /\ phase \in {"record", "act", "save"} =>
          \A k \in Steps : k < job.k => op[this][k] = "applied"
    /\ phase = "activate" => \A k \in Steps : op[this][k] = "applied"
    /\ phase = "mark" /\ job.why = "deploying" =>
          /\ \A k \in Steps : op[this][k] = "applied"
          /\ \A r \in table : r[1] = this => r \in served

\* The tuning of d, its step k, is in place and will be undone.
InPlace(d, k) ==
    \/ op[d][k] \in {"applied", "revert_failed"}
    \/ d = this /\ k = job.k /\ phase \in {"save", "undo"}

\* The snapshot of the first tuning in place is the original file.
FileInv ==
    ~astray =>
        /\ stack = <<>> => dropin = original
        /\ stack # <<>> => snapshot[stack[1]] = original
        /\ \A i \in DOMAIN stack : \E k \in Steps : Plan[k] = "tune" /\ InPlace(stack[i], k)
        /\ \A i, j \in DOMAIN stack : stack[i] = stack[j] => i = j

LEMMA JobInit == Init => JobInv
BY DEF Init, JobInv, NoJob

\* A rollback moves within its own deployment.
LEMMA RevertNextJob ==
    ASSUME TypeOK, NEW k \in Nat, NEW failed \in BOOLEAN, RevertNext(k, failed)
    PROVE  /\ phase' \in {"revert", "reapply", "mark"}
           /\ phase' = "mark" => job.why = "execute"
           /\ job'.dep = job.dep /\ job'.why = job.why
BY DEF RevertNext, Continue, AfterReverts, TypeOK

LEMMA JobStep ==
    TypeOK /\ JobInv /\ [Next]_vars => JobInv'
<1> SUFFICES ASSUME TypeOK, JobInv, [Next]_vars PROVE JobInv'
    OBVIOUS
<1> USE DEF stored, host
<1>1. CASE UNCHANGED vars
    BY <1>1 DEF vars, JobInv, this
<1>2. ASSUME NEW d \in Deployments, Apply(d) PROVE JobInv'
    BY <1>2, StepsAreNumbers DEF Apply, JobInv, this, NoJob, TypeOK
<1>3. ASSUME NEW d \in Deployments, Rollback(d) PROVE JobInv'
    BY <1>3 DEF Rollback, JobInv, this, NoJob, TypeOK
<1>4. CASE Record
    <2>1. phase = "record" /\ this \in Deployments
        BY <1>4, JobTypes DEF Record
    <2>2. CASE SetOp("pending") /\ Goto("act")
        <3>1. \A d \in Deployments : d # this => op'[d] = op[d]
            BY <2>1, <2>2 DEF SetOp, TypeOK
        <3>2. op'[this][job.k] = "pending" /\ \A l \in Steps : l # job.k => op'[this][l] = op[this][l]
            BY <2>1, <2>2, SetOpTypes DEF OpStatuses
        <3>3. \A l \in Steps : job.k < l => op[this][l] = "none" /\ l # job.k
            BY <2>1, StepsAreNumbers DEF JobInv, TypeOK
        <3>4. UNCHANGED status /\ phase' = "act" /\ UNCHANGED job
            BY <1>4, <2>2 DEF Record, Goto
        <3> QED BY <2>1, <3>1, <3>2, <3>3, <3>4 DEF JobInv, this
    <2>3. CASE UNCHANGED op /\ CleanUp("execute")
        BY <1>4, <2>1, <2>3 DEF Record, CleanUp, JobInv, this, TypeOK
    <2> QED BY <1>4, <2>2, <2>3 DEF Record
<1>5. CASE Act
    <2>1. phase = "act" /\ this \in Deployments
        BY <1>5, JobTypes DEF Act
    <2>2. CASE Goto("save") /\ UNCHANGED op
        BY <1>5, <2>1, <2>2 DEF Act, Goto, JobInv, this, TypeOK
    <2>3. CASE (SetOp("failed") \/ UNCHANGED op) /\ CleanUp("execute")
        <3>1. \A d \in Deployments : d # this => op'[d] = op[d]
            BY <2>1, <2>3 DEF SetOp, TypeOK
        <3> QED BY <1>5, <2>1, <2>3, <3>1 DEF Act, CleanUp, JobInv, this, TypeOK
    <2> QED BY <1>5, <2>2, <2>3 DEF Act
<1>6. CASE Save
    <2>1. phase = "save" /\ this \in Deployments
        BY <1>6, JobTypes DEF Save
    <2>2. CASE SetOp("applied") /\ Advance
        <3>1. \A d \in Deployments : d # this => op'[d] = op[d]
            BY <2>1, <2>2 DEF SetOp, TypeOK
        <3>2. \A l \in Steps : job.k < l => op'[this][l] = "none"
            <4>1. \A l \in Steps : job.k < l => op[this][l] = "none" /\ l # job.k
                BY <2>1, StepsAreNumbers DEF JobInv, TypeOK
            <4> QED BY <2>1, <2>2, <4>1, SetOpTypes DEF OpStatuses
        <3>3. phase' = "activate" \/ (phase' = "record" /\ job'.k = job.k + 1 /\ job'.k \in Steps)
            BY <2>2, StepsAreNumbers DEF Advance, TypeOK
        <3>4. job'.dep = job.dep /\ job'.why = job.why
            BY <2>2 DEF Advance, TypeOK
        <3>5. UNCHANGED status
            BY <1>6 DEF Save
        <3>6. ASSUME phase' = "record"
              PROVE  /\ op'[this][job'.k] = "none"
                     /\ \A l \in Steps : job'.k < l => op'[this][l] = "none"
            <4>1. job'.k = job.k + 1 /\ job'.k \in Steps
                BY <3>3, <3>6
            <4>2. job.k \in Steps
                BY DEF TypeOK, Jobs
            <4>3. job.k < job'.k /\ \A l \in Steps : job'.k < l => job.k < l
                BY <4>1, <4>2, StepsAreNumbers
            <4> QED BY <3>2, <4>1, <4>3
        <3> QED BY <2>1, <3>1, <3>3, <3>4, <3>5, <3>6 DEF JobInv, this
    <2>3. CASE UNCHANGED op /\ (CleanUp("execute") \/ Goto("undo"))
        BY <1>6, <2>1, <2>3 DEF Save, CleanUp, Goto, JobInv, this, TypeOK
    <2> QED BY <1>6, <2>2, <2>3 DEF Save
<1>7. CASE Undo
    BY <1>7 DEF Undo, CleanUp, JobInv, this, TypeOK
<1>8. CASE Activate
    <2>1. phase = "activate" /\ UNCHANGED <<status, op>>
        BY <1>8 DEF Activate
    <2>2. \/ phase' = "mark" /\ UNCHANGED job
          \/ phase' = "list" /\ job'.dep = job.dep /\ job'.why # "deploying"
        BY <1>8 DEF Activate, Goto, CleanUp, TypeOK
    <2> QED BY <2>1, <2>2 DEF JobInv, this
<1>9. CASE List
    <2>1. phase = "list" /\ UNCHANGED <<status, op>>
        BY <1>9 DEF List
    <2>2. CASE RevertNext(Len(Plan) + 1, FALSE)
        <3>1. Len(Plan) + 1 \in Nat /\ FALSE \in BOOLEAN
            BY StepsAreNumbers
        <3>2. phase' \in {"revert", "reapply", "mark"} /\ job'.dep = job.dep /\ job'.why = job.why
            BY <2>2, <3>1, RevertNextJob
        <3> QED BY <2>1, <3>2 DEF JobInv, this
    <2>3. CASE Continue(AfterReverts, 1, TRUE)
        BY <2>1, <2>3 DEF Continue, AfterReverts, JobInv, this, TypeOK
    <2> QED BY <1>9, <2>2, <2>3 DEF List
<1>10. CASE RevertOne
    <2>1. phase = "revert" /\ this \in Deployments /\ UNCHANGED status
        BY <1>10, JobTypes DEF RevertOne
    <2>2. PICK undone \in BOOLEAN, written \in BOOLEAN :
            /\ IF written THEN SetOp(Outcome(undone)) ELSE UNCHANGED op
            /\ RevertNext(job.k, ~undone \/ ~written)
        BY <1>10 DEF RevertOne
    <2>3. job.k \in Nat /\ (~undone \/ ~written) \in BOOLEAN
        BY StepsAreNumbers DEF TypeOK
    <2>4. phase' \in {"revert", "reapply", "mark"} /\ job'.dep = job.dep /\ job'.why = job.why
        BY <2>2, <2>3, RevertNextJob
    <2>5. \A d \in Deployments : d # this => op'[d] = op[d]
        BY <2>1, <2>2 DEF SetOp, TypeOK
    <2> QED BY <2>1, <2>4, <2>5 DEF JobInv, this, TypeOK
<1>11. CASE Reapply
    <2>1. phase' = "mark" /\ phase = "reapply" /\ job'.dep = job.dep /\ UNCHANGED <<status, op>>
        BY <1>11 DEF Reapply, TypeOK
    <2> QED BY <2>1 DEF JobInv, this
<1>12. CASE Mark
    <2>1. phase' = "idle" /\ phase = "mark" /\ UNCHANGED op
        BY <1>12 DEF Mark
    <2>2. \A d \in Deployments : status'[d] = "none" => status[d] = "none"
        BY <1>12 DEF Mark, Verdict, TypeOK
    <2> QED BY <2>1, <2>2 DEF JobInv
<1>13. CASE Cancel
    BY <1>13 DEF Cancel, JobInv, this, TypeOK
<1>14. CASE ApplyRuntime
    BY <1>14 DEF ApplyRuntime, JobInv, this
<1>15. CASE DeleteInbound
    BY <1>15 DEF DeleteInbound, JobInv, this
<1>16. CASE Crash
    BY <1>16 DEF Crash, JobInv
<1> QED BY <1>1, <1>2, <1>3, <1>4, <1>5, <1>6, <1>7, <1>8, <1>9, <1>10, <1>11, <1>12,
           <1>13, <1>14, <1>15, <1>16 DEF Next

-----------------------------------------------------------------------------
\* An inbound is named by its deployment and its step.
LEMMA RowsArePairs ==
    ASSUME NEW r \in Rows
    PROVE  /\ r[1] \in Deployments /\ r[2] \in Steps /\ Plan[r[2]] = "inbound"
           /\ r = <<r[1], r[2]>>
BY DEF Rows

\* The undo of an inbound deletes it; the other undos leave the table alone.
LEMMA RevertedRows ==
    ASSUME TypeOK, phase # "idle", Revert
    PROVE  row \notin table' /\ table' \subseteq table /\ served' = served
<1>1. CASE type = "inbound"
    BY <1>1 DEF Revert
<1>2. CASE type # "inbound"
    <2>1. row \notin table
        BY <1>2, RowsArePairs DEF TypeOK, type, row
    <2> QED BY <1>2, <2>1 DEF Revert, host
<1> QED BY <1>1, <1>2

\* What one step of a rollback does to the table and the journal.
LEMMA RevertOneEffect ==
    ASSUME TypeOK, RevertOne
    PROVE  /\ phase = "revert" /\ this \in Deployments
           /\ UNCHANGED <<status, served, original, snapshot>>
           /\ \/ /\ table' = table /\ SetOp("revert_failed")
                 /\ RevertNext(job.k, TRUE)
              \/ /\ table' = table /\ UNCHANGED op
                 /\ RevertNext(job.k, TRUE)
              \/ /\ row \notin table' /\ table' \subseteq table /\ SetOp("reverted")
                 /\ RevertNext(job.k, FALSE)
              \/ /\ row \notin table' /\ table' \subseteq table /\ UNCHANGED op
                 /\ RevertNext(job.k, TRUE)
<1>1. phase = "revert" /\ this \in Deployments /\ UNCHANGED <<status, original, snapshot>>
    BY JobTypes DEF RevertOne
<1>2. PICK undone \in BOOLEAN, written \in BOOLEAN :
        /\ IF undone THEN Revert ELSE UNCHANGED <<host, stack, astray>>
        /\ IF written THEN SetOp(Outcome(undone)) ELSE UNCHANGED op
        /\ RevertNext(job.k, ~undone \/ ~written)
    BY DEF RevertOne
<1>3. CASE undone = TRUE /\ written = TRUE
    <2>1. (~undone \/ ~written) = FALSE
        BY <1>3
    <2>2. RevertNext(job.k, FALSE) /\ SetOp("reverted") /\ Revert
        BY <1>2, <1>3, <2>1 DEF Outcome
    <2> QED BY <1>1, <2>2, RevertedRows
<1>4. CASE undone = TRUE /\ written = FALSE
    <2>1. (~undone \/ ~written) = TRUE
        BY <1>4
    <2>2. RevertNext(job.k, TRUE) /\ UNCHANGED op /\ Revert
        BY <1>2, <1>4, <2>1
    <2> QED BY <1>1, <2>2, RevertedRows
<1>5. CASE undone = FALSE
    <2>1. (~undone \/ ~written) = TRUE
        BY <1>5
    <2>2. RevertNext(job.k, TRUE) /\ UNCHANGED <<table, served>>
        BY <1>2, <1>5, <2>1 DEF host
    <2>3. UNCHANGED op \/ SetOp("revert_failed")
        BY <1>2, <1>5 DEF Outcome
    <2> QED BY <1>1, <2>2, <2>3
<1> QED BY <1>3, <1>4, <1>5

LEMMA RowsInit == Init => RowsInv
BY DEF Init, RowsInv, JournalKnowsInbounds

LEMMA RowsStep ==
    TypeOK /\ JobInv /\ RowsInv /\ [Next]_vars => RowsInv'
<1> SUFFICES ASSUME TypeOK, JobInv, RowsInv, [Next]_vars PROVE RowsInv'
    OBVIOUS
<1> USE DEF stored, host
<1> DEFINE Known == {"pending", "applied", "revert_failed"}
<1>1. \A r \in table : r[1] \in Deployments /\ r[2] \in Steps /\ r = <<r[1], r[2]>>
    BY RowsArePairs DEF TypeOK
<1>2. \A r \in table : op[r[1]][r[2]] \in Known
    BY DEF RowsInv, JournalKnowsInbounds, StatusOf
<1>3. ASSUME table' \subseteq table, UNCHANGED op, phase' # "act" PROVE RowsInv'
    BY <1>2, <1>3 DEF RowsInv, JournalKnowsInbounds, StatusOf
<1>4. ASSUME NEW s \in OpStatuses, SetOp(s), this \in Deployments, table' \subseteq table,
             s \in Known \/ row \notin table', phase' # "act"
      PROVE  RowsInv'
    <2>1. \A r \in table' : op'[r[1]][r[2]] \in Known
        <3> SUFFICES ASSUME NEW r \in table' PROVE op'[r[1]][r[2]] \in Known
            OBVIOUS
        <3>1. CASE r[1] = this /\ r[2] = job.k
            BY <1>1, <1>4, <3>1, SetOpTypes DEF row
        <3>2. CASE r[1] # this \/ r[2] # job.k
            BY <1>1, <1>2, <1>4, <3>2, SetOpTypes
        <3> QED BY <3>1, <3>2
    <2> QED BY <1>4, <2>1 DEF RowsInv, JournalKnowsInbounds, StatusOf
<1>5. CASE UNCHANGED vars
    BY <1>5 DEF vars, RowsInv, JournalKnowsInbounds, StatusOf, this, row
<1>6. ASSUME NEW d \in Deployments, Apply(d) \/ Rollback(d) PROVE RowsInv'
    BY <1>3, <1>6 DEF Apply, Rollback
<1>7. CASE Record
    <2>1. phase = "record" /\ this \in Deployments /\ UNCHANGED table
        BY <1>7, JobTypes DEF Record
    <2>2. CASE SetOp("pending") /\ Goto("act")
        <3>1. row \notin table
            BY <1>2, <2>1 DEF JobInv, row
        <3>2. \A r \in table : op'[r[1]][r[2]] = op[r[1]][r[2]]
            BY <1>1, <2>1, <2>2, <3>1, SetOpTypes DEF OpStatuses, row
        <3>3. row' = row
            BY <2>2 DEF Goto, row, this
        <3> QED BY <1>2, <2>1, <3>1, <3>2, <3>3 DEF RowsInv, JournalKnowsInbounds, StatusOf
    <2>3. CASE UNCHANGED op /\ CleanUp("execute")
        BY <1>3, <2>1, <2>3 DEF CleanUp
    <2> QED BY <1>7, <2>2, <2>3 DEF Record
<1>8. CASE Act
    <2>1. phase = "act" /\ this \in Deployments
        BY <1>8, JobTypes DEF Act
    <2>2. row \notin table
        BY <1>1, <2>1 DEF RowsInv, row
    <2>3. CASE Done /\ Goto("save") /\ UNCHANGED <<op, astray>>
        <3>1. table' \subseteq table \cup {row}
            BY <2>3 DEF Done, Tune
        <3>2. op'[this][job.k] = "pending"
            BY <2>1, <2>3 DEF JobInv
        <3>3. \A r \in table' : op'[r[1]][r[2]] \in Known
            BY <1>2, <2>3, <3>1, <3>2 DEF row
        <3> QED BY <2>3, <3>3 DEF Goto, RowsInv, JournalKnowsInbounds, StatusOf
    <2>4. CASE Undone /\ (SetOp("failed") \/ UNCHANGED op) /\ CleanUp("execute")
        <3>1. table' = table /\ phase' # "act"
            BY <2>4 DEF Undone, Tune, CleanUp
        <3> QED BY <1>3, <1>4, <2>1, <2>2, <2>4, <3>1 DEF OpStatuses
    <2> QED BY <1>8, <2>3, <2>4 DEF Act
<1>9. CASE Save
    <2>1. this \in Deployments /\ UNCHANGED table /\ phase' # "act"
        BY <1>9, JobTypes DEF Save, Advance, CleanUp, Goto
    <2> QED BY <1>3, <1>4, <1>9, <2>1 DEF Save, OpStatuses
<1>10. CASE Undo
    <2>1. UNCHANGED op /\ phase' # "act" /\ phase # "idle"
        BY <1>10 DEF Undo, CleanUp
    <2>2. table' \subseteq table
        BY <1>10, <2>1, RevertedRows DEF Undo
    <2> QED BY <1>3, <2>1, <2>2
<1>11. CASE Activate \/ List \/ Reapply
    <2>1. table' = table /\ UNCHANGED op
        BY <1>11 DEF Activate, List, Reapply
    <2>2. phase' # "act"
        BY <1>11 DEF Activate, List, Reapply, Goto, CleanUp, RevertNext, Continue, AfterReverts
    <2> QED BY <1>3, <2>1, <2>2
<1>12. CASE RevertOne
    <2>1. phase' # "act"
        BY <1>12, RevertOneEffect DEF RevertNext, Continue, AfterReverts
    <2> QED BY <1>3, <1>4, <1>12, <2>1, RevertOneEffect DEF OpStatuses
<1>13. CASE Mark
    BY <1>3, <1>13 DEF Mark
<1>14. CASE Cancel
    BY <1>14 DEF Cancel, RowsInv, JournalKnowsInbounds, StatusOf, this, row, TypeOK
<1>15. CASE ApplyRuntime
    BY <1>15 DEF ApplyRuntime, RowsInv, JournalKnowsInbounds, StatusOf, this, row
<1>16. CASE DeleteInbound
    BY <1>16 DEF DeleteInbound, RowsInv, JournalKnowsInbounds, StatusOf, this, row
<1>17. CASE Crash
    BY <1>3, <1>17 DEF Crash
<1> QED BY <1>5, <1>6, <1>7, <1>8, <1>9, <1>10, <1>11, <1>12, <1>13, <1>14, <1>15, <1>16,
           <1>17 DEF Next

\* Whatever fails or crashes, the journal knows the inbounds that exist.
THEOREM JournalIsComplete == Spec => []JournalKnowsInbounds
<1>1. RowsInv => JournalKnowsInbounds
    BY DEF RowsInv
<1> QED BY <1>1, TypeInit, TypeStep, JobInit, JobStep, RowsInit, RowsStep, PTL DEF Spec

-----------------------------------------------------------------------------
\* A move without an error: nothing that can be undone is skipped.
LEMMA MoveWithoutError ==
    ASSUME TypeOK, NEW k \in Nat, NEW failed \in BOOLEAN, RevertNext(k, failed), ~job'.errs
    PROVE  /\ ~failed /\ ~job.errs
           /\ job'.dep = job.dep /\ job'.why = job.why
           /\ \/ /\ phase' = "revert" /\ job'.k \in Steps
                 /\ \A l \in Steps : job'.k < l /\ l < k => ~Undoable(l)
              \/ /\ phase' \in {"reapply", "mark"} /\ phase' = "mark" => job.why = "execute"
                 /\ \A l \in Steps : l < k => ~Undoable(l)
<1>1. job \in Jobs
    BY DEF TypeOK, Jobs
<1>2. ASSUME NEW p, NEW l, Continue(p, l, failed)
      PROVE  ~failed /\ ~job.errs /\ job'.dep = job.dep /\ job'.why = job.why /\ job'.k = l
    BY <1>1, <1>2 DEF Continue, Jobs
<1>3. CASE Below(k) = {} /\ Continue(AfterReverts, 1, failed)
    <2>1. \A l \in Steps : l < k => ~Undoable(l)
        BY <1>3 DEF Below
    <2>2. phase' \in {"reapply", "mark"} /\ (phase' = "mark" => job.why = "execute")
        BY <1>3 DEF Continue, AfterReverts
    <2> QED BY <1>2, <1>3, <2>1, <2>2
<1>4. ASSUME NEW l \in Below(k), \A m \in Below(k) : m <= l, Continue("revert", l, failed)
      PROVE  /\ phase' = "revert" /\ job'.k \in Steps
             /\ \A m \in Steps : job'.k < m /\ m < k => ~Undoable(m)
             /\ ~failed /\ ~job.errs /\ job'.dep = job.dep /\ job'.why = job.why
    <2>1. l \in Steps /\ job'.k = l /\ phase' = "revert"
        BY <1>2, <1>4 DEF Below, Continue
    <2>2. ASSUME NEW m \in Steps, l < m, m < k PROVE ~Undoable(m)
        BY <1>4, <2>1, <2>2, StepsAreNumbers DEF Below
    <2> QED BY <1>2, <1>4, <2>1, <2>2
<1> QED BY <1>3, <1>4 DEF RevertNext

\* Nothing that another deployment, or the runtime, does disturbs one that is
\* rolled back.
LEMMA RolledBackStays ==
    ASSUME TypeOK, JobInv, RowsInv, RolledBackIsGone,
           \A d \in Deployments : status'[d] = "rolled_back" => status[d] = "rolled_back",
           \A d \in Deployments : d # this \/ phase = "idle" => op'[d] = op[d],
           \A r \in table' : r \in table \/ (phase # "idle" /\ r[1] = this),
           \A r \in served' : r \in served \/ r \in table
    PROVE  RolledBackIsGone'
<1> SUFFICES ASSUME NEW d \in Deployments, status'[d] = "rolled_back"
    PROVE  /\ \A k \in Steps : op'[d][k] \notin {"applied", "revert_failed"}
           /\ \A r \in table' \cup served' : r[1] = d => op'[r[1]][r[2]] = "pending"
    BY DEF RolledBackIsGone, StatusOf
<1>1. status[d] = "rolled_back" /\ (d # this \/ phase = "idle")
    BY DEF JobInv
<1>2. op'[d] = op[d]
    BY <1>1
<1>3. \A r \in table' \cup served' : r[1] = d => r \in table \cup served
    BY <1>1
<1> QED BY <1>1, <1>2, <1>3 DEF RolledBackIsGone, StatusOf

LEMMA GoneInit == Init => GoneInv
BY DEF Init, GoneInv, RolledBackIsGone

LEMMA GoneStep ==
    TypeOK /\ JobInv /\ RowsInv /\ GoneInv /\ [Next]_vars => GoneInv'
<1> SUFFICES ASSUME TypeOK, JobInv, RowsInv, GoneInv, [Next]_vars PROVE GoneInv'
    OBVIOUS
<1> USE DEF stored, host
<1>1. RolledBackIsGone
    BY DEF GoneInv
<1>2. ASSUME RolledBackIsGone', phase' \notin {"revert", "reapply", "mark"} PROVE GoneInv'
    BY <1>2 DEF GoneInv
<1>3. \A s \in OpStatuses : SetOp(s) /\ this \in Deployments =>
          \A d \in Deployments : d # this => op'[d] = op[d]
    BY DEF SetOp, TypeOK
\* While nothing of this deployment can be undone, its inbounds are pending.
<1>4. ASSUME \A k \in Steps : ~Undoable(k)
      PROVE  \A r \in table : r[1] = this => StatusOf(r) = "pending"
    BY <1>4, RowsArePairs DEF Undoable, RowsInv, JournalKnowsInbounds, StatusOf, TypeOK
<1>5. CASE UNCHANGED vars
    BY <1>5 DEF vars, GoneInv, RolledBackIsGone, Undoable, StatusOf, this
<1>6. ASSUME NEW d \in Deployments, Apply(d) PROVE GoneInv'
    BY <1>1, <1>2, <1>6, RolledBackStays DEF Apply, TypeOK
<1>7. ASSUME NEW d \in Deployments, Rollback(d) PROVE GoneInv'
    BY <1>1, <1>2, <1>7, RolledBackStays DEF Rollback
<1>8. CASE Record
    <2>1. this \in Deployments /\ UNCHANGED <<status, table, served>>
          /\ phase' \notin {"revert", "reapply", "mark"}
        BY <1>8, JobTypes DEF Record, Goto, CleanUp
    <2>2. \A d \in Deployments : d # this \/ phase = "idle" => op'[d] = op[d]
        BY <1>3, <1>8, <2>1 DEF Record, OpStatuses
    <2> QED BY <1>1, <1>2, <2>1, <2>2, RolledBackStays
<1>9. CASE Act
    <2>1. phase # "idle" /\ this \in Deployments /\ UNCHANGED <<status, served>>
          /\ phase' \notin {"revert", "reapply", "mark"}
        BY <1>9, JobTypes DEF Act, Done, Undone, Tune, Goto, CleanUp
    <2>2. \A d \in Deployments : d # this => op'[d] = op[d]
        BY <1>3, <1>9, <2>1 DEF Act, OpStatuses
    <2>3. \A r \in table' : r \in table \/ r[1] = this
        BY <1>9 DEF Act, Done, Undone, Tune, row
    <2> QED BY <1>1, <1>2, <2>1, <2>2, <2>3, RolledBackStays
<1>10. CASE Save
    <2>1. phase # "idle" /\ this \in Deployments /\ UNCHANGED <<status, table, served>>
          /\ phase' \notin {"revert", "reapply", "mark"}
        BY <1>10, JobTypes DEF Save, Goto, CleanUp, Advance
    <2>2. \A d \in Deployments : d # this => op'[d] = op[d]
        BY <1>3, <1>10, <2>1 DEF Save, OpStatuses
    <2> QED BY <1>1, <1>2, <2>1, <2>2, RolledBackStays
<1>11. CASE Undo
    <2>1. phase # "idle" /\ UNCHANGED <<status, op>> /\ phase' = "list"
        BY <1>11 DEF Undo, CleanUp
    <2>2. table' \subseteq table /\ served' = served
        BY <1>11, <2>1, RevertedRows DEF Undo
    <2> QED BY <1>1, <1>2, <2>1, <2>2, RolledBackStays
<1>12. CASE Activate
    <2>1. phase = "activate" /\ UNCHANGED <<status, op, table>> /\ job'.dep = job.dep
        BY <1>12 DEF Activate, Goto, CleanUp, TypeOK
    <2>2. served' = served \/ served' = table
        BY <1>12 DEF Activate
    <2>3. phase' = "list" \/ (phase' = "mark" /\ job'.why = "deploying")
        BY <1>12, <2>1 DEF Activate, Goto, CleanUp, JobInv
    <2>4. RolledBackIsGone'
        BY <1>1, <2>1, <2>2, RolledBackStays
    <2> QED BY <2>3, <2>4 DEF GoneInv
<1>13. CASE List
    <2>1. UNCHANGED <<status, op, table, served>>
        BY <1>13 DEF List
    <2>2. RolledBackIsGone'
        BY <1>1, <2>1, RolledBackStays
    <2>3. CASE job'.errs /\ phase' \in {"revert", "reapply", "mark"}
        BY <2>2, <2>3 DEF GoneInv
    <2>4. CASE RevertNext(Len(Plan) + 1, FALSE) /\ ~job'.errs
        <3>1. Len(Plan) + 1 \in Nat /\ FALSE \in BOOLEAN /\ \A l \in Steps : l < Len(Plan) + 1
            BY StepsAreNumbers
        <3>2. /\ job'.dep = job.dep /\ job'.why = job.why
              /\ \/ phase' = "revert" /\ \A l \in Steps : job'.k < l => ~Undoable(l)
                 \/ /\ phase' \in {"reapply", "mark"} /\ phase' = "mark" => job.why = "execute"
                    /\ \A l \in Steps : ~Undoable(l)
            BY <2>4, <3>1, MoveWithoutError
        <3>3. \A l \in Steps : Undoable(l)' <=> Undoable(l)
            BY <2>1, <3>2 DEF Undoable, this
        <3> QED BY <2>2, <3>2, <3>3 DEF GoneInv
    <2>5. CASE Continue(AfterReverts, 1, TRUE)
        <3>1. job'.errs /\ phase' \in {"reapply", "mark"}
            BY <2>5 DEF Continue, AfterReverts, TypeOK
        <3> QED BY <2>3, <3>1
    <2>6. phase' \in {"revert", "reapply", "mark"}
        BY <1>13 DEF List, RevertNext, Continue, AfterReverts
    <2> QED BY <1>13, <2>3, <2>4, <2>5, <2>6 DEF List
<1>14. CASE RevertOne
    <2>1. /\ phase = "revert" /\ this \in Deployments /\ UNCHANGED <<status, served>>
          /\ table' \subseteq table
          /\ \/ UNCHANGED op \/ SetOp("revert_failed") \/ SetOp("reverted")
        BY <1>14, RevertOneEffect
    <2>2. RolledBackIsGone'
        <3>1. \A d \in Deployments : d # this => op'[d] = op[d]
            BY <1>3, <2>1 DEF OpStatuses
        <3> QED BY <1>1, <2>1, <3>1, RolledBackStays
    <2>3. phase' \in {"revert", "reapply", "mark"}
        BY <1>14, RevertOneEffect DEF RevertNext, Continue, AfterReverts
    <2>4. CASE job'.errs
        BY <2>2, <2>3, <2>4 DEF GoneInv
    <2>5. CASE ~job'.errs
        <3>1. job.k \in Nat /\ job.k \in Steps /\ TRUE \in BOOLEAN /\ FALSE \in BOOLEAN
            BY StepsAreNumbers DEF TypeOK
        <3>2. ~RevertNext(job.k, TRUE)
            BY <2>5, <3>1, MoveWithoutError
        <3>3. SetOp("reverted") /\ RevertNext(job.k, FALSE)
            BY <1>14, <3>2, RevertOneEffect
        <3>4. /\ ~job.errs /\ job'.dep = job.dep /\ job'.why = job.why
              /\ \/ /\ phase' = "revert" /\ job'.k \in Steps
                    /\ \A l \in Steps : job'.k < l /\ l < job.k => ~Undoable(l)
                 \/ /\ phase' \in {"reapply", "mark"} /\ phase' = "mark" => job.why = "execute"
                    /\ \A l \in Steps : l < job.k => ~Undoable(l)
            BY <2>5, <3>1, <3>3, MoveWithoutError
        <3>5. \A l \in Steps : job.k < l => ~Undoable(l)
            BY <2>1, <3>4 DEF GoneInv
        <3>6. op'[this][job.k] = "reverted" /\ \A l \in Steps : l # job.k => op'[this][l] = op[this][l]
            BY <2>1, <3>3, SetOpTypes DEF OpStatuses
        <3>7. \A l \in Steps : Undoable(l)' => l # job.k /\ Undoable(l)
            <4>1. op'[job'.dep][job.k] = "reverted"
                BY <3>4, <3>6 DEF this
            <4>2. \A l \in Steps : l # job.k => op'[job'.dep][l] = op[job.dep][l]
                BY <3>4, <3>6 DEF this
            <4> QED BY <3>1, <4>1, <4>2 DEF Undoable, this
        <3> QED BY <2>2, <3>1, <3>4, <3>5, <3>6, <3>7, StepsAreNumbers DEF GoneInv, Undoable, this
    <2> QED BY <2>4, <2>5
<1>15. CASE Reapply
    <2>1. phase = "reapply" /\ phase' = "mark" /\ UNCHANGED <<status, op, table>>
        BY <1>15 DEF Reapply
    <2>2. served' = table \/ served' = served
        BY <1>15 DEF Reapply
    <2>3. RolledBackIsGone'
        BY <1>1, <2>1, <2>2, RolledBackStays
    <2>4. CASE served' = table /\ UNCHANGED job
        <3>1. CASE job.why # "deploying" /\ ~job.errs
            <4>1. \A k \in Steps : ~Undoable(k)
                BY <2>1, <3>1 DEF GoneInv
            <4>2. \A r \in served' : r[1] = this => StatusOf(r) = "pending"
                BY <1>4, <2>4, <4>1
            <4> QED BY <2>1, <2>3, <2>4, <4>1, <4>2 DEF GoneInv, Undoable, StatusOf, this
        <3>2. CASE ~(job.why # "deploying" /\ ~job.errs)
            BY <2>1, <2>3, <2>4, <3>2 DEF GoneInv
        <3> QED BY <3>1, <3>2
    <2>5. CASE job' = [job EXCEPT !.errs = TRUE]
        <3>1. job'.errs
            BY <2>5 DEF TypeOK
        <3> QED BY <2>1, <2>3, <3>1 DEF GoneInv
    <2> QED BY <1>15, <2>4, <2>5 DEF Reapply
<1>16. CASE Mark
    <2>1. /\ phase = "mark" /\ phase' = "idle" /\ this \in Deployments
          /\ UNCHANGED <<op, table, served>>
        BY <1>16, JobTypes DEF Mark
    <2>2. CASE status' = [status EXCEPT ![this] = Verdict] /\ Verdict = "rolled_back"
        <3>1. job.why = "request" /\ ~job.errs
            BY <2>2 DEF Verdict
        <3>2. /\ \A k \in Steps : ~Undoable(k)
              /\ \A r \in table \cup served : r[1] = this => StatusOf(r) = "pending"
            BY <1>4, <2>1, <3>1 DEF GoneInv
        <3>3. \A d \in Deployments : status'[d] = "rolled_back" => d = this \/ status[d] = "rolled_back"
            BY <2>2 DEF TypeOK
        <3>4. RolledBackIsGone'
            BY <1>1, <2>1, <3>2, <3>3 DEF RolledBackIsGone, Undoable, StatusOf
        <3> QED BY <1>2, <2>1, <3>4
    <2>3. CASE (status' = [status EXCEPT ![this] = Verdict] /\ Verdict # "rolled_back") \/ UNCHANGED status
        <3>1. \A d \in Deployments : status'[d] = "rolled_back" => status[d] = "rolled_back"
            BY <2>1, <2>3 DEF TypeOK
        <3> QED BY <1>1, <1>2, <2>1, <3>1, RolledBackStays
    <2> QED BY <1>16, <2>2, <2>3 DEF Mark
<1>17. CASE Cancel
    <2>1. /\ job'.dep = job.dep /\ job'.why = job.why /\ job'.k = job.k
          /\ (job'.errs <=> job.errs)
        BY <1>17 DEF Cancel, TypeOK
    <2>2. UNCHANGED <<status, op, table, served, phase>>
        BY <1>17 DEF Cancel
    <2> QED BY <2>1, <2>2 DEF GoneInv, RolledBackIsGone, Undoable, StatusOf, this
<1>18. CASE ApplyRuntime
    <2>1. served' = table /\ UNCHANGED <<status, op, table, phase, job>>
        BY <1>18 DEF ApplyRuntime
    <2>2. RolledBackIsGone'
        BY <1>1, <2>1, RolledBackStays
    <2>3. phase = "mark" /\ job.why = "request" /\ ~job.errs =>
              \A r \in table : r[1] = this => StatusOf(r) = "pending"
        BY <1>4 DEF GoneInv
    <2> QED BY <2>1, <2>2, <2>3 DEF GoneInv, Undoable, StatusOf, this
<1>19. CASE DeleteInbound
    <2>1. table' \subseteq table /\ UNCHANGED <<status, op, served, phase, job>>
        BY <1>19 DEF DeleteInbound
    <2>2. RolledBackIsGone'
        BY <1>1, <2>1, RolledBackStays
    <2> QED BY <2>1, <2>2 DEF GoneInv, Undoable, StatusOf, this
<1>20. CASE Crash
    <2>1. phase' = "idle" /\ UNCHANGED <<status, op, table>> /\ served' \subseteq table
        BY <1>20 DEF Crash
    <2> QED BY <1>1, <1>2, <2>1, RolledBackStays
<1> QED BY <1>5, <1>6, <1>7, <1>8, <1>9, <1>10, <1>11, <1>12, <1>13, <1>14, <1>15, <1>16,
           <1>17, <1>18, <1>19, <1>20 DEF Next

\* A deployment reported as rolled back has nothing left, in the table or in
\* the engines, but what a crash or a double failure cut off from the journal.
THEOREM RollbackIsComplete == Spec => []RolledBackIsGone
<1>1. GoneInv => RolledBackIsGone
    BY DEF GoneInv
<1> QED BY <1>1, TypeInit, TypeStep, JobInit, JobStep, RowsInit, RowsStep, GoneInit, GoneStep,
           PTL DEF Spec

-----------------------------------------------------------------------------
LEMMA DoneInit == Init => DoneInv
BY DEF Init, DoneInv

LEMMA DoneStep ==
    TypeOK /\ JobInv /\ RowsInv /\ DoneInv /\ [Next]_vars => DoneInv'
<1> SUFFICES ASSUME TypeOK, JobInv, RowsInv, DoneInv, [Next]_vars PROVE DoneInv'
    OBVIOUS
<1> USE DEF stored, host
<1>1. ASSUME phase' \notin {"record", "act", "save", "activate", "mark"} PROVE DoneInv'
    BY <1>1 DEF DoneInv
<1>2. ASSUME phase' = "mark", job'.why # "deploying" PROVE DoneInv'
    BY <1>2 DEF DoneInv
<1>3. CASE UNCHANGED vars
    BY <1>3 DEF vars, DoneInv, this
<1>4. ASSUME NEW d \in Deployments, Apply(d) PROVE DoneInv'
    <2>1. phase' = "record" /\ job'.k = 1
        BY <1>4 DEF Apply, NoJob
    <2> QED BY <2>1, StepsAreNumbers DEF DoneInv
<1>5. ASSUME NEW d \in Deployments, Rollback(d) PROVE DoneInv'
    BY <1>1, <1>5 DEF Rollback
<1>6. CASE Record
    <2>1. phase = "record" /\ this \in Deployments /\ job.k \in Steps
        BY <1>6, JobTypes DEF Record, TypeOK
    <2>2. CASE SetOp("pending") /\ Goto("act")
        <3>1. \A l \in Steps : l < job.k => op'[this][l] = op[this][l]
            BY <2>1, <2>2, SetOpTypes, StepsAreNumbers DEF OpStatuses
        <3> QED BY <2>1, <2>2, <3>1 DEF DoneInv, Goto, this
    <2>3. CASE CleanUp("execute")
        BY <1>1, <2>3 DEF CleanUp
    <2> QED BY <1>6, <2>2, <2>3 DEF Record
<1>7. CASE Act
    <2>1. CASE Goto("save") /\ UNCHANGED op
        BY <1>7, <2>1 DEF Act, Goto, DoneInv, this
    <2>2. CASE CleanUp("execute")
        BY <1>1, <2>2 DEF CleanUp
    <2> QED BY <1>7, <2>1, <2>2 DEF Act
<1>8. CASE Save
    <2>1. phase = "save" /\ this \in Deployments /\ job.k \in Steps
        BY <1>8, JobTypes DEF Save, TypeOK
    <2>2. CASE SetOp("applied") /\ Advance
        <3>1. \A l \in Steps : l <= job.k => op'[this][l] = "applied"
            <4>1. \A l \in Steps : l <= job.k => l = job.k \/ op[this][l] = "applied"
                BY <2>1, StepsAreNumbers DEF DoneInv
            <4> QED BY <2>1, <2>2, <4>1, SetOpTypes DEF OpStatuses
        <3>2. CASE job.k = Len(Plan)
            <4>1. phase' = "activate" /\ UNCHANGED job /\ \A l \in Steps : l <= job.k
                BY <2>2, <3>2, StepsAreNumbers DEF Advance
            <4> QED BY <3>1, <4>1 DEF DoneInv, this
        <3>3. CASE job.k # Len(Plan)
            <4>1. phase' = "record" /\ job'.dep = job.dep /\ job'.k = job.k + 1
                BY <2>2, <3>3 DEF Advance, TypeOK
            <4>2. \A l \in Steps : l < job'.k => l <= job.k
                BY <2>1, <4>1, StepsAreNumbers
            <4> QED BY <3>1, <4>1, <4>2 DEF DoneInv, this
        <3> QED BY <3>2, <3>3
    <2>3. CASE CleanUp("execute") \/ Goto("undo")
        BY <1>1, <2>3 DEF CleanUp, Goto
    <2> QED BY <1>8, <2>2, <2>3 DEF Save
<1>9. CASE Undo
    BY <1>1, <1>9 DEF Undo, CleanUp
<1>10. CASE Activate
    <2>1. CASE served' = table /\ Goto("mark")
        BY <1>10, <2>1 DEF Activate, Goto, DoneInv, this
    <2>2. CASE CleanUp("activation") \/ CleanUp("execute")
        BY <1>1, <2>2 DEF CleanUp
    <2> QED BY <1>10, <2>1, <2>2 DEF Activate
<1>11. CASE List \/ RevertOne \/ Reapply
    <2>1. job.why # "deploying" /\ job \in Jobs
        BY <1>11 DEF List, RevertOne, Reapply, JobInv, TypeOK, Jobs
    <2>2. job'.why = job.why
        BY <1>11, <2>1 DEF List, RevertOne, Reapply, RevertNext, Continue, Jobs
    <2>3. phase' \in {"revert", "reapply", "mark"}
        BY <1>11 DEF List, RevertOne, Reapply, RevertNext, Continue, AfterReverts
    <2> QED BY <1>1, <1>2, <2>1, <2>2, <2>3
<1>12. CASE Mark
    BY <1>1, <1>12 DEF Mark
<1>13. CASE Cancel
    BY <1>13 DEF Cancel, DoneInv, this, TypeOK
<1>14. CASE ApplyRuntime
    BY <1>14 DEF ApplyRuntime, DoneInv, this
<1>15. CASE DeleteInbound
    BY <1>15 DEF DeleteInbound, DoneInv, this
<1>16. CASE Crash
    BY <1>1, <1>16 DEF Crash
<1> QED BY <1>3, <1>4, <1>5, <1>6, <1>7, <1>8, <1>9, <1>10, <1>11, <1>12, <1>13, <1>14,
           <1>15, <1>16 DEF Next

\* Only the end of an Apply reports success.
LEMMA SuccessIsMarked ==
    ASSUME TypeOK, JobInv, DoneInv, [Next]_vars, NEW d \in Deployments,
           status[d] # "succeeded", status'[d] = "succeeded"
    PROVE  /\ \A k \in Steps : op[d][k] = "applied"
           /\ \A r \in table : r[1] = d => r \in served
<1>1. Mark
    <2>1. CASE \E e \in Deployments : Apply(e)
        BY <2>1 DEF Apply, TypeOK
    <2>2. CASE \E e \in Deployments : Rollback(e)
        BY <2>2 DEF Rollback, stored
    <2>3. CASE UNCHANGED vars
        BY <2>3 DEF vars, stored
    <2>4. CASE Record \/ Act \/ Save \/ Undo \/ Activate \/ List \/ RevertOne \/ Reapply
               \/ Cancel \/ ApplyRuntime \/ DeleteInbound \/ Crash
        <3>1. UNCHANGED status
            BY <2>4 DEF Record, Act, Save, Undo, Activate, List, RevertOne, Reapply, Cancel,
                        ApplyRuntime, DeleteInbound, Crash, stored
        <3> QED BY <3>1
    <2> QED BY <2>1, <2>2, <2>3, <2>4 DEF Next
<1>2. d = this /\ Verdict = "succeeded" /\ phase = "mark"
    BY <1>1 DEF Mark, TypeOK
<1>3. job.why = "deploying"
    BY <1>2 DEF Verdict
<1> QED BY <1>2, <1>3 DEF DoneInv

\* A deployment that is reported as succeeded is complete and served.
THEOREM SuccessIsServed == Spec => SucceededIsServed
<1>1. TypeOK /\ JobInv /\ DoneInv /\ [Next]_vars =>
          [\A d \in Deployments :
              status[d] # "succeeded" /\ status'[d] = "succeeded" =>
                  /\ \A k \in Steps : op[d][k] = "applied"
                  /\ \A r \in table : r[1] = d => r \in served]_vars
    BY SuccessIsMarked
<1> QED BY <1>1, TypeInit, TypeStep, JobInit, JobStep, RowsInit, RowsStep, DoneInit, DoneStep,
           PTL DEF Spec, SucceededIsServed

-----------------------------------------------------------------------------
LEMMA FileInit == Init => FileInv
BY DEF Init, FileInv

\* A step that leaves the file, its snapshots and the stack alone, and forgets
\* no tuning that is in place.
LEMMA FileStays ==
    ASSUME TypeOK, FileInv, UNCHANGED <<dropin, stack, original, snapshot>>,
           astray => astray',
           \A d \in Deployments, k \in Steps :
               Plan[k] = "tune" /\ InPlace(d, k) => InPlace(d, k)'
    PROVE  FileInv'
<1> SUFFICES ASSUME ~astray' PROVE
        /\ stack = <<>> => dropin = original
        /\ stack # <<>> => snapshot[stack[1]] = original
        /\ \A i \in DOMAIN stack : \E k \in Steps : Plan[k] = "tune" /\ InPlace(stack[i], k)'
        /\ \A i, j \in DOMAIN stack : stack[i] = stack[j] => i = j
    BY DEF FileInv, InPlace
<1>1. ASSUME NEW i \in DOMAIN stack
      PROVE  \E k \in Steps : Plan[k] = "tune" /\ InPlace(stack[i], k)'
    <2>1. stack[i] \in Deployments
        BY ElementOfSeq DEF TypeOK
    <2>2. PICK k \in Steps : Plan[k] = "tune" /\ InPlace(stack[i], k)
        BY DEF FileInv
    <2>3. \A d \in Deployments : InPlace(d, k) => InPlace(d, k)'
        BY <2>2
    <2>4. stack'[i] = stack[i]
        OBVIOUS
    <2> QED BY <2>1, <2>2, <2>3, <2>4 DEF InPlace
<1> QED BY <1>1 DEF FileInv

\* Undoing the tuning of this deployment, in order, leaves the others in place
\* and the file as the first of them, or nobody, found it.
LEMMA RestoreInOrder ==
    ASSUME TypeOK, FileInv, this \in Deployments, Restore, ~astray', UNCHANGED <<snapshot, original>>
    PROVE  /\ ~astray
           /\ stack' = <<>> => dropin' = original
           /\ stack' # <<>> => snapshot[stack'[1]] = original
           /\ \A i \in DOMAIN stack' :
                 i \in DOMAIN stack /\ stack'[i] = stack[i] /\ stack'[i] # this
<1>1. stack \in Seq(Deployments) /\ Len(stack) \in Nat /\ DOMAIN stack = 1 .. Len(stack)
    BY DEF TypeOK
<1>2. CASE Latest
    <2>1. ~astray /\ stack' = SubSeq(stack, 1, Len(stack) - 1) /\ dropin' = snapshot[this]
        BY <1>2 DEF Restore
    <2>2. Len(stack) \in DOMAIN stack /\ stack[Len(stack)] = this
        BY <1>1, <1>2, EmptySeq DEF Latest
    <2>3. \A i \in 1 .. Len(stack) - 1 : stack[i] \in Deployments
        BY <1>1, ElementOfSeq
    <2>4. /\ stack' \in Seq(Deployments)
          /\ Len(stack') = Len(stack) - 1
          /\ \A i \in 1 .. Len(stack) - 1 : stack'[i] = stack[i]
        BY <1>1, <2>1, <2>2, <2>3, SubSeqProperties
    <2>5. DOMAIN stack' = 1 .. Len(stack) - 1
        BY <2>4
    <2>6. \A i \in DOMAIN stack' : stack[i] # this
        BY <1>1, <2>1, <2>2, <2>5 DEF FileInv
    <2>7. stack' = <<>> => dropin' = original
        <3> SUFFICES ASSUME stack' = <<>> PROVE dropin' = original
            OBVIOUS
        <3>1. Len(stack) = 1
            BY <1>1, <2>4
        <3>2. stack # <<>> /\ stack[1] = this
            BY <1>2, <2>2, <3>1 DEF Latest
        <3> QED BY <2>1, <3>2 DEF FileInv
    <2>8. stack' # <<>> => snapshot[stack'[1]] = original
        <3> SUFFICES ASSUME stack' # <<>> PROVE snapshot[stack'[1]] = original
            OBVIOUS
        <3>1. 1 \in 1 .. Len(stack) - 1
            BY <1>1, <2>4, EmptySeq
        <3> QED BY <1>1, <2>1, <2>2, <2>4, <3>1, EmptySeq DEF FileInv
    <2> QED BY <1>1, <2>1, <2>4, <2>5, <2>6, <2>7, <2>8
<1>3. CASE ~Latest
    <2>1. /\ stack' = stack /\ ~astray /\ dropin = snapshot[this]
          /\ \A i \in DOMAIN stack : stack[i] # this
          /\ dropin' = snapshot[this]
        BY <1>3 DEF Restore
    <2> QED BY <2>1 DEF FileInv
<1> QED BY <1>2, <1>3

LEMMA FileAfterRestore ==
    ASSUME TypeOK, FileInv, this \in Deployments, Restore, UNCHANGED <<snapshot, original>>,
           \A d \in Deployments : d # this => op'[d] = op[d],
           phase \in {"undo", "revert"}
    PROVE  FileInv'
<1> SUFFICES ASSUME ~astray' PROVE
        /\ stack' = <<>> => dropin' = original
        /\ stack' # <<>> => snapshot[stack'[1]] = original
        /\ \A i \in DOMAIN stack' : \E k \in Steps :
              Plan[k] = "tune" /\ op'[stack'[i]][k] \in {"applied", "revert_failed"}
        /\ \A i, j \in DOMAIN stack' : stack'[i] = stack'[j] => i = j
    BY DEF FileInv, InPlace
<1>1. ASSUME NEW i \in DOMAIN stack'
      PROVE  \E k \in Steps : Plan[k] = "tune" /\ op'[stack'[i]][k] \in {"applied", "revert_failed"}
    <2>1. i \in DOMAIN stack /\ stack'[i] = stack[i] /\ stack[i] # this /\ ~astray
        BY <1>1, RestoreInOrder
    <2>2. PICK k \in Steps : Plan[k] = "tune" /\ InPlace(stack[i], k)
        BY <2>1 DEF FileInv
    <2>3. stack[i] \in Deployments
        BY <2>1, ElementOfSeq DEF TypeOK
    <2> QED BY <2>1, <2>2, <2>3 DEF InPlace
<1> QED BY <1>1, RestoreInOrder DEF FileInv

\* A tuning goes on top of those in place.
LEMMA FileAfterTune ==
    ASSUME TypeOK, JobInv, FileInv, phase = "act", NEW c \in Contents, Tune(c),
           UNCHANGED <<op, astray, original, job>>, phase' = "save"
    PROVE  FileInv'
<1> SUFFICES ASSUME ~astray' PROVE FileInv'
    BY DEF FileInv
<1>1. /\ this \in Deployments /\ job.k \in Steps /\ Plan[job.k] = "tune"
      /\ op[this][job.k] = "pending" /\ ~astray
    BY JobTypes DEF TypeOK, JobInv, Tune, type
<1>2. \A i \in DOMAIN stack : stack[i] # this
    BY <1>1, DeployAssumption DEF FileInv, InPlace, Steps
<1>3. /\ stack' = Append(stack, this) /\ dropin' = c
      /\ snapshot' = [snapshot EXCEPT ![this] = dropin]
    BY DEF Tune, Snapshot
<1>4. /\ stack \in Seq(Deployments) /\ Len(stack) \in Nat /\ DOMAIN stack = 1 .. Len(stack)
      /\ snapshot \in [Deployments -> Contents \cup {Absent}]
    BY DEF TypeOK
<1>5. /\ stack' \in Seq(Deployments) /\ stack' # <<>> /\ Len(stack') = Len(stack) + 1
      /\ \A i \in 1 .. Len(stack) : stack'[i] = stack[i]
      /\ stack'[Len(stack) + 1] = this
    BY <1>1, <1>3, <1>4, AppendProperties
<1>6. DOMAIN stack' = 1 .. Len(stack) + 1
    BY <1>4, <1>5
<1>7. snapshot'[stack'[1]] = original'
    <2>1. CASE stack = <<>>
        BY <1>1, <1>3, <1>4, <1>5, <2>1, EmptySeq DEF FileInv
    <2>2. CASE stack # <<>>
        <3>1. 1 \in DOMAIN stack /\ stack'[1] = stack[1] /\ stack[1] \in Deployments
            BY <1>4, <1>5, <2>2, EmptySeq, ElementOfSeq
        <3> QED BY <1>1, <1>2, <1>3, <1>4, <2>2, <3>1 DEF FileInv
    <2> QED BY <2>1, <2>2
<1>8. ASSUME NEW i \in DOMAIN stack' PROVE
        \E k \in Steps :
            /\ Plan[k] = "tune"
            /\ \/ op'[stack'[i]][k] \in {"applied", "revert_failed"}
               \/ stack'[i] = job'.dep /\ k = job'.k
    <2>1. CASE i = Len(stack) + 1
        BY <1>1, <1>5, <2>1 DEF this
    <2>2. CASE i \in DOMAIN stack
        <3>1. PICK k \in Steps : Plan[k] = "tune" /\ InPlace(stack[i], k)
            BY <1>1, <2>2 DEF FileInv
        <3> QED BY <1>2, <1>4, <1>5, <2>2, <3>1 DEF InPlace
    <2> QED BY <1>4, <1>6, <2>1, <2>2
<1>9. ASSUME NEW i \in DOMAIN stack', NEW j \in DOMAIN stack', stack'[i] = stack'[j]
      PROVE  i = j
    <2>1. CASE i \in DOMAIN stack /\ j \in DOMAIN stack
        BY <1>1, <1>4, <1>5, <1>9, <2>1 DEF FileInv
    <2>2. CASE i = Len(stack) + 1 /\ j \in DOMAIN stack
        BY <1>2, <1>4, <1>5, <1>9, <2>2
    <2>3. CASE i \in DOMAIN stack /\ j = Len(stack) + 1
        BY <1>2, <1>4, <1>5, <1>9, <2>3
    <2>4. CASE i = Len(stack) + 1 /\ j = Len(stack) + 1
        BY <2>4
    <2> QED BY <1>4, <1>6, <2>1, <2>2, <2>3, <2>4
<1> QED BY <1>5, <1>7, <1>8, <1>9 DEF FileInv, InPlace, this

LEMMA FileStep ==
    TypeOK /\ JobInv /\ FileInv /\ [Next]_vars => FileInv'
<1> SUFFICES ASSUME TypeOK, JobInv, FileInv, [Next]_vars PROVE FileInv'
    OBVIOUS
<1> USE DEF stored, host
<1>1. ASSUME UNCHANGED <<dropin, stack, original, snapshot, op>>, astray => astray',
             phase \in {"save", "undo"} =>
                 phase' \in {"save", "undo"} /\ job'.dep = job.dep /\ job'.k = job.k
      PROVE  FileInv'
    BY <1>1, FileStays DEF InPlace, this
<1>2. CASE UNCHANGED vars
    BY <1>2, <1>1 DEF vars
<1>3. ASSUME NEW d \in Deployments, Apply(d) \/ Rollback(d) PROVE FileInv'
    BY <1>1, <1>3 DEF Apply, Rollback
<1>4. CASE Record
    <2>1. /\ phase = "record" /\ this \in Deployments /\ op[this][job.k] = "none" /\ job.k \in Steps
          /\ UNCHANGED <<dropin, stack, original, snapshot, astray>>
        BY <1>4, JobTypes DEF Record, JobInv, TypeOK
    <2>2. CASE SetOp("pending")
        <3>1. \A d \in Deployments, k \in Steps :
                  op[d][k] \in {"applied", "revert_failed"} => op'[d][k] = op[d][k]
            BY <2>1, <2>2, SetOpTypes DEF OpStatuses
        <3> QED BY <2>1, <3>1, FileStays DEF InPlace
    <2>3. CASE UNCHANGED op
        BY <1>1, <2>1, <2>3
    <2> QED BY <1>4, <2>2, <2>3 DEF Record
<1>5. CASE Act
    <2>1. phase = "act" /\ this \in Deployments /\ op[this][job.k] = "pending" /\ UNCHANGED original
        BY <1>5, JobTypes DEF Act, JobInv
    <2>2. CASE Done /\ Goto("save") /\ UNCHANGED <<op, astray>>
        <3>1. CASE \E c \in Contents : Tune(c)
            BY <2>1, <2>2, <3>1, FileAfterTune DEF Goto
        <3>2. CASE UNCHANGED <<dropin, snapshot, stack>>
            BY <1>1, <2>1, <2>2, <3>2
        <3> QED BY <2>2, <3>1, <3>2 DEF Done
    <2>3. CASE Undone /\ (SetOp("failed") \/ UNCHANGED op)
        <3>1. CASE astray' = TRUE
            BY <3>1 DEF FileInv
        <3>2. CASE UNCHANGED <<host, snapshot, stack, astray>>
            <4>1. \A d \in Deployments, k \in Steps :
                      op[d][k] \in {"applied", "revert_failed"} => op'[d][k] = op[d][k]
                <5>1. CASE SetOp("failed")
                    BY <2>1, <5>1, SetOpTypes DEF OpStatuses
                <5> QED BY <2>3, <5>1
            <4> QED BY <2>1, <3>2, <4>1, FileStays DEF InPlace
        <3> QED BY <2>3, <3>1, <3>2 DEF Undone
    <2> QED BY <1>5, <2>2, <2>3 DEF Act
<1>6. CASE Save
    <2>1. /\ phase = "save" /\ this \in Deployments /\ job.k \in Steps
          /\ UNCHANGED <<dropin, stack, original, snapshot, astray>>
        BY <1>6, JobTypes DEF Save, TypeOK
    <2>2. CASE SetOp("applied")
        <3>1. op'[this][job.k] = "applied"
              /\ \A d \in Deployments, k \in Steps :
                     d # this \/ k # job.k => op'[d][k] = op[d][k]
            BY <2>1, <2>2, SetOpTypes DEF OpStatuses
        <3> QED BY <2>1, <3>1, FileStays DEF InPlace
    <2>3. CASE UNCHANGED op /\ type # "cert" /\ Goto("undo")
        BY <1>1, <2>1, <2>3 DEF Goto
    <2>4. CASE UNCHANGED op /\ type = "cert"
        BY <2>1, <2>4, FileStays DEF InPlace, type
    <2> QED BY <1>6, <2>2, <2>3, <2>4 DEF Save
<1>7. CASE Undo
    <2>1. phase = "undo" /\ this \in Deployments /\ UNCHANGED <<op, snapshot, original>>
        BY <1>7, JobTypes DEF Undo
    <2>2. CASE type = "tune" /\ Restore
        BY <2>1, <2>2, FileAfterRestore
    <2>3. CASE type # "tune" /\ UNCHANGED <<dropin, stack, astray>>
        BY <2>1, <2>3, FileStays DEF InPlace, type
    <2>4. CASE astray' = (astray \/ type = "tune") /\ UNCHANGED host /\ UNCHANGED stack
        <3>1. CASE type = "tune"
            BY <2>4, <3>1 DEF FileInv
        <3>2. CASE type # "tune"
            BY <2>1, <2>4, <3>2, FileStays DEF InPlace, type
        <3> QED BY <3>1, <3>2
    <2> QED BY <1>7, <2>2, <2>3, <2>4 DEF Undo, Revert, tuning
<1>8. CASE Activate \/ List \/ Reapply \/ Mark
    <2>1. UNCHANGED <<dropin, stack, original, snapshot, op, astray>> /\ phase \notin {"save", "undo"}
        BY <1>8 DEF Activate, List, Reapply, Mark
    <2> QED BY <1>1, <2>1
<1>9. CASE RevertOne
    <2>1. /\ phase = "revert" /\ this \in Deployments /\ job.k \in Steps
          /\ UNCHANGED <<snapshot, original>>
        BY <1>9, RevertOneEffect DEF TypeOK
    <2>2. PICK undone \in BOOLEAN, written \in BOOLEAN :
            /\ IF undone THEN Revert ELSE UNCHANGED <<host, stack, astray>>
            /\ IF written THEN SetOp(Outcome(undone)) ELSE UNCHANGED op
        BY <1>9 DEF RevertOne
    <2>3. Outcome(undone) \in OpStatuses
        BY DEF Outcome, OpStatuses
    <2>4. \A d \in Deployments, k \in Steps : d # this \/ k # job.k => op'[d][k] = op[d][k]
        BY <2>1, <2>2, <2>3, SetOpTypes
    <2>5. CASE undone /\ type = "tune"
        <3>1. Restore
            BY <2>2, <2>5 DEF Revert
        <3>2. \A d \in Deployments : d # this => op'[d] = op[d]
            BY <2>1, <2>2 DEF SetOp, TypeOK
        <3> QED BY <2>1, <3>1, <3>2, FileAfterRestore
    <2>6. CASE undone /\ type # "tune"
        <3>1. UNCHANGED <<dropin, stack, astray>>
            BY <2>2, <2>6 DEF Revert, tuning
        <3> QED BY <2>1, <2>4, <2>6, <3>1, FileStays DEF InPlace, type
    <2>7. CASE ~undone
        <3>1. UNCHANGED <<dropin, stack, astray>>
            BY <2>2, <2>7
        <3>2. op'[this][job.k] \in {op[this][job.k], "revert_failed"}
            BY <2>1, <2>2, <2>3, <2>7, SetOpTypes DEF Outcome
        <3> QED BY <2>1, <2>4, <3>1, <3>2, FileStays DEF InPlace
    <2> QED BY <2>5, <2>6, <2>7
<1>10. CASE Cancel
    <2>1. job'.dep = job.dep /\ job'.k = job.k
        BY <1>10 DEF Cancel, TypeOK
    <2> QED BY <1>1, <1>10, <2>1 DEF Cancel
<1>11. CASE ApplyRuntime \/ DeleteInbound
    BY <1>1, <1>11 DEF ApplyRuntime, DeleteInbound
<1>12. CASE Crash
    <2>1. UNCHANGED <<dropin, stack, original, snapshot, op>>
        BY <1>12 DEF Crash
    <2>2. CASE phase \in {"save", "undo"} /\ type = "tune"
        <3>1. astray'
            BY <1>12, <2>2 DEF Crash
        <3> QED BY <3>1 DEF FileInv
    <2>3. CASE ~(phase \in {"save", "undo"} /\ type = "tune")
        <3>1. astray => astray'
            BY <1>12 DEF Crash
        <3> QED BY <2>1, <2>3, <3>1, FileStays DEF InPlace, type
    <2> QED BY <2>2, <2>3
<1> QED BY <1>2, <1>3, <1>4, <1>5, <1>6, <1>7, <1>8, <1>9, <1>10, <1>11, <1>12 DEF Next

\* Rollbacks from the latest deployment down bring the original file back.
THEOREM RollbacksRestoreFile == Spec => []FilesRestored
<1>1. TypeOK /\ FileInv => FilesRestored
    <2> SUFFICES ASSUME TypeOK, FileInv, phase = "idle", ~astray,
                        \A d \in Deployments, k \in Steps :
                            Plan[k] = "tune" => op[d][k] \notin {"applied", "revert_failed"}
                 PROVE  dropin = original
        BY DEF FilesRestored
    <2>1. CASE stack = <<>>
        BY <2>1 DEF FileInv
    <2>2. CASE stack # <<>>
        <3>1. 1 \in DOMAIN stack /\ stack[1] \in Deployments
            BY <2>2, EmptySeq, ElementOfSeq DEF TypeOK
        <3>2. PICK k \in Steps : Plan[k] = "tune" /\ InPlace(stack[1], k)
            BY <3>1 DEF FileInv
        <3> QED BY <3>1, <3>2 DEF InPlace
    <2> QED BY <2>1, <2>2
<1> QED BY <1>1, TypeInit, TypeStep, JobInit, JobStep, FileInit, FileStep, PTL DEF Spec
=============================================================================
