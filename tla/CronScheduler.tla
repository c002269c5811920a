--------------------------- MODULE CronScheduler ---------------------------
(***************************************************************************)
(* The job scheduler (service/scheduler/cron.go) and the restore of a      *)
(* backup, which replaces the rows of the cron_jobs table and then calls   *)
(* ReloadFromDB.                                                           *)
(*                                                                         *)
(* A cron is one cron.Cron instance: the jobs entered into it, and whether *)
(* it runs.  A reload builds a new instance, starts it and stops the old   *)
(* one.  Callers are HTTP handlers and main; each holds s.mu where the     *)
(* code does, and has a phase of its own between two steps of the code.    *)
(***************************************************************************)
EXTENDS Goroutines

CONSTANTS
    Jobs,        \* ids of cron jobs
    NoCaller,    \* s.mu is free
    NoJob,
    MaxOps       \* bound on operations; a cron instance costs at least one

ASSUME CronAssumption ==
    /\ NoCaller \notin Callers
    /\ NoJob \notin Jobs
    /\ MaxOps \in Nat /\ MaxFaults \in Nat

Instances == 0 .. MaxOps
Phases == {"idle", "creating", "scheduling", "deleting", "restoring",
           "reloading", "loading", "swapped", "halting"}
Tables == [Jobs -> {"none", "enabled", "disabled"}]

VARIABLES
    rows,      \* the cron_jobs table
    cur,       \* s.cron; instances are numbered by the operations begun before them
    jobs,      \* keys of s.jobs
    entries,   \* entries[k]: jobs entered into cron instance k
    live,      \* instances that run
    run,       \* s.run
    mu,        \* the caller that holds s.mu
    target,    \* target[c]: the job a caller adds or removes
    old,       \* old[c]: the instance a caller is to stop
    ops,
    \* history, read by properties only
    ending,    \* jobs whose removal began and no reload has revived since
    stale,     \* the table was replaced and not loaded since
    stopped    \* Stop has returned

schedVars == <<cur, jobs, entries, live, run>>
callerVars == <<mu, pc, target, old>>
boundVars == <<ops, faults>>
historyVars == <<ending, stale, stopped>>
vars == <<rows, schedVars, callerVars, boundVars, historyVars>>

-----------------------------------------------------------------------------
Enabled == {j \in Jobs : rows[j] = "enabled"}

(* A definition whose name extends that of the next one, like the variants *)
(* of Create below, is the same code with a plausible bug in it.           *)

\* Rows a reload enters into the new instance.
Loaded == Enabled

\* At start-up main loads the enabled rows and starts the instance.
Init ==
    /\ rows \in Tables
    /\ cur = 0
    /\ jobs = Enabled
    /\ entries = [k \in Instances |-> IF k = 0 THEN Enabled ELSE {}]
    /\ live = {0}
    /\ run = TRUE
    /\ mu = NoCaller
    /\ pc = [c \in Callers |-> "idle"]
    /\ target = [c \in Callers |-> NoJob]
    /\ old = [c \in Callers |-> 0]
    /\ ops = 0 /\ faults = 0
    /\ ending = {} /\ stale = FALSE /\ stopped = FALSE

Lock(c) == mu = NoCaller /\ mu' = c
Unlock(c) == mu = c /\ mu' = NoCaller
Begin(c) == pc[c] = "idle" /\ ops < MaxOps /\ ops' = ops + 1
Drop(c) == Goto(c, "idle") /\ target' = [target EXCEPT ![c] = NoJob]

\* AddJob takes s.mu before it touches the table.
Add(c) ==
    /\ Begin(c)
    /\ Lock(c)
    /\ Goto(c, "creating")
    /\ UNCHANGED <<rows, schedVars, target, old, faults, historyVars>>

\* What gorm stores of a row whose Enable column has the default true: it takes
\* the zero value for unset and inserts the default.
Stored(v) == IF v = "none" THEN "none" ELSE "enabled"

\* The insert, under an id that no row has and no other caller is about.
Inserted(c) ==
    /\ NoFault
    /\ \E j \in Jobs, v \in {"enabled", "disabled"} :
        /\ rows[j] = "none" /\ j \notin jobs
        /\ \A d \in Callers : target[d] # j
        /\ rows' = [rows EXCEPT ![j] = Stored(v)]
        /\ target' = [target EXCEPT ![c] = j]
        /\ ending' = ending \ {j}
    /\ Goto(c, "scheduling")
    /\ UNCHANGED mu

Create(c) ==
    /\ pc[c] = "creating"
    /\ \/ Inserted(c)
       \/ Fault /\ Goto(c, "idle") /\ Unlock(c) /\ UNCHANGED <<rows, target, ending>>
    /\ UNCHANGED <<schedVars, old, ops, stale, stopped>>

ScheduleUnrecorded(c) ==
    /\ pc[c] = "scheduling"
    /\ entries' = [entries EXCEPT ![cur] = @ \cup {target[c]}]
    /\ Drop(c) /\ Unlock(c)
    /\ UNCHANGED <<rows, cur, jobs, live, run, old, boundVars, historyVars>>

\* The job is entered into s.cron and s.jobs; AddJob returns.
Schedule(c) ==
    /\ pc[c] = "scheduling"
    /\ entries' = [entries EXCEPT ![cur] = @ \cup {target[c]}]
    /\ jobs' = jobs \cup {target[c]}
    /\ Drop(c) /\ Unlock(c)
    /\ UNCHANGED <<rows, cur, live, run, old, boundVars, historyVars>>

\* RemoveJob unschedules the job in one critical section...
Remove(c) ==
    /\ Begin(c)
    /\ mu = NoCaller
    /\ \E j \in Jobs :
        /\ rows[j] # "none"
        /\ target' = [target EXCEPT ![c] = j]
        /\ entries' = [entries EXCEPT ![cur] = IF j \in jobs THEN @ \ {j} ELSE @]
        /\ jobs' = jobs \ {j}
        /\ ending' = ending \cup {j}
    /\ Goto(c, "deleting")
    /\ UNCHANGED <<rows, cur, live, run, mu, old, faults, stale, stopped>>

\* ... and deletes the row after it has left it.
Delete(c) ==
    /\ pc[c] = "deleting"
    /\ \/ NoFault /\ rows' = [rows EXCEPT ![target[c]] = "none"]
       \/ Fault /\ UNCHANGED rows
    /\ Drop(c)
    /\ UNCHANGED <<schedVars, mu, old, ops, historyVars>>

\* A restore replaces the table in one transaction.  Restores, and retries of
\* the reload, are serialised by backupRuntimeCoordinator.opMu.
Restoring == \E c \in Callers : pc[c] \in {"reloading", "loading", "swapped"}

Restore(c) ==
    /\ Begin(c)
    /\ ~Restoring
    /\ \E archive \in Tables : rows' = [j \in Jobs |-> Stored(archive[j])]
    /\ stale' = TRUE
    /\ Goto(c, "reloading")
    /\ UNCHANGED <<schedVars, mu, target, old, faults, ending, stopped>>

Retry(c) ==
    /\ Begin(c)
    /\ ~Restoring
    /\ Goto(c, "reloading")
    /\ UNCHANGED <<rows, schedVars, mu, target, old, faults, historyVars>>

\* ReloadFromDB, under s.mu to its end.
Reload(c) ==
    /\ pc[c] = "reloading"
    /\ Lock(c)
    /\ Goto(c, "loading")
    /\ UNCHANGED <<rows, schedVars, target, old, boundVars, historyVars>>

\* It reads the enabled rows, enters them into a new instance and starts it if
\* the scheduler runs, or gives up when the read fails.
Replace(c, started) ==
    /\ cur' = ops
    /\ jobs' = Loaded
    /\ entries' = [entries EXCEPT ![ops] = Loaded]
    /\ live' = started
    /\ old' = [old EXCEPT ![c] = cur]
    /\ ending' = {j \in Jobs : \E d \in Callers : pc[d] = "deleting" /\ target[d] = j}
    /\ stale' = FALSE
    /\ Goto(c, "swapped")
    /\ UNCHANGED <<run, mu>>

Abandon(c) ==
    /\ Goto(c, "idle") /\ Unlock(c)
    /\ UNCHANGED <<schedVars, old, ending, stale>>

SwapStoppingFirst(c) ==
    /\ pc[c] = "loading"
    /\ \/ NoFault /\ Replace(c, live \ {cur})
       \/ Fault /\ Abandon(c)
    /\ UNCHANGED <<rows, target, ops, stopped>>

Swap(c) ==
    /\ pc[c] = "loading"
    /\ \/ NoFault /\ Replace(c, IF run THEN live \cup {ops} ELSE live)
       \/ Fault /\ Abandon(c)
    /\ UNCHANGED <<rows, target, ops, stopped>>

\* The old instance is stopped last.
RetireIfIdle(c) ==
    /\ pc[c] = "swapped"
    /\ live' = IF entries[old[c]] = {} THEN live \ {old[c]} ELSE live
    /\ Drop(c) /\ Unlock(c)
    /\ UNCHANGED <<rows, cur, jobs, entries, run, old, boundVars, historyVars>>

Retire(c) ==
    /\ pc[c] = "swapped"
    /\ live' = live \ {old[c]}
    /\ Drop(c) /\ Unlock(c)
    /\ UNCHANGED <<rows, cur, jobs, entries, run, old, boundVars, historyVars>>

\* Stop, at shutdown: the instance is fetched under s.mu and stopped after it.
Stop(c) ==
    /\ Begin(c)
    /\ mu = NoCaller
    /\ old' = [old EXCEPT ![c] = cur]
    /\ run' = FALSE
    /\ Goto(c, "halting")
    /\ UNCHANGED <<rows, cur, jobs, entries, live, mu, target, faults, historyVars>>

Halt(c) ==
    /\ pc[c] = "halting"
    /\ live' = live \ {old[c]}
    /\ stopped' = TRUE
    /\ Goto(c, "idle")
    /\ UNCHANGED <<rows, cur, jobs, entries, run, mu, target, old, boundVars, ending, stale>>

CallerStep(c) ==
    \/ Add(c) \/ Create(c) \/ Schedule(c)
    \/ Remove(c) \/ Delete(c)
    \/ Restore(c) \/ Retry(c) \/ Reload(c) \/ Swap(c) \/ Retire(c)
    \/ Stop(c) \/ Halt(c)

Next == \E c \in Callers : CallerStep(c)

Spec == Init /\ [][Next]_vars

-----------------------------------------------------------------------------
TypeOK ==
    /\ rows \in Tables
    /\ cur \in Instances
    /\ jobs \subseteq Jobs
    /\ entries \in [Instances -> SUBSET Jobs]
    /\ live \subseteq Instances
    /\ run \in BOOLEAN
    /\ mu \in Callers \cup {NoCaller}
    /\ pc \in [Callers -> Phases]
    /\ target \in [Callers -> Jobs \cup {NoJob}]
    /\ old \in [Callers -> Instances]
    /\ ops \in Instances /\ faults \in Nat
    /\ ending \subseteq Jobs
    /\ stale \in BOOLEAN /\ stopped \in BOOLEAN

\* A job whose row is enabled and which nobody is adding or removing.
Settled(j) ==
    /\ rows[j] = "enabled"
    /\ j \notin ending
    /\ \A c \in Callers : target[c] # j

\* No enabled job is ever without a cron instance that runs it, whatever adds,
\* removals and reloads overlap: not even while a reload replaces the schedule.
\* Excepted are the time between the restore of a table and its loading, and
\* jobs whose removal failed half-way.
AlwaysCovered ==
    run /\ ~stale => \A j \in Jobs : Settled(j) => \E k \in live : j \in entries[k]

\* What s.jobs records is what the current instance holds, so RemoveJob finds
\* the entry of every job it is asked to unschedule.
BookMatchesInstance == entries[cur] = jobs

\* Outside a reload no instance but the current one runs, so no job fires twice
\* for one activation and a job that is unscheduled does not go on in another;
\* after Stop nothing runs at all, a reload that overlapped with it included.
OneInstanceAtRest ==
    mu = NoCaller /\ (\A c \in Callers : pc[c] # "halting") => live \subseteq (IF stopped THEN {} ELSE {cur})
=============================================================================
