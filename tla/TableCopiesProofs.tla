-------------------------- MODULE TableCopiesProofs --------------------------
(***************************************************************************)
(* Proofs about the two components that keep a copy of a table in memory:  *)
(* CronScheduler, for any jobs, any number of callers and any bounds, and  *)
(* SettingsCache, for any number of callers and values and any TTL, read   *)
(* time and bounds.                                                        *)
(*                                                                         *)
(* The scheduler: s.mu serialises adding a job and loading the table, and  *)
(* opMu the reloads, so the instance a reload starts is new and at most    *)
(* one older instance runs beside it; what happens outside s.mu, deleting  *)
(* a row and stopping an instance at shutdown, is noted before it happens  *)
(* (ending, run).                                                          *)
(*                                                                         *)
(* The settings: what GetSetting serves from its cache is at most          *)
(* TTL + ReadTime old.                                                     *)
(***************************************************************************)
EXTENDS CronScheduler, SettingsCache, TLAPS

-----------------------------------------------------------------------------
(* The cron scheduler.                                                     *)

Locked == {"creating", "scheduling", "loading", "swapped"}
Reloading == {"reloading", "loading", "swapped"}

\* s.mu belongs to the caller in a locked phase; one caller at most reloads.
LockOK ==
    /\ \A c \in Callers : pc[c] \in Locked <=> mu = c
    /\ \A c, d \in Callers : pc[c] \in Reloading /\ pc[d] \in Reloading => c = d

\* A caller has a job while it adds or removes it; who deletes has noted it.
TargetOK ==
    /\ \A c \in Callers : IF pc[c] \in {"scheduling", "deleting"} THEN target[c] \in Jobs ELSE target[c] = NoJob
    /\ \A c \in Callers : pc[c] = "deleting" => target[c] \in ending

\* The instance of a reload is a new one.
NumberOK ==
    /\ cur <= ops
    /\ \A c \in Callers : pc[c] \in {"reloading", "loading"} => cur < ops
    /\ \A c \in Callers : pc[c] = "swapped" => old[c] < cur

\* Who runs: the current instance and one that a reload is about to stop; once
\* the scheduler is told to stop, only instances somebody is about to stop.
LiveOK ==
    /\ \A k \in live : k = cur \/ \E c \in Callers : pc[c] = "swapped" /\ old[c] = k
    /\ run => cur \in live
    /\ ~run => \A k \in live : \E c \in Callers : pc[c] \in {"swapped", "halting"} /\ old[c] = k
    /\ stopped => ~run
    /\ \A c \in Callers : pc[c] = "halting" => ~run

\* A settled job is in the book of an up-to-date schedule.
CoverOK == ~stale => \A j \in Jobs : Settled(j) => j \in jobs

\* The inductive invariant.
CronInv == TypeOK /\ LockOK /\ TargetOK /\ NumberOK /\ LiveOK /\ BookMatchesInstance /\ CoverOK

-----------------------------------------------------------------------------
\* Every step keeps the types.
LEMMA TypeStep ==
    ASSUME CronInv, NEW c \in Callers, CallerStep(c)
    PROVE  TypeOK'
<1> USE DEF Begin, Lock, Unlock, Goto, Drop, Fault, NoFault, schedVars, callerVars, boundVars, historyVars
<1>0. TypeOK /\ TargetOK /\ NoCaller \notin Callers /\ MaxOps \in Nat
    BY CronAssumption DEF CronInv
<1>1. CASE Add(c)
    BY <1>0, <1>1 DEF Add, TypeOK, TargetOK, Tables, Instances, Phases
<1>2. CASE Create(c)
    <2>1. CASE Inserted(c)
        <3>1. PICK j \in Jobs, v \in {"enabled", "disabled"} :
                rows' = [rows EXCEPT ![j] = Stored(v)] /\ target' = [target EXCEPT ![c] = j] /\ ending' = ending \ {j}
            BY <2>1 DEF Inserted
        <3>2. rows' \in Tables
            BY <1>0, <3>1 DEF TypeOK, Tables, Stored
        <3>3. target' \in [Callers -> Jobs \cup {NoJob}] /\ ending' \subseteq Jobs
            BY <1>0, <3>1 DEF TypeOK
        <3> QED BY <1>0, <1>2, <2>1, <3>2, <3>3 DEF Create, Inserted, TypeOK, Phases
    <2>2. CASE ~Inserted(c)
        BY <1>0, <1>2, <2>2 DEF Create, TypeOK, Phases
    <2> QED BY <2>1, <2>2
<1>3. CASE Schedule(c)
    BY <1>0, <1>3 DEF Schedule, TypeOK, TargetOK, Tables, Instances, Phases
<1>4. CASE Remove(c)
    BY <1>0, <1>4 DEF Remove, TypeOK, TargetOK, Tables, Instances, Phases
<1>5. CASE Delete(c)
    BY <1>0, <1>5 DEF Delete, TypeOK, TargetOK, Tables, Instances, Phases
<1>6. CASE Restore(c)
    BY <1>0, <1>6 DEF Restore, TypeOK, TargetOK, Tables, Instances, Phases, Stored, Restoring
<1>7. CASE Retry(c)
    BY <1>0, <1>7 DEF Retry, TypeOK, TargetOK, Tables, Instances, Phases, Restoring
<1>8. CASE Reload(c)
    BY <1>0, <1>8 DEF Reload, TypeOK, TargetOK, Tables, Instances, Phases
<1>9. CASE Swap(c)
    <2>1. CASE NoFault /\ Replace(c, IF run THEN live \cup {ops} ELSE live)
        <3>1. ops \in Instances /\ Loaded \subseteq Jobs
            BY <1>0 DEF TypeOK, Loaded, Enabled
        <3>2. cur' = ops /\ jobs' = Loaded /\ old' = [old EXCEPT ![c] = cur] /\ pc' = [pc EXCEPT ![c] = "swapped"]
              /\ entries' = [entries EXCEPT ![ops] = Loaded]
            BY <2>1 DEF Replace
        <3>3. live' \subseteq Instances
            BY <1>0, <2>1, <3>1 DEF Replace, TypeOK
        <3>4. ending' \subseteq Jobs /\ stale' \in BOOLEAN
            BY <2>1 DEF Replace
        <3>5. entries' \in [Instances -> SUBSET Jobs]
            BY <1>0, <3>1, <3>2 DEF TypeOK
        <3>6. UNCHANGED <<rows, run, mu, target, ops, faults, stopped>>
            BY <1>9, <2>1 DEF Swap, Replace
        <3> QED BY <1>0, <3>1, <3>2, <3>3, <3>4, <3>5, <3>6 DEF TypeOK, Phases
    <2>2. CASE Fault /\ Abandon(c)
        BY <1>0, <1>9, <2>2 DEF Swap, Abandon, TypeOK, Phases
    <2> QED BY <1>9, <2>1, <2>2 DEF Swap
<1>10. CASE Retire(c)
    BY <1>0, <1>10 DEF Retire, TypeOK, TargetOK, Tables, Instances, Phases
<1>11. CASE Stop(c)
    <2>1. ops' \in Instances /\ old' \in [Callers -> Instances] /\ pc' \in [Callers -> Phases]
        <3>1. ops' \in Instances
            BY <1>0, <1>11 DEF Stop, TypeOK, Instances
        <3> QED BY <1>0, <1>11, <3>1 DEF Stop, TypeOK, Phases
    <2> QED BY <1>0, <1>11, <2>1 DEF Stop, TypeOK
<1>12. CASE Halt(c)
    BY <1>0, <1>12 DEF Halt, TypeOK, TargetOK, Tables, Instances, Phases
<1> QED BY <1>1, <1>2, <1>3, <1>4, <1>5, <1>6, <1>7, <1>8, <1>9, <1>10, <1>11, <1>12 DEF CallerStep

\* s.mu stays with the caller that took it.
LEMMA LockStep ==
    ASSUME CronInv, NEW c \in Callers, CallerStep(c)
    PROVE  LockOK'
<1> USE DEF Begin, Lock, Unlock, Goto, Drop, Fault, NoFault, schedVars, callerVars, boundVars, historyVars
<1>0. TypeOK /\ LockOK /\ NoCaller \notin Callers
    BY CronAssumption DEF CronInv
<1>1. CASE Add(c)
    BY <1>0, <1>1 DEF Add, TypeOK, LockOK, Locked, Reloading, Phases
<1>2. CASE Create(c)
    BY <1>0, <1>2 DEF Create, Inserted, TypeOK, LockOK, Locked, Reloading, Phases
<1>3. CASE Schedule(c)
    BY <1>0, <1>3 DEF Schedule, TypeOK, LockOK, Locked, Reloading, Phases
<1>4. CASE Remove(c)
    BY <1>0, <1>4 DEF Remove, TypeOK, LockOK, Locked, Reloading, Phases
<1>5. CASE Delete(c)
    BY <1>0, <1>5 DEF Delete, TypeOK, LockOK, Locked, Reloading, Phases
<1>6. CASE Restore(c)
    BY <1>0, <1>6 DEF Restore, TypeOK, LockOK, Locked, Reloading, Restoring, Phases
<1>7. CASE Retry(c)
    BY <1>0, <1>7 DEF Retry, TypeOK, LockOK, Locked, Reloading, Restoring, Phases
<1>8. CASE Reload(c)
    BY <1>0, <1>8 DEF Reload, TypeOK, LockOK, Locked, Reloading, Phases
<1>9. CASE Swap(c)
    BY <1>0, <1>9 DEF Swap, Replace, Abandon, TypeOK, LockOK, Locked, Reloading, Phases
<1>10. CASE Retire(c)
    BY <1>0, <1>10 DEF Retire, TypeOK, LockOK, Locked, Reloading, Phases
<1>11. CASE Stop(c)
    BY <1>0, <1>11 DEF Stop, TypeOK, LockOK, Locked, Reloading, Phases
<1>12. CASE Halt(c)
    BY <1>0, <1>12 DEF Halt, TypeOK, LockOK, Locked, Reloading, Phases
<1> QED BY <1>1, <1>2, <1>3, <1>4, <1>5, <1>6, <1>7, <1>8, <1>9, <1>10, <1>11, <1>12 DEF CallerStep

\* A removal stays noted until its row is deleted.
LEMMA TargetStep ==
    ASSUME CronInv, NEW c \in Callers, CallerStep(c)
    PROVE  TargetOK'
<1> USE DEF Begin, Lock, Unlock, Goto, Drop, Fault, NoFault, schedVars, callerVars, boundVars, historyVars
<1>0. TypeOK /\ TargetOK /\ LockOK
    BY DEF CronInv
<1>1. CASE Add(c)
    BY <1>0, <1>1 DEF Add, TypeOK, TargetOK, LockOK, Locked, Phases
<1>2. CASE Create(c)
    BY <1>0, <1>2 DEF Create, Inserted, TypeOK, TargetOK, LockOK, Locked, Phases
<1>3. CASE Schedule(c)
    BY <1>0, <1>3 DEF Schedule, TypeOK, TargetOK, LockOK, Locked, Phases
<1>4. CASE Remove(c)
    BY <1>0, <1>4 DEF Remove, TypeOK, TargetOK, LockOK, Locked, Phases
<1>5. CASE Delete(c)
    BY <1>0, <1>5 DEF Delete, TypeOK, TargetOK, LockOK, Locked, Phases
<1>6. CASE Restore(c)
    BY <1>0, <1>6 DEF Restore, TypeOK, TargetOK, LockOK, Locked, Phases
<1>7. CASE Retry(c)
    BY <1>0, <1>7 DEF Retry, TypeOK, TargetOK, LockOK, Locked, Phases
<1>8. CASE Reload(c)
    BY <1>0, <1>8 DEF Reload, TypeOK, TargetOK, LockOK, Locked, Phases
<1>9. CASE Swap(c)
    BY <1>0, <1>9 DEF Swap, Replace, Abandon, TypeOK, TargetOK, LockOK, Locked, Phases
<1>10. CASE Retire(c)
    BY <1>0, <1>10 DEF Retire, TypeOK, TargetOK, LockOK, Locked, Phases
<1>11. CASE Stop(c)
    BY <1>0, <1>11 DEF Stop, TypeOK, TargetOK, LockOK, Locked, Phases
<1>12. CASE Halt(c)
    BY <1>0, <1>12 DEF Halt, TypeOK, TargetOK, LockOK, Locked, Phases
<1> QED BY <1>1, <1>2, <1>3, <1>4, <1>5, <1>6, <1>7, <1>8, <1>9, <1>10, <1>11, <1>12 DEF CallerStep

\* The instance of a reload stays new.
LEMMA NumberStep ==
    ASSUME CronInv, NEW c \in Callers, CallerStep(c)
    PROVE  NumberOK'
<1> USE DEF Begin, Lock, Unlock, Goto, Drop, Fault, NoFault, schedVars, callerVars, boundVars, historyVars
<1>0. TypeOK /\ NumberOK /\ LockOK
    BY DEF CronInv
<1>1. CASE Add(c)
    BY <1>0, <1>1 DEF Add, TypeOK, NumberOK, LockOK, Locked, Reloading, Instances
<1>2. CASE Create(c)
    BY <1>0, <1>2 DEF Create, Inserted, TypeOK, NumberOK, LockOK, Locked, Reloading, Instances
<1>3. CASE Schedule(c)
    BY <1>0, <1>3 DEF Schedule, TypeOK, NumberOK, LockOK, Locked, Reloading, Instances
<1>4. CASE Remove(c)
    BY <1>0, <1>4 DEF Remove, TypeOK, NumberOK, LockOK, Locked, Reloading, Instances
<1>5. CASE Delete(c)
    BY <1>0, <1>5 DEF Delete, TypeOK, NumberOK, LockOK, Locked, Reloading, Instances
<1>6. CASE Restore(c)
    BY <1>0, <1>6 DEF Restore, TypeOK, NumberOK, LockOK, Locked, Reloading, Restoring, Instances
<1>7. CASE Retry(c)
    BY <1>0, <1>7 DEF Retry, TypeOK, NumberOK, LockOK, Locked, Reloading, Restoring, Instances
<1>8. CASE Reload(c)
    BY <1>0, <1>8 DEF Reload, TypeOK, NumberOK, LockOK, Locked, Reloading, Instances
<1>9. CASE Swap(c)
    <2>1. CASE NoFault /\ Replace(c, IF run THEN live \cup {ops} ELSE live)
        <3>1. pc[c] = "loading" /\ mu = c
            BY <1>0, <1>9 DEF Swap, LockOK, Locked
        <3>2. \A d \in Callers : d # c => pc[d] \notin {"reloading", "loading", "swapped"}
            BY <1>0, <3>1 DEF LockOK, Reloading
        <3>3. cur' = ops /\ old' = [old EXCEPT ![c] = cur] /\ pc' = [pc EXCEPT ![c] = "swapped"]
              /\ live' = (IF run THEN live \cup {ops} ELSE live) /\ run' = run /\ ops' = ops /\ stopped' = stopped
            BY <1>9, <2>1 DEF Swap, Replace
        <3>4. cur \in Nat /\ ops \in Nat /\ cur < ops /\ pc'[c] = "swapped" /\ old'[c] = cur
              /\ \A d \in Callers : d # c => pc'[d] = pc[d] /\ old'[d] = old[d]
            BY <1>0, <3>1, <3>3 DEF TypeOK, Instances, NumberOK
        <3> QED BY <1>0, <3>2, <3>3, <3>4 DEF NumberOK
    <2>2. CASE Fault /\ Abandon(c)
        BY <1>0, <1>9, <2>2 DEF Swap, Abandon, TypeOK, NumberOK, Instances
    <2> QED BY <1>9, <2>1, <2>2 DEF Swap
<1>10. CASE Retire(c)
    BY <1>0, <1>10 DEF Retire, TypeOK, NumberOK, LockOK, Locked, Reloading, Instances
<1>11. CASE Stop(c)
    BY <1>0, <1>11 DEF Stop, TypeOK, NumberOK, LockOK, Locked, Reloading, Instances
<1>12. CASE Halt(c)
    BY <1>0, <1>12 DEF Halt, TypeOK, NumberOK, LockOK, Locked, Reloading, Instances
<1> QED BY <1>1, <1>2, <1>3, <1>4, <1>5, <1>6, <1>7, <1>8, <1>9, <1>10, <1>11, <1>12 DEF CallerStep

\* Every step accounts for the instances that run.
LEMMA LiveStep ==
    ASSUME CronInv, NEW c \in Callers, CallerStep(c)
    PROVE  LiveOK'
<1> USE DEF Begin, Lock, Unlock, Goto, Drop, Fault, NoFault, schedVars, callerVars, boundVars, historyVars
<1>0. TypeOK /\ NumberOK /\ LockOK /\ LiveOK
    BY DEF CronInv
<1>1. CASE Add(c)
    BY <1>0, <1>1 DEF Add, TypeOK, NumberOK, LockOK, LiveOK, Locked, Reloading, Instances
<1>2. CASE Create(c)
    <2>1. UNCHANGED <<cur, live, run, old, stopped>> /\ pc[c] = "creating"
          /\ pc' \in {[pc EXCEPT ![c] = "scheduling"], [pc EXCEPT ![c] = "idle"]}
        BY <1>2 DEF Create, Inserted
    <2>2. \A d \in Callers : pc'[d] # "halting" \/ pc[d] = "halting"
        BY <1>0, <2>1 DEF TypeOK
    <2>3. \A d \in Callers : pc[d] \in {"swapped", "halting"} => pc'[d] = pc[d]
        BY <1>0, <2>1 DEF TypeOK
    <2> QED BY <1>0, <2>1, <2>2, <2>3 DEF LiveOK
<1>3. CASE Schedule(c)
    BY <1>0, <1>3 DEF Schedule, TypeOK, NumberOK, LockOK, LiveOK, Locked, Reloading, Instances
<1>4. CASE Remove(c)
    BY <1>0, <1>4 DEF Remove, TypeOK, NumberOK, LockOK, LiveOK, Locked, Reloading, Instances
<1>5. CASE Delete(c)
    BY <1>0, <1>5 DEF Delete, TypeOK, NumberOK, LockOK, LiveOK, Locked, Reloading, Instances
<1>6. CASE Restore(c)
    BY <1>0, <1>6 DEF Restore, TypeOK, NumberOK, LockOK, LiveOK, Locked, Reloading, Restoring, Instances
<1>7. CASE Retry(c)
    BY <1>0, <1>7 DEF Retry, TypeOK, NumberOK, LockOK, LiveOK, Locked, Reloading, Restoring, Instances
<1>8. CASE Reload(c)
    BY <1>0, <1>8 DEF Reload, TypeOK, NumberOK, LockOK, LiveOK, Locked, Reloading, Instances
<1>9. CASE Swap(c)
    <2>1. CASE NoFault /\ Replace(c, IF run THEN live \cup {ops} ELSE live)
        <3>1. pc[c] = "loading" /\ mu = c
            BY <1>0, <1>9 DEF Swap, LockOK, Locked
        <3>2. \A d \in Callers : d # c => pc[d] \notin {"reloading", "loading", "swapped"}
            BY <1>0, <3>1 DEF LockOK, Reloading
        <3>3. cur' = ops /\ old' = [old EXCEPT ![c] = cur] /\ pc' = [pc EXCEPT ![c] = "swapped"]
              /\ live' = (IF run THEN live \cup {ops} ELSE live) /\ run' = run /\ ops' = ops /\ stopped' = stopped
            BY <1>9, <2>1 DEF Swap, Replace
        <3>4. cur \in Nat /\ ops \in Nat /\ cur < ops /\ pc'[c] = "swapped" /\ old'[c] = cur
              /\ \A d \in Callers : d # c => pc'[d] = pc[d] /\ old'[d] = old[d]
            BY <1>0, <3>1, <3>3 DEF TypeOK, Instances, NumberOK
        <3>5. \A k \in live : k = cur
            BY <1>0, <3>1, <3>2 DEF LiveOK
        <3>6. CASE run
            BY <1>0, <3>2, <3>3, <3>4, <3>5, <3>6 DEF LiveOK
        <3>7. CASE ~run
            BY <1>0, <3>2, <3>3, <3>4, <3>5, <3>7 DEF LiveOK
        <3> QED BY <3>6, <3>7
    <2>2. CASE Fault /\ Abandon(c)
        BY <1>0, <1>9, <2>2 DEF Swap, Abandon, TypeOK, LiveOK
    <2> QED BY <1>9, <2>1, <2>2 DEF Swap
<1>10. CASE Retire(c)
    BY <1>0, <1>10 DEF Retire, TypeOK, NumberOK, LockOK, LiveOK, Locked, Reloading, Instances
<1>11. CASE Stop(c)
    BY <1>0, <1>11 DEF Stop, TypeOK, NumberOK, LockOK, LiveOK, Locked, Reloading, Instances
<1>12. CASE Halt(c)
    BY <1>0, <1>12 DEF Halt, TypeOK, NumberOK, LockOK, LiveOK, Locked, Reloading, Instances
<1> QED BY <1>1, <1>2, <1>3, <1>4, <1>5, <1>6, <1>7, <1>8, <1>9, <1>10, <1>11, <1>12 DEF CallerStep

\* Every step keeps the book and the current instance together.
LEMMA BookStep ==
    ASSUME CronInv, NEW c \in Callers, CallerStep(c)
    PROVE  BookMatchesInstance'
<1> USE DEF Begin, Lock, Unlock, Goto, Drop, Fault, NoFault, schedVars, callerVars, boundVars, historyVars
<1>0. TypeOK /\ BookMatchesInstance
    BY DEF CronInv
<1>1. CASE Add(c)
    BY <1>0, <1>1 DEF Add, TypeOK, BookMatchesInstance, Instances
<1>2. CASE Create(c)
    BY <1>0, <1>2 DEF Create, Inserted, TypeOK, BookMatchesInstance, Instances
<1>3. CASE Schedule(c)
    BY <1>0, <1>3 DEF Schedule, TypeOK, BookMatchesInstance, Instances
<1>4. CASE Remove(c)
    BY <1>0, <1>4 DEF Remove, TypeOK, BookMatchesInstance, Instances
<1>5. CASE Delete(c)
    BY <1>0, <1>5 DEF Delete, TypeOK, BookMatchesInstance, Instances
<1>6. CASE Restore(c)
    BY <1>0, <1>6 DEF Restore, TypeOK, BookMatchesInstance, Instances
<1>7. CASE Retry(c)
    BY <1>0, <1>7 DEF Retry, TypeOK, BookMatchesInstance, Instances
<1>8. CASE Reload(c)
    BY <1>0, <1>8 DEF Reload, TypeOK, BookMatchesInstance, Instances
<1>9. CASE Swap(c)
    <2>1. CASE NoFault /\ Replace(c, IF run THEN live \cup {ops} ELSE live)
        <3>1. ops \in Instances
            BY <1>0 DEF TypeOK
        <3>2. entries' = [entries EXCEPT ![ops] = Loaded] /\ cur' = ops /\ jobs' = Loaded
            BY <2>1 DEF Replace
        <3> QED BY <1>0, <3>1, <3>2 DEF TypeOK, BookMatchesInstance
    <2>2. CASE Fault /\ Abandon(c)
        BY <1>0, <1>9, <2>2 DEF Swap, Abandon, BookMatchesInstance
    <2> QED BY <1>9, <2>1, <2>2 DEF Swap
<1>10. CASE Retire(c)
    BY <1>0, <1>10 DEF Retire, TypeOK, BookMatchesInstance, Instances
<1>11. CASE Stop(c)
    BY <1>0, <1>11 DEF Stop, TypeOK, BookMatchesInstance, Instances
<1>12. CASE Halt(c)
    BY <1>0, <1>12 DEF Halt, TypeOK, BookMatchesInstance, Instances
<1> QED BY <1>1, <1>2, <1>3, <1>4, <1>5, <1>6, <1>7, <1>8, <1>9, <1>10, <1>11, <1>12 DEF CallerStep

\* A settled job stays in the book.
LEMMA CoverStep ==
    ASSUME CronInv, NEW c \in Callers, CallerStep(c)
    PROVE  CoverOK'
<1> USE DEF Begin, Lock, Unlock, Goto, Drop, Fault, NoFault, schedVars, callerVars, boundVars, historyVars
<1>0. TypeOK /\ TargetOK /\ LockOK /\ CoverOK
    BY DEF CronInv
<1>1. CASE Add(c)
    BY <1>0, <1>1 DEF Add, TypeOK, TargetOK, LockOK, CoverOK, Settled, Locked, Tables
<1>2. CASE Create(c)
    <2>1. CASE Inserted(c)
        <3>1. PICK j \in Jobs, v \in {"enabled", "disabled"} :
                rows' = [rows EXCEPT ![j] = Stored(v)] /\ target' = [target EXCEPT ![c] = j] /\ ending' = ending \ {j}
            BY <2>1 DEF Inserted
        <3>2. jobs' = jobs /\ stale' = stale /\ pc[c] = "creating"
            BY <1>2 DEF Create
        <3>3. target[c] = NoJob /\ target'[c] = j
            BY <1>0, <3>1, <3>2 DEF TypeOK, TargetOK
        <3>4. ASSUME NEW i \in Jobs, Settled(i)' PROVE Settled(i)
            <4>1. i # j
                BY <3>3, <3>4 DEF Settled
            <4>2. rows'[i] = rows[i] /\ (i \in ending => i \in ending')
                BY <1>0, <3>1, <4>1 DEF TypeOK, Tables
            <4>3. \A d \in Callers : d # c => target'[d] = target[d]
                BY <1>0, <3>1 DEF TypeOK
            <4>4. target[c] # i
                BY <1>0, <3>3, CronAssumption
            <4> QED BY <3>4, <4>2, <4>3, <4>4 DEF Settled
        <3> QED BY <1>0, <3>2, <3>4 DEF CoverOK
    <2>2. CASE ~Inserted(c)
        BY <1>0, <1>2, <2>2 DEF Create, CoverOK, Settled
    <2> QED BY <2>1, <2>2
<1>3. CASE Schedule(c)
    BY <1>0, <1>3 DEF Schedule, TypeOK, TargetOK, LockOK, CoverOK, Settled, Locked, Tables
<1>4. CASE Remove(c)
    <2>1. PICK j \in Jobs : /\ target' = [target EXCEPT ![c] = j]
                           /\ jobs' = jobs \ {j}
                           /\ ending' = ending \cup {j}
        BY <1>4 DEF Remove
    <2>2. rows' = rows /\ stale' = stale /\ target[c] = NoJob
        BY <1>0, <1>4 DEF Remove, TargetOK
    <2>3. ASSUME NEW i \in Jobs, Settled(i)' PROVE Settled(i) /\ i # j
        <3>1. i # j /\ i \notin ending
            BY <2>1, <2>3 DEF Settled
        <3>2. \A d \in Callers : d # c => target'[d] = target[d]
            BY <1>0, <2>1 DEF TypeOK
        <3>3. target[c] # i
            BY <2>2, CronAssumption
        <3> QED BY <2>2, <2>3, <3>1, <3>2, <3>3 DEF Settled
    <2> QED BY <1>0, <2>1, <2>2, <2>3 DEF CoverOK
<1>5. CASE Delete(c)
    BY <1>0, <1>5 DEF Delete, TypeOK, TargetOK, LockOK, CoverOK, Settled, Locked, Tables
<1>6. CASE Restore(c)
    BY <1>0, <1>6 DEF Restore, TypeOK, TargetOK, LockOK, CoverOK, Settled, Locked, Tables, Stored
<1>7. CASE Retry(c)
    BY <1>0, <1>7 DEF Retry, TypeOK, TargetOK, LockOK, CoverOK, Settled, Locked, Tables
<1>8. CASE Reload(c)
    BY <1>0, <1>8 DEF Reload, TypeOK, TargetOK, LockOK, CoverOK, Settled, Locked, Tables
<1>9. CASE Swap(c)
    BY <1>0, <1>9 DEF Swap, Replace, Abandon, TypeOK, TargetOK, LockOK, CoverOK, Settled, Locked, Loaded, Enabled, Tables
<1>10. CASE Retire(c)
    BY <1>0, <1>10 DEF Retire, TypeOK, TargetOK, LockOK, CoverOK, Settled, Locked, Tables
<1>11. CASE Stop(c)
    BY <1>0, <1>11 DEF Stop, TypeOK, TargetOK, LockOK, CoverOK, Settled, Locked, Tables
<1>12. CASE Halt(c)
    BY <1>0, <1>12 DEF Halt, TypeOK, TargetOK, LockOK, CoverOK, Settled, Locked, Tables
<1> QED BY <1>1, <1>2, <1>3, <1>4, <1>5, <1>6, <1>7, <1>8, <1>9, <1>10, <1>11, <1>12 DEF CallerStep

-----------------------------------------------------------------------------
\* Start-up loads the enabled rows, so it establishes the invariant.
LEMMA CronInit == Init => CronInv
<1> SUFFICES ASSUME Init PROVE CronInv
    OBVIOUS
<1>1. TypeOK
    <2>1. 0 \in Instances /\ MaxOps \in Nat
        BY CronAssumption DEF Instances
    <2>2. cur \in Instances /\ live \subseteq Instances /\ ops \in Instances /\ faults \in Nat
        BY <2>1 DEF Init
    <2>3. Enabled \subseteq Jobs
        BY DEF Enabled
    <2>4. jobs \subseteq Jobs /\ entries \in [Instances -> SUBSET Jobs]
        BY <2>3 DEF Init
    <2>5. pc \in [Callers -> Phases] /\ target \in [Callers -> Jobs \cup {NoJob}] /\ old \in [Callers -> Instances]
        BY <2>1 DEF Init, Phases
    <2> QED BY <2>2, <2>4, <2>5 DEF Init, TypeOK
<1>2. LockOK /\ TargetOK
    BY CronAssumption DEF Init, LockOK, TargetOK, Locked, Reloading
<1>3. NumberOK /\ LiveOK
    BY DEF Init, NumberOK, LiveOK
<1>4. BookMatchesInstance
    BY CronAssumption DEF Init, BookMatchesInstance, Instances
<1>5. CoverOK
    BY DEF Init, CoverOK, Settled, Enabled
<1> QED BY <1>1, <1>2, <1>3, <1>4, <1>5 DEF CronInv

\* Every step keeps the invariant.
LEMMA CronStep == CronInv /\ [Next]_vars => CronInv'
<1> SUFFICES ASSUME CronInv, [Next]_vars PROVE CronInv'
    OBVIOUS
<1>1. ASSUME NEW c \in Callers, CallerStep(c) PROVE CronInv'
    BY <1>1, TypeStep, LockStep, TargetStep, NumberStep, LiveStep, BookStep, CoverStep DEF CronInv
<1>2. CASE UNCHANGED vars
    <2>1. TypeOK' /\ LockOK' /\ TargetOK' /\ NumberOK'
        BY <1>2 DEF CronInv, TypeOK, LockOK, TargetOK, NumberOK, vars, schedVars, callerVars, boundVars, historyVars
    <2>2. LiveOK' /\ BookMatchesInstance' /\ CoverOK'
        BY <1>2 DEF CronInv, LiveOK, BookMatchesInstance, CoverOK, Settled, vars, schedVars, callerVars, boundVars, historyVars
    <2> QED BY <2>1, <2>2 DEF CronInv
<1> QED BY <1>1, <1>2 DEF Next

\* The invariant holds throughout.
LEMMA CronAlways == Spec => []CronInv
    BY CronInit, CronStep, PTL DEF Spec

-----------------------------------------------------------------------------
\* Every variable keeps its type, the instance numbers within the operations
\* that were begun included.
THEOREM CronTypeCorrect == Spec => []TypeOK
<1>1. CronInv => TypeOK
    BY DEF CronInv
<1> QED BY <1>1, CronAlways, PTL

\* What s.jobs records is always what the current instance holds (AddJob,
\* RemoveJob and ReloadFromDB change both under s.mu).
THEOREM BookMatches == Spec => []BookMatchesInstance
<1>1. CronInv => BookMatchesInstance
    BY DEF CronInv
<1> QED BY <1>1, CronAlways, PTL

\* A settled job is in a running instance, during a reload too: ReloadFromDB
\* starts the new instance before it stops the old one.
THEOREM Covered == Spec => []AlwaysCovered
<1>1. CronInv => AlwaysCovered
    BY DEF CronInv, LiveOK, BookMatchesInstance, CoverOK, AlwaysCovered
<1> QED BY <1>1, CronAlways, PTL

\* At rest only the current instance runs, and after Stop none (ReloadFromDB
\* starts nothing once run is false).
THEOREM OneInstance == Spec => []OneInstanceAtRest
<1>1. CronInv => OneInstanceAtRest
    <2> SUFFICES ASSUME CronInv, mu = NoCaller, \A c \in Callers : pc[c] # "halting"
                 PROVE  live \subseteq (IF stopped THEN {} ELSE {cur})
        BY DEF OneInstanceAtRest
    <2>1. \A c \in Callers : pc[c] # "swapped"
        BY CronAssumption DEF CronInv, LockOK, Locked
    <2>2. CASE stopped
        BY <2>1, <2>2 DEF CronInv, LiveOK
    <2>3. CASE ~stopped
        BY <2>1, <2>3 DEF CronInv, LiveOK
    <2> QED BY <2>2, <2>3
<1> QED BY <1>1, CronAlways, PTL

-----------------------------------------------------------------------------
(* The settings cache.                                                     *)

\* Type correctness of one step.
LEMMA SettingsTypeStep ==
    SettingsTypeOK /\ [SettingsNext]_settingVars => SettingsTypeOK'
<1> SUFFICES ASSUME SettingsTypeOK, [SettingsNext]_settingVars PROVE SettingsTypeOK'
    OBVIOUS
<1> USE SettingsAssumption DEF SettingsAssumption, SettingsTypeOK, Contents, Ops, SettingPhases, Goto, Fault, NoFault,
        readerVars, settingBounds
<1>1. CASE UNCHANGED settingVars
    BY <1>1 DEF settingVars
<1>2. CASE Bypass
    BY <1>2 DEF Bypass
<1>3. CASE Restart
    BY <1>3 DEF Restart
<1>4. CASE Tick
    BY <1>4 DEF Tick
<1>5. ASSUME NEW c \in Callers, SettingsStep(c) PROVE SettingsTypeOK'
    <2>1. CASE Get(c)
        BY <2>1 DEF Get
    <2>2. CASE Ensure(c)
        BY <2>2 DEF Ensure
    <2>3. CASE Query(c)
        BY <2>3 DEF Query, QueryResult
    <2>4. CASE Store(c)
        <3>1. cache' \in [value : Contents, at : Nat]
            BY <2>4 DEF Store
        <3>2. got' \in [Callers -> Contents] /\ pc' \in [Callers -> SettingPhases] /\ panel' \in {"starting", "serving"}
            BY <2>4 DEF Store
        <3> QED BY <2>4, <3>1, <3>2 DEF Store
    <2>5. CASE Set(c)
        BY <2>5 DEF Set
    <2>6. CASE Upsert(c)
        BY <2>6 DEF Upsert
    <2>7. CASE Invalidate(c)
        BY <2>7 DEF Invalidate
    <2> QED BY <1>5, <2>1, <2>2, <2>3, <2>4, <2>5, <2>6, <2>7 DEF SettingsStep
<1> QED BY <1>1, <1>2, <1>3, <1>4, <1>5 DEF SettingsNext

LEMMA SettingsTypeInit ==
    SettingsInit => SettingsTypeOK
    BY SettingsAssumption DEF SettingsAssumption, SettingsInit, SettingsTypeOK, Contents, Ops, SettingPhases

\* Every variable keeps its type.
THEOREM SettingsTypeCorrect ==
    SettingsSpec => []SettingsTypeOK
    BY SettingsTypeInit, SettingsTypeStep, PTL DEF SettingsSpec

-----------------------------------------------------------------------------
\* The times kept as history never lie in the future: what the proof needs
\* to know when time passes.
PastOK ==
    /\ failedAt <= now
    /\ \A v \in Contents : current[v] <= now
    /\ current[row] = now

LEMMA PastStep ==
    SettingsTypeOK /\ PastOK /\ [SettingsNext]_settingVars => PastOK'
<1> SUFFICES ASSUME SettingsTypeOK, PastOK, [SettingsNext]_settingVars PROVE PastOK'
    OBVIOUS
<1> USE SettingsAssumption DEF SettingsAssumption, SettingsTypeOK, PastOK, Contents, Goto, readerVars, settingBounds
<1>1. CASE UNCHANGED settingVars
    BY <1>1 DEF settingVars
<1>2. CASE Bypass
    BY <1>2 DEF Bypass
<1>3. CASE Restart
    BY <1>3 DEF Restart
<1>4. CASE Tick
    BY <1>4 DEF Tick
<1>5. ASSUME NEW c \in Callers, SettingsStep(c) PROVE PastOK'
    <2>1. CASE Query(c)
        BY <2>1 DEF Query, QueryResult
    <2>2. CASE Upsert(c)
        BY <2>2 DEF Upsert
    <2>3. CASE Get(c) \/ Ensure(c) \/ Store(c) \/ Set(c) \/ Invalidate(c)
        BY <2>3 DEF Get, Ensure, Store, Set, Invalidate
    <2> QED BY <1>5, <2>1, <2>2, <2>3 DEF SettingsStep
<1> QED BY <1>1, <1>2, <1>3, <1>4, <1>5 DEF SettingsNext

LEMMA LaterIsCloser ==
    ASSUME NEW early \in Nat, NEW late \in Nat, NEW time \in Nat, NEW span \in Nat,
           time - early <= span, late >= early
    PROVE  time - late <= span
    OBVIOUS

\* A value current within a span before some past moment stays so: writing,
\* failing and passing time only move the recorded times forward.
LEMMA PastIsKept ==
    ASSUME SettingsTypeOK, PastOK, [SettingsNext]_settingVars,
           NEW v \in Contents, NEW time \in Nat, NEW span \in Nat,
           Was(v, time, span), time <= now
    PROVE  WasIn(current', failedAt', v, time, span)
<1> USE DEF SettingsTypeOK, PastOK, Contents, readerVars, settingBounds
<1>1. failedAt' >= failedAt /\ current'[v] >= current[v] /\ failedAt' \in Nat /\ current'[v] \in Nat
    <2>1. CASE UNCHANGED settingVars
        BY <2>1 DEF settingVars
    <2>2. CASE Bypass
        BY <2>2 DEF Bypass
    <2>3. CASE Restart
        BY <2>3 DEF Restart
    <2>4. CASE Tick
        BY <2>4 DEF Tick
    <2>5. ASSUME NEW c \in Callers, SettingsStep(c)
          PROVE  failedAt' >= failedAt /\ current'[v] >= current[v] /\ failedAt' \in Nat /\ current'[v] \in Nat
        <3>1. CASE Query(c)
            BY <3>1 DEF Query, QueryResult
        <3>2. CASE Upsert(c)
            BY <3>2 DEF Upsert
        <3>3. CASE Get(c) \/ Ensure(c) \/ Store(c) \/ Set(c) \/ Invalidate(c)
            BY <3>3 DEF Get, Ensure, Store, Set, Invalidate
        <3> QED BY <2>5, <3>1, <3>2, <3>3 DEF SettingsStep
    <2> QED BY <2>1, <2>2, <2>3, <2>4, <2>5 DEF SettingsNext
<1>2. current[v] \in Nat /\ failedAt \in Nat
    BY <1>1
<1> HIDE DEF SettingsTypeOK, PastOK, Contents
<1>3. CASE time - current[v] <= span
    <2>1. time - current'[v] <= span
        BY <1>1, <1>2, <1>3
    <2> QED BY <2>1 DEF WasIn
<1>4. CASE v = Empty /\ time - failedAt <= span
    <2>1. time - failedAt <= span
        BY <1>4
    <2>2. failedAt' >= failedAt /\ failedAt' \in Nat
        BY <1>1
    <2>3. time - failedAt' <= span
        BY <1>2, <2>1, <2>2, LaterIsCloser
    <2> QED BY <1>4, <2>3 DEF WasIn
<1> QED BY <1>3, <1>4 DEF Was, WasIn

\* What is cached was current at most ReadTime before it was stored.
LEMMA EntryStep ==
    SettingsTypeOK /\ PastOK /\ EntriesWereCurrent /\ [SettingsNext]_settingVars => EntriesWereCurrent'
<1> SUFFICES ASSUME SettingsTypeOK, PastOK, EntriesWereCurrent, [SettingsNext]_settingVars PROVE EntriesWereCurrent'
    OBVIOUS
<1>0. SettingsTypeOK'
    BY SettingsTypeStep
<1> USE SettingsAssumption, EntryAssumption DEF SettingsAssumption, EntryAssumption, SettingsTypeOK, Contents
<1>1. (cache' # NoEntry => cache'.at <= now' /\ WasIn(current', failedAt', cache'.value, cache'.at, ReadTime))
    <2>1. CASE cache' = cache
        <3>1. now' >= now
            <4>1. CASE Tick
                BY <4>1 DEF Tick
            <4>2. CASE now' = now
                BY <4>2
            <4> QED BY <4>1, <4>2 DEF SettingsNext, settingVars, SettingsStep, Bypass, Restart, Get, Ensure,
                       Query, Store, Set, Upsert, Invalidate
        <3> SUFFICES ASSUME cache # NoEntry
                     PROVE  cache.at <= now' /\ WasIn(current', failedAt', cache.value, cache.at, ReadTime)
            BY <2>1 DEF Was, WasIn
        <3>2. cache.value \in Contents /\ cache.at \in Nat /\ cache.at <= now
            BY DEF EntriesWereCurrent
        <3>3. Was(cache.value, cache.at, ReadTime)
            BY DEF EntriesWereCurrent
        <3>4. WasIn(current', failedAt', cache.value, cache.at, ReadTime)
            BY <2>1, <3>2, <3>3, PastIsKept DEF Was, WasIn
        <3> QED BY <1>0, <3>1, <3>2, <3>4
    <2>2. CASE cache' = NoEntry
        BY <2>2
    <2>3. ASSUME NEW c \in Callers, Store(c)
          PROVE  cache'.at <= now' /\ WasIn(current', failedAt', cache'.value, cache'.at, ReadTime)
        <3>1. cache' = [value |-> got[c], at |-> now] /\ now' = now
              /\ current' = current /\ failedAt' = failedAt
            BY <2>3 DEF Store
        <3>2. Was(got[c], readAt[c], 0) /\ readAt[c] <= now /\ now - readAt[c] <= ReadTime
            BY <2>3 DEF Store, EntriesWereCurrent
        <3> QED BY <3>1, <3>2 DEF Was, WasIn, PastOK, Contents
    <2> QED BY <2>1, <2>2, <2>3 DEF SettingsNext, settingVars, SettingsStep, Bypass, Restart, Tick, Get, Ensure,
               Query, Set, Upsert, Invalidate
<1>2. ASSUME NEW d \in Callers, pc'[d] = "storing"
      PROVE  /\ readAt'[d] <= now' /\ now' - readAt'[d] <= ReadTime
             /\ WasIn(current', failedAt', got'[d], readAt'[d], 0)
    <2>1. CASE Query(d)
        BY <2>1 DEF Query, QueryResult, NoFault, Fault, Was, WasIn, PastOK, Contents
    <2>2. CASE pc[d] = "storing" /\ got'[d] = got[d] /\ readAt'[d] = readAt[d]
        <3>1. Was(got[d], readAt[d], 0) /\ readAt[d] <= now /\ now - readAt[d] <= ReadTime
            BY <2>2 DEF EntriesWereCurrent
        <3>2. WasIn(current', failedAt', got[d], readAt[d], 0)
            BY <2>2, <3>1, PastIsKept DEF Was, WasIn
        <3>3. readAt[d] <= now' /\ now' - readAt[d] <= ReadTime
            <4>1. CASE Tick
                BY <2>2, <3>1, <4>1 DEF Tick
            <4>2. CASE now' = now
                BY <3>1, <4>2
            <4> QED BY <4>1, <4>2 DEF SettingsNext, settingVars, SettingsStep, Bypass, Restart, Get, Ensure,
                       Query, Store, Set, Upsert, Invalidate
        <3> QED BY <2>2, <3>2, <3>3
    <2>3. Query(d) \/ (pc[d] = "storing" /\ got'[d] = got[d] /\ readAt'[d] = readAt[d])
        <3>1. CASE UNCHANGED settingVars
            BY <1>2, <3>1 DEF settingVars, readerVars
        <3>2. CASE Bypass \/ Tick
            BY <1>2, <3>2 DEF Bypass, Tick, readerVars
        <3>3. CASE Restart
            BY <1>2, <3>3 DEF Restart
        <3>4. ASSUME NEW c \in Callers, SettingsStep(c)
              PROVE  Query(d) \/ (pc[d] = "storing" /\ got'[d] = got[d] /\ readAt'[d] = readAt[d])
            <4>1. CASE Query(c)
                BY <1>2, <4>1 DEF Query, QueryResult, Goto
            <4>2. CASE Store(c)
                BY <1>2, <4>2 DEF Store, Goto
            <4>3. CASE Get(c) \/ Ensure(c) \/ Set(c)
                BY <1>2, <4>3 DEF Get, Ensure, Set, Goto
            <4>4. CASE Upsert(c) \/ Invalidate(c)
                BY <1>2, <4>4 DEF Upsert, Invalidate, Goto
            <4> QED BY <3>4, <4>1, <4>2, <4>3, <4>4 DEF SettingsStep
        <3> QED BY <3>1, <3>2, <3>3, <3>4 DEF SettingsNext
    <2> QED BY <2>1, <2>2, <2>3
<1> QED BY <1>1, <1>2 DEF EntriesWereCurrent, Was

\* What is cached, and what a reader has fetched and not stored yet, was the
\* database's value, or a failed read's outcome, at most ReadTime before it was
\* stored (GetSetting).
THEOREM CachedWasCurrent ==
    SettingsSpec => []EntriesWereCurrent
<1>1. SettingsInit => PastOK /\ EntriesWereCurrent
    BY SettingsAssumption DEF SettingsAssumption, SettingsInit, PastOK, EntriesWereCurrent, Contents
<1>2. SettingsTypeOK /\ PastOK /\ EntriesWereCurrent /\ [SettingsNext]_settingVars => (PastOK /\ EntriesWereCurrent)'
    BY PastStep, EntryStep
<1> QED BY <1>1, <1>2, SettingsTypeCorrect, PTL DEF SettingsSpec

\* A served value is at most TTL + ReadTime old: the age of the entry plus the
\* age the value had when it was stored.
THEOREM ServedValueIsRecent ==
    SettingsSpec => []ServedIsRecent
<1>1. SettingsTypeOK /\ EntriesWereCurrent => ServedIsRecent
    <2> SUFFICES ASSUME SettingsTypeOK, EntriesWereCurrent, Live
                 PROVE  Was(cache.value, now, TTL + ReadTime)
        BY DEF ServedIsRecent
    <2>1. cache.value \in Contents /\ cache.at \in Nat /\ now - cache.at < TTL
        BY DEF SettingsTypeOK, Live
    <2>2. Was(cache.value, cache.at, ReadTime)
        BY DEF Live, EntriesWereCurrent
    <2> QED BY SettingsAssumption, <2>1, <2>2 DEF SettingsAssumption, Was, WasIn, SettingsTypeOK
<1> QED BY <1>1, SettingsTypeCorrect, CachedWasCurrent, PTL
=============================================================================
