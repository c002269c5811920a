------------------------ MODULE XrayAccountingProofs ------------------------
(***************************************************************************)
(* Proofs about XrayAccounting for any identities, deployments and bounds. *)
(*                                                                         *)
(* The argument: between flushes the baseline is what was settled of the   *)
(* live process (BaselineIsSettled).  A flush keeps that true because what *)
(* it diffs against is that baseline as long as the process it read has    *)
(* not been replaced (Reading, Answered), and says nothing about any other *)
(* process once it has.  What an external panel keeps in memory is what    *)
(* the settings row says, whatever failed in between (Remembered).         *)
(***************************************************************************)
EXTENDS XrayAccounting, TLAPS

\* What the runs and the theorems assume of the environment: Xray is not
\* replaced inside a query, and a runner that is up does not answer nothing.
Steady == ~RestartsOverlap /\ TRUE \notin EmptyModes

Baselines == [epoch : Epochs, totals : Counts, found : BOOLEAN]

TypeOK ==
    /\ external \in BOOLEAN /\ up \in BOOLEAN /\ epoch \in Epochs /\ count \in Counts
    /\ rows \in Counts /\ clients \subseteq Idents
    /\ stored \in Baselines
    /\ last \in Counts /\ start \in Epochs /\ loaded \in BOOLEAN /\ found \in BOOLEAN
    /\ pc \in [Flushers -> Phases]
    /\ seen \in [start : Epochs, changed : BOOLEAN, totals : Counts, from : Epochs]
    /\ faults \in Nat /\ crashes \in Nat
    /\ carried \in [Epochs -> Counts] /\ settled \in [Epochs -> Counts]

\* The counters of the process are what it carried; no process of the future
\* has carried anything.
Counted ==
    /\ carried[epoch] = count
    /\ \A e \in Epochs : e > epoch => carried[e] = Zero /\ settled[e] = Zero
    /\ up \/ external => epoch > 0

\* Everything remembered is of a process that has existed.
Past ==
    /\ start <= epoch /\ stored.epoch <= epoch
    /\ ~external => ~loaded /\ ~found
    /\ external /\ ~loaded => start = 0 /\ last = Zero /\ ~found
    /\ ~stored.found => stored.epoch = 0

\* What an external panel remembers is the stored baseline.
Remembered ==
    external /\ loaded =>
        /\ found = stored.found /\ start = stored.epoch
        /\ start = epoch => last = stored.totals

OneFlush == \A p, q \in Flushers :
    pc[p] \in {"query", "settle"} /\ pc[q] \in {"query", "settle"} => p = q

\* A flush that has read the process's start time.
Reading ==
    /\ seen.start <= epoch
    /\ up => seen.start = epoch
    /\ seen.changed <=> seen.start # start
    /\ external => loaded
    /\ up /\ ~Seeding => last = settled[epoch]

\* A flush that has read its counters; the process may be another by now.
Answered ==
    /\ seen.start <= seen.from /\ seen.from <= epoch
    /\ seen.changed <=> seen.start # start
    /\ external => loaded
    /\ \A i \in Idents :
        /\ seen.totals[i] <= carried[seen.from][i]
        /\ \/ seen.totals[i] = 0 \/ Seeding
           \/ last[i] = settled[seen.from][i] /\ last[i] <= seen.totals[i]
    /\ seen.from < epoch => settled[epoch] = Zero
    /\ up /\ seen.from = epoch =>
        /\ seen.start = epoch
        /\ ~Seeding => last = settled[epoch]
        /\ external /\ ~Seeding => \A i \in Idents : last[i] <= seen.totals[i]

Flushing ==
    \A p \in Flushers :
        /\ pc[p] = "query" => Reading
        /\ pc[p] = "settle" => Answered

\* The inductive invariant.
AccountInv ==
    /\ TypeOK /\ Counted /\ Past /\ Remembered /\ OneFlush /\ Flushing
    /\ NeverChargedTwice /\ BaselineIsSettled

-----------------------------------------------------------------------------
(* Charging.                                                               *)

LEMMA ZeroIsCounts == Zero \in Counts /\ \A i \in Idents : Zero[i] = 0
BY DEF Zero, Counts

\* What an answer charges on top of a settled baseline is what it reports.
LEMMA DeltaCovers ==
    ASSUME NEW total \in Nat, NEW base \in Nat
    PROVE  /\ Delta(total, base) \in Nat
           /\ base <= total => base + Delta(total, base) = total
           /\ total = 0 => Delta(total, base) = 0
BY DEF Delta

LEMMA ChargeTypes ==
    ASSUME TypeOK
    PROVE  Charge \in Counts /\ \A i \in Idents :
               Charge[i] = IF Seeding THEN 0 ELSE Delta(seen.totals[i], last[i])
<1>1. \A i \in Idents : Delta(seen.totals[i], last[i]) \in Nat
    BY DeltaCovers DEF TypeOK, Counts
<1> QED BY <1>1, ZeroIsCounts DEF Charge, Deltas, Counts

\* A process that was there when the panel started has been counted.
LEMMA AccountStart == Init => AccountInv
<1> SUFFICES ASSUME Init PROVE AccountInv
    OBVIOUS
<1>1. count \in Counts /\ epoch \in {0, 1} /\ epoch \in Epochs /\ 0 \in Epochs
    BY ZeroIsCounts, XrayAccountingAssumption DEF Init, Counts, Epochs
<1>2. TypeOK
    BY <1>1, ZeroIsCounts, XrayAccountingAssumption
    DEF Init, TypeOK, Baselines, NoBaseline, NothingSeen, Phases, Flushers
<1>3. Counted
    BY <1>1 DEF Init, Counted, Epochs
<1>4. Past /\ Remembered
    <2>1. start = 0 /\ stored.epoch = 0 /\ stored.found = FALSE
        BY DEF Init, NoBaseline
    <2>2. loaded = FALSE /\ found = FALSE /\ last = Zero
        BY DEF Init
    <2> QED BY <1>1, <2>1, <2>2 DEF Past, Remembered
<1>5. OneFlush /\ Flushing
    BY DEF Init, OneFlush, Flushing
<1>6. NeverChargedTwice
    <2> SUFFICES ASSUME NEW e \in Epochs, NEW i \in Idents PROVE settled[e][i] <= carried[e][i]
        BY DEF NeverChargedTwice
    <2>1. settled[e][i] = 0 /\ carried[e] \in {count, Zero}
        BY ZeroIsCounts DEF Init
    <2> QED BY <1>1, <2>1, ZeroIsCounts DEF Counts
<1>7. BaselineIsSettled
    BY <1>1, ZeroIsCounts DEF Init, BaselineIsSettled, Baseline, NoBaseline
<1> QED BY <1>2, <1>3, <1>4, <1>5, <1>6, <1>7 DEF AccountInv

-----------------------------------------------------------------------------
(* Types.                                                                  *)

LEMMA TypesStep ==
    ASSUME TypeOK, [Next]_vars
    PROVE  TypeOK'
<1> USE ZeroIsCounts, XrayAccountingAssumption DEF TypeOK
<1>a. 0 \in Epochs /\ NothingSeen \in [start : Epochs, changed : BOOLEAN, totals : Counts, from : Epochs]
    BY DEF Epochs, NothingSeen
<1>b. ASSUME NEW p \in Flushers, Return(p)
      PROVE  /\ pc' \in [Flushers -> Phases]
             /\ seen' \in [start : Epochs, changed : BOOLEAN, totals : Counts, from : Epochs]
    BY <1>a, <1>b DEF Return, Phases
<1>c. ASSUME NEW p \in Flushers, NEW ph \in Phases
      PROVE  [pc EXCEPT ![p] = ph] \in [Flushers -> Phases]
    OBVIOUS
<1>1. ASSUME NEW i \in Idents, Carry(i) PROVE TypeOK'
    <2>1. count[i] + 1 \in Nat /\ carried[epoch][i] + 1 \in Nat
        BY DEF Counts
    <2>2. count' \in Counts
        BY <1>1, <2>1 DEF Carry, Counts
    <2>3. carried' = [carried EXCEPT ![epoch] = [carried[epoch] EXCEPT ![i] = @ + 1]]
        BY <1>1, Zenon DEF Carry
    <2>4. [carried[epoch] EXCEPT ![i] = @ + 1] \in Counts
        BY <2>1 DEF Counts
    <2>5. carried' \in [Epochs -> Counts]
        BY <2>3, <2>4
    <2> QED BY <1>1, <2>2, <2>5 DEF Carry, mem, bounds
<1>2. ASSUME NEW i \in Idents, DeleteClient(i) PROVE TypeOK'
    BY <1>2 DEF DeleteClient, engine, mem, bounds, history
<1>3. CASE StartXray
    <2>1. epoch + 1 \in Epochs
        BY <1>3 DEF StartXray, Epochs
    <2> QED BY <1>3, <2>1 DEF StartXray, mem, bounds, history
<1>4. CASE Exit \/ Kill
    <2>1. pc' \in [Flushers -> Phases]
        BY <1>4, <1>c DEF Exit, Kill, Phases, Flushers
    <2> QED BY <1>4, <2>1 DEF Exit, Kill, mem, bounds, history
<1>5. CASE Crash
    <2>1. crashes' \in Nat /\ faults' \in Nat
        BY <1>5 DEF Crash
    <2>2. pc' \in [Flushers -> Phases] /\ loaded' \in BOOLEAN /\ found' \in BOOLEAN /\ up' \in BOOLEAN
        BY <1>5 DEF Crash, Phases
    <2> QED BY <1>5, <1>a, <2>1, <2>2 DEF Crash, history
<1>6. ASSUME NEW p \in Flushers, Begin(p) PROVE TypeOK'
    BY <1>6, <1>c DEF Begin, Phases, engine, mem, bounds, history
<1>7. ASSUME NEW p \in Flushers, ReadEpoch(p) PROVE TypeOK'
    <2>1. BaseEpoch \in Epochs /\ BaseTotals \in Counts
        BY DEF BaseEpoch, BaseTotals, Baselines
    <2>2. last' \in Counts /\ start' \in Epochs
        BY <1>7, <2>1 DEF ReadEpoch, Rebase
    <2>3. seen' \in [start : Epochs, changed : BOOLEAN, totals : Counts, from : Epochs]
        BY <1>7, <1>a DEF ReadEpoch
    <2>4. loaded' \in BOOLEAN /\ found' \in BOOLEAN
        BY <1>7 DEF ReadEpoch, Baselines
    <2>5. pc' \in [Flushers -> Phases]
        BY <1>7, <1>c DEF ReadEpoch, Phases
    <2> QED BY <1>7, <2>2, <2>3, <2>4, <2>5 DEF ReadEpoch, engine, bounds, history
<1>8. ASSUME NEW p \in Flushers, SkipFlush(p) \/ QueryFails(p) PROVE TypeOK'
    BY <1>8, <1>b DEF SkipFlush, QueryFails, Fault, engine, mem, history
<1>9. ASSUME NEW p \in Flushers, Query(p) \/ QueryEmpty(p) PROVE TypeOK'
    <2>1. pc' \in [Flushers -> Phases]
        BY <1>9, <1>c DEF Query, QueryEmpty, Phases
    <2>2. seen' \in [start : Epochs, changed : BOOLEAN, totals : Counts, from : Epochs]
        BY <1>9 DEF Query, QueryEmpty
    <2>3. faults' \in Nat /\ UNCHANGED <<engine, rows, clients, stored, mem, crashes, history>>
        BY <1>9 DEF Query, QueryEmpty, Fault, bounds
    <2> QED BY <2>1, <2>2, <2>3 DEF engine, mem, history
<1>10. ASSUME NEW p \in Flushers, Settle(p) PROVE TypeOK'
    <2>1. rows' \in Counts
        BY <1>10, ChargeTypes DEF Settle, CreditRows, Counts
    <2>2. settled' \in [Epochs -> Counts]
        <3> DEFINE new == [i \in Idents |-> IF Seeding THEN seen.totals[i]
                                            ELSE settled[seen.from][i] + Charge[i]]
        <3>1. new \in Counts
            BY ChargeTypes DEF Counts
        <3>2. settled' = [settled EXCEPT ![seen.from] = new]
            BY <1>10 DEF Settle, CreditRows
        <3> HIDE DEF new
        <3> QED BY <3>1, <3>2
    <2>3. last' \in Counts
        BY <1>10 DEF Settle, Advance, Counts
    <2>4. start' \in Epochs
        BY <1>10 DEF Settle, Advance
    <2>5. stored' \in Baselines /\ found' \in BOOLEAN
        BY <1>10 DEF Settle, Baselines
    <2> QED BY <1>10, <1>b, <2>1, <2>2, <2>3, <2>4, <2>5 DEF Settle, engine, bounds
<1>11. ASSUME NEW p \in Flushers, SettleFails(p) PROVE TypeOK'
    BY <1>11, <1>b DEF SettleFails, Fault, engine, history
<1>12. CASE UNCHANGED vars
    BY <1>12 DEF vars, engine, mem, bounds, history
<1> QED
    BY <1>1, <1>2, <1>3, <1>4, <1>5, <1>6, <1>7, <1>8, <1>9, <1>10, <1>11, <1>12 DEF Next, Flush

-----------------------------------------------------------------------------
(* The invariant, step by step.                                            *)

\* Steps that change nothing the invariant is about: flushes come and go
\* without having read anything, the process may die.
LEMMA NothingNew ==
    ASSUME AccountInv, TypeOK', UNCHANGED <<external, epoch, count, stored, mem, history>>,
           up' => up,
           \A p \in Flushers : pc'[p] \in {"query", "settle"} => pc'[p] = pc[p] /\ UNCHANGED seen
    PROVE  AccountInv'
<1> USE DEF mem, history
<1>1. Counted' /\ Past' /\ Remembered'
    BY DEF AccountInv, Counted, Past, Remembered
<1>2. OneFlush'
    BY DEF AccountInv, OneFlush
<1>3. NeverChargedTwice'
    BY DEF AccountInv, NeverChargedTwice
<1>4. BaselineIsSettled'
    BY DEF AccountInv, BaselineIsSettled, Baseline
<1>5. Flushing'
    BY DEF AccountInv, Flushing, Reading, Answered, Seeding
<1> QED BY <1>1, <1>2, <1>3, <1>4, <1>5 DEF AccountInv

\* A flush that ends leaves nobody inside.
LEMMA LastOut ==
    ASSUME TypeOK, OneFlush, NEW p \in Flushers, Return(p), pc[p] \in {"query", "settle"} \/ ~Locked
    PROVE  \A q \in Flushers : pc'[q] \notin {"query", "settle"}
BY DEF TypeOK, OneFlush, Return, Locked, Phases

\* Traffic.
LEMMA CarryKeeps ==
    ASSUME AccountInv, TypeOK', NEW i \in Idents, Carry(i)
    PROVE  AccountInv'
<1>1. /\ UNCHANGED <<external, up, epoch, stored, mem, pc, seen, settled>>
      /\ up /\ epoch \in Epochs
    BY DEF Carry, AccountInv, TypeOK
<1>2. /\ \A j \in Idents : count[j] <= count'[j]
      /\ \A e \in Epochs, j \in Idents : carried[e][j] <= carried'[e][j]
      /\ carried'[epoch] = count'
      /\ \A e \in Epochs \ {epoch} : carried'[e] = carried[e]
    <2>1. carried' = [carried EXCEPT ![epoch] = [carried[epoch] EXCEPT ![i] = @ + 1]]
        BY Zenon DEF Carry
    <2>2. carried'[epoch] = [carried[epoch] EXCEPT ![i] = @ + 1]
        BY <1>1, <2>1 DEF AccountInv, TypeOK
    <2>3. \A e \in Epochs \ {epoch} : carried'[e] = carried[e]
        BY <2>1 DEF AccountInv, TypeOK
    <2>4. carried'[epoch] = count'
        BY <2>2 DEF Carry, AccountInv, Counted
    <2>5. \A j \in Idents : count[j] <= count'[j]
        BY DEF Carry, AccountInv, TypeOK, Counts
    <2>6. \A j \in Idents : carried[epoch][j] <= carried'[epoch][j]
        BY <2>4, <2>5 DEF AccountInv, Counted
    <2>7. \A e \in Epochs, j \in Idents : carried[e][j] \in Nat
        BY DEF AccountInv, TypeOK, Counts
    <2> QED BY <2>3, <2>4, <2>5, <2>6, <2>7
<1>3. Counted'
    BY <1>1, <1>2 DEF AccountInv, Counted, TypeOK, Epochs
<1>4. Past' /\ Remembered' /\ OneFlush'
    BY <1>1 DEF AccountInv, Past, Remembered, OneFlush, mem
<1>5. NeverChargedTwice'
    <2> SUFFICES ASSUME NEW e \in Epochs, NEW j \in Idents PROVE settled'[e][j] <= carried'[e][j]
        BY DEF NeverChargedTwice
    <2>1. settled[e][j] <= carried[e][j] /\ carried[e][j] <= carried'[e][j]
        BY <1>2 DEF AccountInv, NeverChargedTwice
    <2>2. settled[e][j] \in Nat /\ carried[e][j] \in Nat /\ carried'[e][j] \in Nat
        BY DEF AccountInv, TypeOK, Counts
    <2> QED BY <1>1, <2>1, <2>2
<1>6. BaselineIsSettled'
    BY <1>1 DEF AccountInv, BaselineIsSettled, Baseline, mem
<1>7. Reading => Reading'
    BY <1>1 DEF Reading, Seeding, mem
<1>8. Answered => Answered'
    <2> SUFFICES ASSUME Answered PROVE Answered'
        OBVIOUS
    <2>1. seen.from \in Epochs /\ \A j \in Idents : seen.totals[j] \in Nat
        BY DEF AccountInv, TypeOK, Counts
    <2>2. \A j \in Idents : seen'.totals[j] <= carried'[seen'.from][j]
        <3> SUFFICES ASSUME NEW j \in Idents PROVE seen.totals[j] <= carried'[seen.from][j]
            BY <1>1
        <3>1. carried[seen.from][j] \in Nat /\ carried'[seen.from][j] \in Nat
            BY <2>1 DEF AccountInv, TypeOK, Counts
        <3> QED BY <1>2, <2>1, <3>1 DEF Answered
    <2> QED BY <1>1, <2>2 DEF Answered, Seeding, mem
<1>9. Flushing'
    BY <1>1, <1>7, <1>8 DEF AccountInv, Flushing
<1> QED BY <1>3, <1>4, <1>5, <1>6, <1>9 DEF AccountInv

\* A new process: nothing known is about it.
LEMMA StartKeeps ==
    ASSUME Steady, AccountInv, TypeOK', StartXray
    PROVE  AccountInv'
<1>1. /\ UNCHANGED <<external, stored, mem, pc, seen, history>>
      /\ epoch' = epoch + 1 /\ epoch \in Nat /\ epoch' \in Epochs /\ count' = Zero /\ ~up
      /\ \A p \in Flushers : pc[p] # "query"
    BY DEF StartXray, Steady, AccountInv, TypeOK, Epochs
<1>2. carried[epoch'] = Zero /\ settled[epoch'] = Zero
    BY <1>1 DEF AccountInv, Counted
<1>3. Counted'
    BY <1>1, <1>2 DEF AccountInv, Counted, history, Epochs
<1>4. Past'
    <2>1. start \in Nat /\ stored.epoch \in Nat
        BY DEF AccountInv, TypeOK, Baselines, Epochs
    <2> QED BY <1>1, <2>1 DEF AccountInv, Past, mem
<1>5. Remembered'
    BY <1>1 DEF AccountInv, Remembered, Past, TypeOK, Epochs, mem
<1>6. OneFlush' /\ NeverChargedTwice'
    BY <1>1 DEF AccountInv, OneFlush, NeverChargedTwice, history
<1>7. BaselineIsSettled'
    <2>1. start # epoch' /\ stored.epoch # epoch'
        BY <1>1 DEF AccountInv, Past, TypeOK, Baselines, Epochs
    <2>2. Baseline' = Zero
        BY <1>1, <2>1 DEF Baseline, mem
    <2> QED BY <1>1, <1>2, <2>2 DEF BaselineIsSettled, history
<1>8. Answered => Answered'
    <2> SUFFICES ASSUME Answered PROVE Answered'
        OBVIOUS
    <2>1. seen.from \in Nat /\ seen.from <= epoch' /\ seen.from # epoch'
        BY <1>1 DEF Answered, AccountInv, TypeOK, Epochs
    <2> QED BY <1>1, <1>2, <2>1 DEF Answered, Seeding, mem, history
<1>9. Flushing'
    BY <1>1, <1>8 DEF AccountInv, Flushing
<1> QED BY <1>3, <1>4, <1>5, <1>6, <1>7, <1>9 DEF AccountInv

\* The panel forgets what it remembered; a local Xray is gone with it.
LEMMA CrashKeeps ==
    ASSUME AccountInv, TypeOK', Crash
    PROVE  AccountInv'
<1>1. /\ UNCHANGED <<external, epoch, count, stored, history>>
      /\ up' = (up /\ external) /\ last' = Zero /\ start' = 0
      /\ loaded' = FALSE /\ found' = FALSE
      /\ \A p \in Flushers : pc'[p] = "idle"
    BY DEF Crash
<1>2. epoch \in Nat
    BY DEF AccountInv, TypeOK, Epochs
<1>3. Counted' /\ Past' /\ Remembered'
    <2>1. Counted'
        BY <1>1 DEF AccountInv, Counted, history
    <2>2. Past'
        BY <1>1, <1>2 DEF AccountInv, Past
    <2>3. Remembered'
        BY <1>1 DEF Remembered
    <2> QED BY <2>1, <2>2, <2>3
<1>4. OneFlush' /\ Flushing'
    BY <1>1 DEF OneFlush, Flushing
<1>5. NeverChargedTwice'
    BY <1>1 DEF AccountInv, NeverChargedTwice, history
<1>6. BaselineIsSettled'
    BY <1>1 DEF AccountInv, BaselineIsSettled, Baseline, history
<1> QED BY <1>3, <1>4, <1>5, <1>6 DEF AccountInv

\* A flush takes the mutex and its baseline: if the process it sees is the one
\* that baseline is of, the baseline is what was settled of it.
LEMMA ReadEpochKeeps ==
    ASSUME AccountInv, TypeOK', NEW p \in Flushers, ReadEpoch(p)
    PROVE  AccountInv'
<1> DEFINE now == IF up \/ external THEN epoch ELSE 0
<1>1. /\ UNCHANGED <<engine, stored, history>>
      /\ pc' = [pc EXCEPT ![p] = "query"] /\ ~Locked
      /\ loaded' = (loaded \/ external)
      /\ found' = (IF Loading THEN stored.found ELSE found)
      /\ start' = BaseEpoch
      /\ last' = (IF now # BaseEpoch THEN Zero ELSE BaseTotals)
      /\ seen'.start = now /\ seen'.changed = (now # BaseEpoch)
    BY DEF ReadEpoch, Rebase
<1>2. /\ BaseEpoch \in Epochs /\ BaseEpoch <= epoch /\ epoch \in Nat
      /\ external => BaseEpoch = stored.epoch /\ found' = stored.found
      /\ external /\ BaseEpoch = epoch => BaseTotals = stored.totals
      /\ ~external => BaseEpoch = start /\ BaseTotals = last /\ ~loaded /\ ~found
    <2>1. CASE external /\ loaded
        BY <1>1, <2>1 DEF AccountInv, Past, Remembered, TypeOK, Loading, BaseEpoch, BaseTotals,
           Epochs
    <2>2. CASE external /\ ~loaded
        <3>1. Loading /\ start = 0 /\ epoch > 0 /\ (~stored.found => stored.epoch = 0)
            BY <2>2 DEF Loading, AccountInv, Past, Counted
        <3> QED BY <1>1, <2>2, <3>1
                DEF AccountInv, Past, TypeOK, Baselines, BaseEpoch, BaseTotals, Epochs
    <2>3. CASE ~external
        BY <2>3 DEF AccountInv, Past, TypeOK, Loading, BaseEpoch, BaseTotals, Epochs
    <2> QED BY <2>1, <2>2, <2>3
<1>3. Counted' /\ NeverChargedTwice'
    BY <1>1 DEF AccountInv, Counted, NeverChargedTwice, engine, history
<1>4. Past'
    <2>1. CASE external
        BY <1>1, <1>2, <2>1 DEF AccountInv, Past, engine
    <2>2. CASE ~external
        BY <1>1, <1>2, <2>2 DEF AccountInv, Past, engine, Loading
    <2> QED BY <2>1, <2>2
<1>5. Remembered'
    BY <1>1, <1>2 DEF Remembered, engine
<1>6. OneFlush'
    BY <1>1 DEF OneFlush, Locked, AccountInv, TypeOK
<1>7. up => \A i \in Idents : (IF BaseEpoch = epoch THEN BaseTotals ELSE Zero)[i] = settled[epoch][i]
    BY <1>2 DEF AccountInv, BaselineIsSettled, Baseline
<1>8. BaselineIsSettled'
    <2> SUFFICES ASSUME up PROVE \A i \in Idents : Baseline'[i] = settled'[epoch'][i]
        BY <1>1 DEF BaselineIsSettled, engine
    <2>1. CASE external
        BY <1>1, <2>1 DEF AccountInv, BaselineIsSettled, Baseline, engine, history
    <2>2. CASE ~external
        BY <1>1, <1>2, <1>7, <2>2 DEF Baseline, engine, history
    <2> QED BY <2>1, <2>2
<1>9. Reading'
    <2>1. up => last' = settled[epoch]
        <3> SUFFICES ASSUME up PROVE last' = settled[epoch]
            OBVIOUS
        <3>1. last' = IF BaseEpoch = epoch THEN BaseTotals ELSE Zero
            BY <1>1
        <3>2. \A i \in Idents : last'[i] = settled[epoch][i]
            BY <1>7, <3>1
        <3>3. last' \in Counts /\ settled[epoch] \in Counts
            BY DEF AccountInv, TypeOK
        <3> QED BY <3>2, <3>3 DEF Counts
    <2>2. seen'.start <= epoch' /\ (up' => seen'.start = epoch')
        BY <1>1, <1>2 DEF engine
    <2>3. seen'.changed <=> seen'.start # start'
        <3>1. seen'.changed = (seen'.start # start')
            BY <1>1, Zenon
        <3> QED BY <3>1
    <2>5. external' => loaded'
        BY <1>1 DEF engine
    <2>4. up' /\ ~Seeding' => last' = settled'[epoch']
        BY <1>1, <2>1 DEF engine, history
    <2> QED BY <2>2, <2>3, <2>4, <2>5 DEF Reading
<1>10. Flushing'
    BY <1>1, <1>9 DEF Flushing, Locked, AccountInv, TypeOK
<1> QED BY <1>3, <1>4, <1>5, <1>6, <1>8, <1>10 DEF AccountInv

\* The counters are read, or nobody answers because there is no process.
LEMMA QueryKeeps ==
    ASSUME Steady, AccountInv, TypeOK', NEW p \in Flushers, Query(p) \/ QueryEmpty(p)
    PROVE  AccountInv'
<1>1. /\ UNCHANGED <<engine, stored, mem, history>>
      /\ pc[p] = "query" /\ pc' = [pc EXCEPT ![p] = "settle"]
      /\ seen'.start = seen.start /\ seen'.changed = seen.changed /\ seen'.from = epoch
      /\ \/ up /\ seen'.totals = count
         \/ seen'.totals = Zero /\ (up => ~external)
    BY DEF Query, QueryEmpty, Steady, AccountInv, TypeOK
<1>2. Counted' /\ Past' /\ Remembered' /\ NeverChargedTwice'
    BY <1>1 DEF AccountInv, Counted, Past, Remembered, NeverChargedTwice, engine, mem, history
<1>3. BaselineIsSettled'
    BY <1>1 DEF AccountInv, BaselineIsSettled, Baseline, engine, mem, history
<1>4. OneFlush' /\ \A q \in Flushers \ {p} : pc'[q] \notin {"query", "settle"}
    BY <1>1 DEF AccountInv, OneFlush, TypeOK
<1>5. Reading
    BY <1>1 DEF AccountInv, Flushing
<1>6. Answered'
    <2>1. epoch \in Nat /\ \A i \in Idents : /\ settled[epoch][i] \in Nat /\ count[i] \in Nat
                                            /\ settled[epoch][i] <= carried[epoch][i]
                                            /\ carried[epoch][i] = count[i] /\ Zero[i] = 0
        <3>1. epoch \in Epochs /\ settled[epoch] \in Counts /\ count \in Counts
            BY DEF AccountInv, TypeOK
        <3>2. carried[epoch] = count
            BY DEF AccountInv, Counted
        <3>3. \A i \in Idents : settled[epoch][i] <= carried[epoch][i]
            BY <3>1 DEF AccountInv, NeverChargedTwice
        <3> QED BY <3>1, <3>2, <3>3, ZeroIsCounts DEF Counts, Epochs
    <2>2. /\ seen'.start <= seen'.from /\ seen'.from <= epoch'
          /\ seen'.changed <=> seen'.start # start'
          /\ external' => loaded'
        BY <1>1, <1>5, <2>1 DEF Reading, engine, mem
    <2>3. \A i \in Idents :
             /\ seen'.totals[i] <= carried'[seen'.from][i]
             /\ \/ seen'.totals[i] = 0 \/ Seeding'
                \/ last'[i] = settled'[seen'.from][i] /\ last'[i] <= seen'.totals[i]
        BY <1>1, <1>5, <2>1 DEF Reading, Seeding, engine, mem, history
    <2>4. up' =>
            /\ seen'.start = epoch'
            /\ ~Seeding' => last' = settled'[epoch']
            /\ external' /\ ~Seeding' => \A i \in Idents : last'[i] <= seen'.totals[i]
        BY <1>1, <1>5, <2>1 DEF Reading, Seeding, engine, mem, history
    <2> QED BY <1>1, <2>1, <2>2, <2>3, <2>4 DEF Answered, engine
<1>7. Flushing'
    BY <1>4, <1>6, <1>1 DEF Flushing, AccountInv, TypeOK
<1> QED BY <1>2, <1>3, <1>4, <1>7 DEF AccountInv

\* The transaction: what is charged and the baseline it leaves add up to what
\* was settled before, if the process is still the one that answered; if it is
\* not, what is charged is bounded by what that process carried all the same.
LEMMA SettleKeeps ==
    ASSUME AccountInv, TypeOK', NEW p \in Flushers, Settle(p)
    PROVE  AccountInv'
<1>1. /\ UNCHANGED <<engine, loaded, carried>>
      /\ pc[p] = "settle" /\ Return(p)
      /\ last' = [i \in Idents |->
                    IF external \/ seen.totals[i] > 0 THEN seen.totals[i] ELSE last[i]]
      /\ start' = (IF external \/ seen.changed THEN seen.start ELSE start)
      /\ stored' = (IF external
                    THEN [epoch |-> seen.start, totals |-> seen.totals, found |-> TRUE]
                    ELSE stored)
      /\ found' = (found \/ external)
    BY DEF Settle, Advance
<1>2. Answered
    BY <1>1 DEF AccountInv, Flushing
<1>3. /\ start' = seen.start /\ (external => loaded)
      /\ seen.start <= epoch /\ seen.start \in Epochs /\ seen.from \in Epochs
      /\ epoch \in Nat /\ seen.start \in Nat /\ seen.from \in Nat /\ epoch \in Epochs
    BY <1>1, <1>2 DEF Answered, AccountInv, TypeOK, Epochs
<1>4. /\ \A e \in Epochs \ {seen.from} : settled'[e] = settled[e]
      /\ \A i \in Idents : settled'[seen.from][i] =
            (IF Seeding THEN seen.totals[i]
             ELSE settled[seen.from][i] + Delta(seen.totals[i], last[i]))
    <2> DEFINE new == [i \in Idents |-> IF Seeding THEN seen.totals[i]
                                        ELSE settled[seen.from][i] + Charge[i]]
    <2>1. settled' = [settled EXCEPT ![seen.from] = new]
        BY DEF Settle, CreditRows
    <2>2. settled'[seen.from] = new /\ \A e \in Epochs \ {seen.from} : settled'[e] = settled[e]
        <3> HIDE DEF new
        <3> QED BY <1>3, <2>1 DEF AccountInv, TypeOK
    <2>3. \A i \in Idents : new[i] = (IF Seeding THEN seen.totals[i]
             ELSE settled[seen.from][i] + Delta(seen.totals[i], last[i]))
        BY ChargeTypes DEF AccountInv
    <2> QED BY <2>2, <2>3
<1>5. \A i \in Idents : /\ seen.totals[i] \in Nat /\ last[i] \in Nat
                        /\ \A e \in Epochs : settled[e][i] \in Nat /\ carried[e][i] \in Nat
    BY DEF AccountInv, TypeOK, Counts
<1>6. Counted'
    BY <1>1, <1>3, <1>4, <1>2 DEF AccountInv, Counted, Answered, engine, Epochs
<1>7. Past' /\ Remembered'
    <2>1. CASE external
        <3>1. external' = TRUE /\ loaded' = TRUE /\ found' = TRUE /\ epoch' = epoch
            BY <1>1, <1>3, <2>1 DEF engine, AccountInv, TypeOK
        <3>2. stored' = [epoch |-> seen.start, totals |-> seen.totals, found |-> TRUE]
            BY <1>1, <2>1
        <3>3. stored'.epoch = seen.start /\ stored'.totals = seen.totals /\ stored'.found = TRUE
            BY <3>2
        <3>4. last' = seen.totals
            <4>1. seen.totals \in Counts
                BY DEF AccountInv, TypeOK
            <4>2. last' = [i \in Idents |-> seen.totals[i]]
                BY <1>1, <2>1
            <4> QED BY <4>1, <4>2 DEF Counts
        <3>5. Past'
            BY <1>3, <3>1, <3>3 DEF Past
        <3>6. Remembered'
            BY <1>3, <3>1, <3>3, <3>4 DEF Remembered
        <3> QED BY <3>5, <3>6
    <2>2. CASE ~external
        <3>1. stored' = stored /\ external' = external /\ loaded' = loaded /\ epoch' = epoch
            BY <1>1, <2>2 DEF engine
        <3>2. ~found'
            BY <1>1, <2>2 DEF AccountInv, Past
        <3> QED BY <1>3, <2>2, <3>1, <3>2 DEF AccountInv, Past, Remembered
    <2> QED BY <2>1, <2>2
<1>8. OneFlush' /\ Flushing'
    BY <1>1, LastOut DEF AccountInv, OneFlush, Flushing
<1>9. NeverChargedTwice'
    <2> SUFFICES ASSUME NEW e \in Epochs, NEW i \in Idents PROVE settled'[e][i] <= carried[e][i]
        BY <1>1 DEF NeverChargedTwice
    <2>1. settled[e][i] <= carried[e][i]
        BY DEF AccountInv, NeverChargedTwice
    <2>2. CASE e # seen.from
        BY <1>4, <2>1, <2>2
    <2>3. CASE e = seen.from
        <3>1. seen.totals[i] <= carried[e][i]
            BY <1>2, <2>3 DEF Answered
        <3>2. \/ seen.totals[i] = 0 \/ Seeding
              \/ last[i] = settled[e][i] /\ last[i] <= seen.totals[i]
            BY <1>2, <2>3 DEF Answered
        <3>3. /\ last[i] <= seen.totals[i] => last[i] + Delta(seen.totals[i], last[i]) = seen.totals[i]
              /\ seen.totals[i] = 0 => Delta(seen.totals[i], last[i]) = 0
            BY <1>5, DeltaCovers
        <3> QED BY <1>4, <1>5, <2>1, <2>3, <3>1, <3>2, <3>3
    <2> QED BY <2>2, <2>3
<1>10. BaselineIsSettled'
    <2> SUFFICES ASSUME up, NEW i \in Idents PROVE Baseline'[i] = settled'[epoch][i]
        BY <1>1 DEF BaselineIsSettled, engine
    <2>1. CASE seen.from = epoch
        <3>1. seen.start = epoch /\ (~Seeding => last[i] = settled[epoch][i])
            BY <1>2, <2>1 DEF Answered
        <3>2. Baseline'[i] = last'[i] /\ (external => Baseline'[i] = seen.totals[i])
            BY <1>1, <1>3, <3>1 DEF Baseline, engine
        <3>3. CASE Seeding
            BY <1>4, <2>1, <3>2, <3>3 DEF Seeding
        <3>4. CASE ~Seeding
            <4>1. \/ last[i] <= seen.totals[i]
                  \/ seen.totals[i] = 0 /\ ~external
                BY <1>2, <2>1, <3>4 DEF Answered
            <4>2. /\ last[i] <= seen.totals[i] => last[i] + Delta(seen.totals[i], last[i]) = seen.totals[i]
                  /\ seen.totals[i] = 0 => Delta(seen.totals[i], last[i]) = 0
                BY <1>5, DeltaCovers
            <4>3. last'[i] = IF external \/ seen.totals[i] > 0 THEN seen.totals[i] ELSE last[i]
                BY <1>1
            <4> QED BY <1>3, <1>4, <1>5, <2>1, <3>1, <3>2, <3>4, <4>1, <4>2, <4>3
        <3> QED BY <3>3, <3>4
    <2>2. CASE seen.from # epoch
        <3>1. settled[epoch] = Zero /\ seen.start # epoch
            BY <1>2, <1>3, <2>2 DEF Answered
        <3>2. Baseline'[i] = 0
            BY <1>1, <1>3, <3>1, ZeroIsCounts DEF Baseline, engine
        <3>3. settled'[epoch][i] = 0
            BY <1>3, <1>4, <2>2, <3>1, ZeroIsCounts
        <3> QED BY <3>2, <3>3
    <2> QED BY <2>1, <2>2
<1> QED BY <1>6, <1>7, <1>8, <1>9, <1>10 DEF AccountInv

\* A failed transaction leaves the baseline where it was, and that of another
\* process at nothing.
LEMMA SettleFailsKeeps ==
    ASSUME AccountInv, TypeOK', NEW p \in Flushers, SettleFails(p)
    PROVE  AccountInv'
<1>1. /\ UNCHANGED <<engine, stored, last, loaded, found, history>>
      /\ pc[p] = "settle" /\ Return(p)
      /\ start' = (IF ~external /\ seen.changed THEN seen.start ELSE start)
    BY DEF SettleFails
<1>2. Answered
    BY <1>1 DEF AccountInv, Flushing
<1>3. seen.start \in Nat /\ seen.from \in Nat /\ epoch \in Nat /\ seen.start <= epoch
    BY <1>2 DEF Answered, AccountInv, TypeOK, Epochs
<1>4. Counted' /\ NeverChargedTwice'
    BY <1>1 DEF AccountInv, Counted, NeverChargedTwice, engine, history
<1>5. Past' /\ Remembered'
    BY <1>1, <1>3 DEF AccountInv, Past, Remembered, engine
<1>6. OneFlush' /\ Flushing'
    BY <1>1, LastOut DEF AccountInv, OneFlush, Flushing
<1>7. BaselineIsSettled'
    <2> SUFFICES ASSUME up PROVE \A i \in Idents : Baseline'[i] = settled[epoch][i]
        BY <1>1 DEF BaselineIsSettled, engine, history
    <2>1. CASE external \/ start' = start
        BY <1>1, <2>1 DEF AccountInv, BaselineIsSettled, Baseline, engine
    <2>2. CASE ~external /\ start' = seen.start
        <3>1. CASE seen.from = epoch
            BY <1>1, <1>2, <2>2, <3>1 DEF Answered, Seeding, Baseline, engine
        <3>2. CASE seen.from # epoch
            BY <1>1, <1>2, <1>3, <2>2, <3>2, ZeroIsCounts DEF Answered, Baseline, engine
        <3> QED BY <3>1, <3>2
    <2> QED BY <1>1, <2>1, <2>2
<1> QED BY <1>4, <1>5, <1>6, <1>7 DEF AccountInv

LEMMA AccountStep ==
    ASSUME Steady, AccountInv, [Next]_vars
    PROVE  AccountInv'
<1>0. TypeOK'
    BY TypesStep DEF AccountInv
<1>1. ASSUME NEW i \in Idents, DeleteClient(i) PROVE AccountInv'
    BY <1>0, <1>1, NothingNew DEF DeleteClient, engine
<1>2. CASE Exit
    BY <1>0, <1>2, NothingNew DEF Exit
<1>3. CASE Kill
    BY <1>0, <1>3, NothingNew DEF Kill, AccountInv, TypeOK
<1>4. ASSUME NEW p \in Flushers, Begin(p) PROVE AccountInv'
    BY <1>0, <1>4, NothingNew DEF Begin, AccountInv, TypeOK, engine
<1>5. ASSUME NEW p \in Flushers, SkipFlush(p) \/ QueryFails(p) PROVE AccountInv'
    <2>1. \A q \in Flushers : pc'[q] \notin {"query", "settle"}
        BY <1>5, LastOut DEF SkipFlush, QueryFails, AccountInv
    <2> QED BY <1>0, <1>5, <2>1, NothingNew DEF SkipFlush, QueryFails, engine
<1>6. CASE UNCHANGED vars
    BY <1>0, <1>6, NothingNew DEF vars, engine
<1> QED
    BY <1>0, <1>1, <1>2, <1>3, <1>4, <1>5, <1>6, CarryKeeps, StartKeeps, CrashKeeps,
       ReadEpochKeeps, QueryKeeps, SettleKeeps, SettleFailsKeeps DEF Next, Flush

LEMMA AccountAlways == ASSUME Steady PROVE Spec => []AccountInv
BY AccountStart, AccountStep, PTL DEF Spec

\* Whatever the flushes, stops, exits, failed transactions and panel crashes,
\* no more is charged of a process than it carried (flushXray, xrayDeltas).
THEOREM NothingIsChargedTwice == ASSUME Steady PROVE Spec => []NeverChargedTwice
<1>1. AccountInv => NeverChargedTwice
    BY DEF AccountInv
<1> QED BY <1>1, AccountAlways, PTL

\* The next flush charges exactly what has not been settled yet of the process
\* that runs: no failed query or transaction forgets a byte.
THEOREM NothingIsForgotten == ASSUME Steady PROVE Spec => []BaselineIsSettled
<1>1. AccountInv => BaselineIsSettled
    BY DEF AccountInv
<1> QED BY <1>1, AccountAlways, PTL
=============================================================================
