--------------------------- MODULE XrayAccounting ---------------------------
(***************************************************************************)
(* Per-client Xray traffic accounting (service/traffic/accountant.go):     *)
(* Xray counts bytes per identity for as long as a process lives; the      *)
(* accountant reads the cumulative counters, charges the growth since its  *)
(* baseline to the client rows, and advances the baseline.                 *)
(*                                                                         *)
(* Two goroutines flush: the 30 s loop, and whoever stops Xray, through    *)
(* the hook that runs before the kill.  xrayMu serialises them.  With a    *)
(* local Xray the baseline is in the panel's memory and dies with it, as   *)
(* Xray does; with an external runner it is a row of the settings table,   *)
(* written in the transaction that charges the clients.                    *)
(*                                                                         *)
(* Up and download bytes are treated alike and counted as one.             *)
(***************************************************************************)
EXTENDS Integers

CONSTANTS
    Idents,          \* stats identities, one per client row
    Modes,           \* deployments: TRUE for an external runner, FALSE for a local Xray
    MaxBytes,        \* bound on the bytes of an identity
    MaxEpochs,       \* bound on Xray processes
    MaxFaults,       \* bound on failing queries and transactions
    EmptyModes,      \* modes where statsquery may fail with no output though Xray is up
    MaxCrashes,      \* bound on panel crashes
    RestartsOverlap  \* Xray may be replaced between a flush's two reads of it

ASSUME XrayAccountingAssumption ==
    /\ Modes \subseteq BOOLEAN /\ EmptyModes \subseteq BOOLEAN /\ RestartsOverlap \in BOOLEAN
    /\ {MaxBytes, MaxFaults, MaxCrashes} \subseteq Nat /\ MaxEpochs \in Nat \ {0}

Flushers == {"loop", "stop"}
Epochs == 0 .. MaxEpochs       \* 0 is no process: xrayStart before the first flush
Counts == [Idents -> Nat]
Zero == [i \in Idents |-> 0]
NoBaseline == [epoch |-> 0, totals |-> Zero, found |-> FALSE]

VARIABLES
    external,           \* Xray runs in a container of its own
    up, epoch, count,   \* the Xray process: alive, its start time, its counters
    rows, clients,      \* up_load + down_load of each client; which rows exist
    stored,             \* the settings row traffic_xray_baseline_v1
    last, start,        \* a.xrayLast, a.xrayStart
    loaded, found,      \* a.xrayBaselineLoaded, a.xrayBaselineFound
    pc,
    seen,               \* the local variables start, changedEpoch, totals of the flush
    faults, crashes,
    \* history, read by properties only
    carried,            \* carried[e][i]: bytes process e carried for i
    settled             \* settled[e][i]: of those, the bytes a baseline has covered

engine == <<external, up, epoch, count>>
mem == <<last, start, loaded, found>>
bounds == <<faults, crashes>>
history == <<carried, settled>>
vars == <<engine, rows, clients, stored, mem, pc, seen, bounds, history>>

-----------------------------------------------------------------------------
NothingSeen == [start |-> 0, changed |-> FALSE, totals |-> Zero, from |-> 0]

(* An operator whose name extends that of the next one is the same code    *)
(* with a plausible bug in it.                                             *)

DeltaSinceZero(total, base) == total
\* A counter below its baseline was reset: all of it is new.
Delta(total, base) == IF total >= base THEN total - base ELSE total

\* xrayDeltas, with no entry for an identity being 0.
Deltas(totals, base) == [i \in Idents |-> Delta(totals[i], base[i])]

Init ==
    /\ external \in Modes
    /\ IF external THEN up = TRUE /\ epoch = 1 /\ count \in [Idents -> 0 .. 1]
                   ELSE up = FALSE /\ epoch = 0 /\ count = Zero
    /\ rows = Zero /\ clients = Idents
    /\ stored = NoBaseline
    /\ last = Zero /\ start = 0
    /\ loaded = FALSE /\ found = FALSE
    /\ pc = [p \in Flushers |-> "idle"]
    /\ seen = NothingSeen
    /\ faults = 0 /\ crashes = 0
    /\ carried = [e \in Epochs |-> IF e = epoch THEN count ELSE Zero]
    /\ settled = [e \in Epochs |-> Zero]

Fault == faults < MaxFaults /\ faults' = faults + 1
Locked == \E p \in Flushers : pc[p] \in {"query", "settle"}   \* xrayMu is held

\* The flush returns: the loop goes back to its ticker, Stop goes on to the kill.
ReturnEndingLoop(p) == pc' = [pc EXCEPT ![p] = "kill"] /\ seen' = NothingSeen
Return(p) ==
    /\ pc' = [pc EXCEPT ![p] = IF p = "loop" THEN "idle" ELSE "kill"]
    /\ seen' = NothingSeen

-----------------------------------------------------------------------------
(* Xray.                                                                   *)

Carry(i) ==
    /\ up /\ count[i] < MaxBytes
    /\ count' = [count EXCEPT ![i] = @ + 1]
    /\ carried' = [carried EXCEPT ![epoch][i] = @ + 1]
    /\ UNCHANGED <<external, up, epoch, rows, clients, stored, mem, pc, seen, bounds, settled>>

\* A new process with zeroed counters, started by the panel or by the runner.
StartXray ==
    /\ ~up /\ epoch < MaxEpochs
    /\ RestartsOverlap \/ \A p \in Flushers : pc[p] # "query"
    /\ pc["stop"] = "idle"
    /\ up' = TRUE /\ epoch' = epoch + 1 /\ count' = Zero
    /\ UNCHANGED <<external, rows, clients, stored, mem, pc, seen, bounds, history>>

\* Xray exits by itself, or the runner is restarted under the panel.
Exit ==
    /\ up /\ up' = FALSE
    /\ UNCHANGED <<external, epoch, count, rows, clients, stored, mem, pc, seen, bounds, history>>

-----------------------------------------------------------------------------
(* The flush.                                                              *)

\* The ticker fired, or Stop was called; both look at Status first.  An
\* external Xray is never stopped through the manager.
Begin(p) ==
    /\ pc[p] = "idle" /\ up
    /\ p = "stop" => ~external
    /\ pc' = [pc EXCEPT ![p] = "wait"]
    /\ UNCHANGED <<engine, rows, clients, stored, mem, seen, bounds, history>>

\* What a flush that got xrayMu starts from: the baseline in memory, or the
\* stored one when the panel has not read it yet.
Loading == external /\ ~loaded
BaseEpoch == IF Loading /\ stored.found THEN stored.epoch ELSE start
BaseTotals == IF Loading /\ stored.found THEN stored.totals ELSE last

\* The baseline of another process says nothing about this one's counters.
KeepOldBaseline(changed) == BaseTotals
Rebase(changed) == IF changed THEN Zero ELSE BaseTotals

ReadEpoch(p) ==
    /\ pc[p] = "wait" /\ ~Locked
    /\ LET now == IF up \/ external THEN epoch ELSE 0  \* a stopped runner keeps its StartedAt
           changed == now # BaseEpoch
       IN /\ seen' = [start |-> now, changed |-> changed, totals |-> Zero, from |-> 0]
          /\ last' = Rebase(changed)
          /\ start' = BaseEpoch
    /\ loaded' = (loaded \/ external)
    /\ found' = IF Loading THEN stored.found ELSE found
    /\ pc' = [pc EXCEPT ![p] = "query"]
    /\ UNCHANGED <<engine, rows, clients, stored, bounds, history>>

\* The runner's start time or the stored baseline cannot be read.
SkipFlush(p) ==
    /\ pc[p] = "wait" /\ ~Locked
    /\ external
    /\ Fault
    /\ Return(p)
    /\ UNCHANGED <<engine, rows, clients, stored, mem, crashes, history>>

Query(p) ==
    /\ pc[p] = "query" /\ up
    /\ seen' = [seen EXCEPT !.totals = count, !.from = epoch]
    /\ pc' = [pc EXCEPT ![p] = "settle"]
    /\ UNCHANGED <<engine, rows, clients, stored, mem, bounds, history>>

\* statsquery exits non-zero and prints nothing: taken for "no data yet".
\* So does a refused connection.
QueryEmpty(p) ==
    /\ pc[p] = "query"
    /\ IF up THEN external \in EmptyModes /\ Fault ELSE UNCHANGED faults
    /\ seen' = [seen EXCEPT !.totals = Zero, !.from = epoch]
    /\ pc' = [pc EXCEPT ![p] = "settle"]
    /\ UNCHANGED <<engine, rows, clients, stored, mem, crashes, history>>

QueryFails(p) ==
    /\ pc[p] = "query"
    /\ Fault
    /\ Return(p)
    /\ UNCHANGED <<engine, rows, clients, stored, mem, crashes, history>>

Seeding == external /\ ~found
Charge == IF Seeding THEN Zero ELSE Deltas(seen.totals, last)

\* The transaction of applyDeltasWithPersist; an identity without a row is dropped.
CreditRows ==
    /\ rows' = [i \in Idents |-> IF i \in clients THEN rows[i] + Charge[i] ELSE rows[i]]
    /\ settled' = [settled EXCEPT ![seen.from] =
                     [i \in Idents |-> IF Seeding THEN seen.totals[i] ELSE @[i] + Charge[i]]]

\* With a local Xray an identity that was not reported keeps its baseline.
Advance ==
    /\ last' = [i \in Idents |->
                  IF external \/ seen.totals[i] > 0 THEN seen.totals[i] ELSE last[i]]
    /\ start' = IF external \/ seen.changed THEN seen.start ELSE start

Settle(p) ==
    /\ pc[p] = "settle"
    /\ CreditRows
    /\ Advance
    /\ stored' = IF external
                 THEN [epoch |-> seen.start, totals |-> seen.totals, found |-> TRUE]
                 ELSE stored
    /\ found' = (found \/ external)
    /\ Return(p)
    /\ UNCHANGED <<engine, clients, loaded, bounds, carried>>

\* The transaction fails: nothing is charged and no counter baseline advances.
SettleFails(p) ==
    /\ pc[p] = "settle"
    /\ Fault
    /\ start' = IF ~external /\ seen.changed THEN seen.start ELSE start
    /\ Return(p)
    /\ UNCHANGED <<engine, rows, clients, stored, last, loaded, found, crashes,
                   history>>

\* After its flush Stop kills the process it looked up.
Kill ==
    /\ pc["stop"] = "kill"
    /\ up' = FALSE
    /\ pc' = [pc EXCEPT !["stop"] = "idle"]
    /\ UNCHANGED <<external, epoch, count, rows, clients, stored, mem, seen, bounds, history>>

-----------------------------------------------------------------------------
(* The panel and its operators.                                            *)

\* The panel dies and is started again; a local Xray dies with it.
Crash ==
    /\ crashes < MaxCrashes /\ crashes' = crashes + 1
    /\ up' = (up /\ external)
    /\ last' = Zero /\ start' = 0
    /\ loaded' = FALSE /\ found' = FALSE
    /\ pc' = [p \in Flushers |-> "idle"]
    /\ seen' = NothingSeen
    /\ UNCHANGED <<external, epoch, count, rows, clients, stored, faults, history>>

DeleteClient(i) ==
    /\ i \in clients
    /\ clients' = clients \ {i}
    /\ UNCHANGED <<engine, rows, stored, mem, pc, seen, bounds, history>>

Flush(p) ==
    \/ ReadEpoch(p) \/ SkipFlush(p)
    \/ Query(p) \/ QueryEmpty(p) \/ QueryFails(p)
    \/ Settle(p) \/ SettleFails(p)

Next ==
    \/ \E i \in Idents : Carry(i) \/ DeleteClient(i)
    \/ \E p \in Flushers : Begin(p) \/ Flush(p)
    \/ StartXray \/ Exit \/ Kill \/ Crash

Spec == Init /\ [][Next]_vars

\* The ticker keeps ticking and a flush runs to its end; a Query of a live
\* Xray answers unless a fault is due.
FairSpec ==
    /\ Spec
    /\ WF_vars(Begin("loop")) /\ WF_vars(Kill)
    /\ \A p \in Flushers : WF_vars(Flush(p))

-----------------------------------------------------------------------------
Phases == {"idle", "wait", "query", "settle", "kill"}

\* No byte is charged twice: over any interleaving of flushes, stops, exits,
\* failing transactions and panel crashes, what was charged of a process is at
\* most what it carried (xrayDeltas and the epoch check of flushXray).
NeverChargedTwice ==
    \A e \in Epochs, i \in Idents : settled[e][i] <= carried[e][i]

\* The baseline that the next flush will diff against: of the process that
\* runs, if it is known, else nothing.
Baseline ==
    IF external
    THEN IF stored.epoch = epoch THEN stored.totals ELSE Zero
    ELSE IF start = epoch THEN last ELSE Zero

\* No byte is forgotten while its process lives: the baseline covers exactly
\* the bytes that were settled, so the next flush charges all the others
\* (flushXray retries what a failed query or transaction left behind).
BaselineIsSettled ==
    up => \A i \in Idents : Baseline[i] = settled[epoch][i]

\* Whatever fails on the way, the traffic of a client ends up charged, unless
\* Xray stops for good first (Start, loop, the retry of flushXray).
TrafficIsCharged ==
    <>[](~up \/ \A i \in Idents : settled[epoch][i] = carried[epoch][i])

=============================================================================
