# A verification project for ZenithPanel

ZenithPanel is a Go server that administers one Linux host as a proxy server.
It configures and supervises two proxy engines (Xray and sing-box), serves web
sites, obtains certificates, runs jobs, counts traffic, deploys presets and
updates itself. One process does all of it, over one SQLite database, with an
HTTP handler, ticker or supervisor goroutine behind every operation.

Most of its code reads rows and renders JSON. This project is about the rest:
the places where a handler holds some state across several steps that can fail,
be cancelled or be overtaken. It consists of TLA+ modules translated from
the Go source, TLC configurations that check them on small instances, and
TLAPS proofs for instances of every size.

Paths below are relative to `src/`; `internal/` abbreviates
`backend/internal/`. `PROJECT.json` gives, for every definition of a module,
the lines it stands for.

- [Inventory](#inventory)
- [Modules](#modules)
- [Runs](#runs)
- [Proofs](#proofs)
- [Where the code and its own words disagree](#where-the-code-and-its-own-words-disagree)
- [What is not modelled](#what-is-not-modelled)
- [Plan](#plan)

## Inventory

| Component | State | Operations | What is hard | What makes it correct |
|---|---|---|---|---|
| **Proxy runtime coordinator**, `internal/service/proxy/runtime.go`, `core.go`, `xray.go`, `singbox.go`, `internal/api/proxy_routes.go` | a gate (channel of capacity one), the status shown to the administrator, the mode in the settings; per engine a file, a process and `dualMode` | `ApplyRuntime`, its rollback, start at boot, process supervision | failures in any of a dozen steps; engines that exit by themselves; ports that move between engines; requests cancelled while they wait or work; edits of the table meanwhile | an apply succeeds and serves the table, or leaves what was there; one at a time; every call returns |
| **External runner**, `runtime.go`, `external_runtime.go`, `scripts/proxy-runner.sh` | in a shared volume: a configuration and a marker per engine, the revision applied; in the database: mode and revision | transition, restart, verify, restore; readiness for the updater | two containers that share only files; Docker restarts one of them whenever an engine exits, in the middle of a write too | what the readiness check accepts is what runs and would run again; a failed apply leaves the files |
| **Updater**, `internal/service/updater` | panel containers, the helper container, the status file, the registry's tag | update, restart, the helper's swap | no lock; the panel replaces itself; three processes write one file; a tag that moves | there is always a container to return to; only verified images run; the status is true; the runner goes on |
| **Inbounds, clients, routing**, `internal/api/router.go`, `inbound_client_import.go`, `three_xui_bridge.go` | rows of four tables | create, edit, delete, bulk operations, imports and exports | each handler reads, checks, writes and invalidates in separate steps; imports merge accounts | accounts survive a round trip; rows and what is derived from them agree |
| **Generators**, `internal/service/proxy/xray.go`, `singbox.go`, `routing_rules.go`, `internal/service/sub/generator.go` | none, but for the subscription cache | configuration of each engine, share links, Clash profiles | four translations of one row that share no code, with their own defaults; a cache filled after the rows were read | what a subscription hands out is served; both engines route alike; the cache outlives neither account nor edit |
| **Sessions, login, setup, tokens, tickets**, `internal/api/router.go`, `security_routes.go`, `admin_sessions.go`, `api_tokens.go`, `middleware`, `pkg/jwtutil`, `core/setup`, `service/terminal/ticket.go` | accounts with a session version, API tokens, setup flags, failure counts, tickets | setup, login, recovery codes, refresh, password and second factor, logout, mint, revoke, tickets | check and act in different steps or under different locks; state that a restart forgets | sessions match present credentials; codes and tickets work once; revocation sticks; setup completes once; lockouts last |
| **Settings store**, `internal/config/db.go` | table, cache with a lifetime | `GetSetting`, `SetSetting`, boot secret | the cache is filled between two critical sections; writers that bypass it; failing queries | a served value is not older than a bound |
| **Cron scheduler**, `internal/service/scheduler/cron.go` | job rows, a `cron.Cron` instance, a map of entry ids | add, remove, reload, start, stop | instances are swapped under a lock which not all steps hold | every enabled job is scheduled exactly once, nothing runs after the stop |
| **Site web server**, `internal/service/webserver/manager.go`, `internal/api/site_routes.go` | site rows, two HTTP servers and their muxes, certificates | reload, stop and start around a challenge | bind goroutines that outlive the reload; port 80 lent to the ACME client; a lock that is not reentrant | the listeners follow the table; every call returns |
| **Certificates**, `internal/service/cert` | key pairs on disk | `ObtainCert`, renewal | takes port 80 away from the web server | the web server comes back |
| **Traffic accountant**, `internal/service/traffic/accountant.go` | a baseline per identity, client rows | flush by a ticker and by the hook before Xray is killed | counters that restart with the process; a baseline that dies with the panel or survives it; retries | every byte is charged at most once, and charged in the end |
| **sing-box aggregator**, `proxy_users.go`, `monitor.go` | deltas per connection | drain, requeue | memory and transaction disagree after a failure | the same |
| **Smart deploy**, `internal/service/deploy`, `internal/service/system/optimize_ops.go` | deployment rows, one journal row per operation, drop-in files | apply, rollback | a crash between an effect and its record; an undo that fails, or fails to be recorded, and is repeated; ports chosen against a busy host | the journal knows what exists; a reported rollback is complete; a plan fits its host |
| **Backup and restore**, `internal/service/backup` | every table | restore in one transaction, then reconcile | each component has to notice | what runs follows the restored rows |
| **Telegram bot**, `internal/service/notify` | poller, stop channel | start, stop, reload | a stop that is missed during a long poll | one poller at most |
| **Ad blocking**, **egress log**, **audit**, **monitor**, **firewall**, **Docker**, **files**, **command line client**, **frontend** | batches, ring buffers, none | flush, prune, system calls | little: append, sample, ask the system | nothing lost |

**How they interact.** Handlers, the deployer and boot call `ApplyRuntime`, and
meet at its gate. The generators turn the rows into what an apply installs, and
the subscription generator turns the same rows into what users dial. The
updater asks the external runner for readiness before it replaces the panel,
and the panel it starts answers for the runner again. The accountant hangs on
the engines' stop hook. The deployer activates through the coordinator and
rolls back through it. A restored backup reloads the scheduler and the web
server and applies the runtime. The certificate client stops and starts the web
server, which in turn asks the certificate client for certificates while it
reloads. All of them read the settings cache. Wherever one module needs another
component, it uses what that component's own module shows (`ApplyRuntime` in
`DeployOrchestrator`: on success the engines serve the table, on failure they
serve what they did).

## Modules

A comment at the head of each module says what its state stands for. In every
module, `pc[c]` is where goroutine `c` is between two steps of the code that
other goroutines can observe, a critical section is one action unless the code
releases the lock in it, and every call that can fail has a failing disjunct,
paid for from `MaxFaults`. In modules used by passing runs, a definition whose
name extends that of the next one (`SnapshotAfterWrite` before `Snapshot`) is a
plausible bug: no specification uses it, and each property is tried against the
model with such a definition in place of the right one.

**ProxyRuntime** (`runtime.go`, `core.go`). Inbounds are rows with a protocol
class or `"off"`; a configuration is the set of rows an engine serves, with
their protocol. The phases are those of `applyRuntime` and `transitionRuntime`:
`Load`, `Snapshot`, `Prepare` (with `dualMode` set for the generator and put
back), `Switch`, then for each engine in turn `Stop`, `WriteConfig` and
`Spawn`, `Verify`, and `Persist`; when one fails, `RollbackStop`, `Restore` and
`ReportRollback`. `Environment` is everything else that moves: an engine
exits, a row is edited, a request is cancelled, the panel restarts. History
variables (`before`, `crashed`, `edited`) remember the state at the gate.

**RuntimeTxn** is the abstract specification: an all-or-nothing transaction on
what is installed. `ImplementsTxn` is the refinement, with the state before the
apply shown as installed until the outcome is reported.

**ExternalRunner** (`transitionExternalRuntime` in `runtime.go`,
`external_runtime.go`, `scripts/proxy-runner.sh`). `files` is the shared volume:
a configuration and a marker per engine, and the revision last applied; `saved`
is what the database remembers; `live` is what the engines in the runner loaded.
The phases are those of the transition, one write per step. The runner reads the
files when it starts, and it starts whenever the panel restarts it or Docker
does after an engine has exited (`EngineExits`, `RunnerStarts`), between any two
writes. `Ready` is the updater's readiness check. `unsure` is history: files
were left half written by a death or by a restoration that failed.

**PanelUpdate** (`updater.go`, `status.go`) composes `ExternalRunner` with the
replacement of the panel's own container. A request (`job`) is a goroutine of
the panel in one container and dies with it: it checks readiness, resolves the
tag to a digest, verifies and pulls it, renames its own container, creates the
successor and starts the helper. The helper runs the swap script, one Docker
command per step, with its rollback. `ota` is the final state in the status
file. Requests are not kept apart by any lock, which the model keeps;
`spoilt` is history: requests met, or a crash or failing undo left things open.

**Nodes** has no variables. It is the translations of an inbound row and its
clients that hand something to users: the stream column as the subscription
reads it, server addresses, share links, Clash profiles with and without dual
stack. JSON columns are records of the fields that are read, with "absent" and
"cannot be parsed" kept apart, because the code's defaults are about those.

**EngineConfigs** extends it with what the two engines are given: accounts per
protocol, streams and TLS as each generator understands them, routing rules, the
rows a preset plans. `XrayRoute` and `SingboxRoute` are the external part: how
an engine decides with the rules it was given.

**NodeTable** is the life of the rows under every handler that writes them. A
handler commits and then empties the subscription cache in a second step; an
edit reads its row in one step and saves all of its columns in another; a
subscription request queries in one and stores its answer in another. Imports
merge the accounts of a 3x-ui row with its statistics; `Deploy` and
`RollbackDeployment` create and remove rows as Smart Deploy does.

**AdminAccess** (`router.go`, `security_routes.go`, `admin_sessions.go`,
`api_tokens.go`, `middleware`, `jwtutil`, `setup`, `ticket.go`). A request in a
slot checks in one step and writes in a later one. `admins` and `tokens` are
rows; `failures`, `tickets` and requests are memory and die in `Restart`; a
session is what its signed token says, so it outlives a restart. A TOTP code is
the secret it is computed from; secrets and recovery codes are drawn at random,
so no secret is drawn twice (`drawn`). Sessions carry, as history, the
credentials that opened them.

**Goroutines** is what the next two share, callers with a phase and calls of the
database that may fail, so that one proof module can extend both.

**SettingsCache** (`config/db.go`). One key, because keys do not interact. A
miss is three steps: the lookup, the query outside the lock, the store. Time is
a counter of ticks; `TTL` and `ReadTime` are parameters. `Bypass` is a writer
that changes the row in its own transaction. `Ensure` is `EnsureJWTSecret`.

**CronScheduler** (`cron.go`). Instances of `cron.Cron` with their entries
(`entries`), the current one (`cur`), the scheduler's map of entry ids (`jobs`). `Reload`, `Swap` and `Retire` are the
three steps a reload takes while others run; `Remove` and `Delete` are the two
halves of `RemoveJob`, with the lock released in between as in the code.
`Restore` replaces the rows and calls the reload, as a restored backup does;
`ending`, `stale` and `stopped` are history.

**WebServer** (`webserver/manager.go`, `cert/acme.go`, `site_routes.go`). The
manager's mutex, the two servers (`"nil"`, `"made"`, `"listening"`), the bind
goroutines that run later (`Listen`), the port that the ACME client takes over,
and the callers: edits followed by a reload, and issuances.

**XrayAccounting** (`traffic/accountant.go`). Per identity, the counter of the
running Xray, the baseline, and the bytes charged; `mem` is the panel's memory
and dies with it. The ticker and the stop hook are two flushers under one lock.
Upload and download are treated alike in the code and counted as one here.

**DeployOrchestrator** (`deploy/orchestrator.go`, `system/optimize_ops.go`).
One request at a time works through the plan: `Record` (the pending row), `Act`
(the effect), `Save` (the applied row), `Activate`, `Mark`; on failure, `List`,
`RevertOne` per operation, `Reapply`. All tunings of one name write one file, so
one file stands for tuning. `stack` and `astray` are history: whose tuning is
in place, and whether one was left behind or undone out of order.

## Runs

All runs are exhaustive. Where a run has `CHECK_DEADLOCK FALSE`, the bound on
operations makes the system stop once it is used up.

| Run | Question | Bounds |
|---|---|---|
| `apply` | Does every apply either serve the table or restore what was there, with ports handed over in order and unchanged engines left alone? Does it implement `RuntimeTxn`? | 2 inbounds, 1 caller, all modes with and without force, 1 fault, 1 edit |
| `gate` | Is the gate exclusive on every return path, and does every call return? | 1 inbound, 2 callers, 1 fault |
| `runner` | Is what readiness accepts what the runner serves, and does a failed external apply leave the files? | 2 inbounds, every table to start from, 2 modes, 2 faults, 1 edit, engines that exit at any time |
| `update` | Is there always a panel to return to, and does the status say what became of the update? | 1 inbound, 2 container slots, 2 submissions, 3 images of which 1 is neither signed nor sound, a runner that may carry the name the panel uses for its old self, 1 fault, 1 move of the tag |
| `nodes` | Do subscriptions, engines and rules agree, and do rows, imports and the cache keep accounts together? | 14 shapes of row in all pairs; one plain row with 2 steps of administrators; 7 kinds of rule in pairs with 2 steps; 4 presets; 3 ticks |
| `access` | Who gets in, and who no longer does? | 2 requests at a time; 7 starting situations with a budget of steps each, 1 or 2 restarts; limits of 2; 4 ticks |
| `settings` | How old can a served setting be? | 2 callers, 2 values, TTL 2, read time 1, 5 ticks, 2 writes, 1 bypass, 1 fault |
| `cron` | Is there ever a moment in which an enabled job is not scheduled, or is scheduled twice, or runs after the stop? | 2 jobs, 3 callers, 4 operations, 1 fault |
| `sites` | Do the listeners follow the table once all is quiet, and who can wait for ever? | 2 sites, 2 callers, 2 operations, 1 fault |
| `xray` | Is a byte ever charged twice or lost for good? | 1 identity, both runtime modes, 2 bytes, 2 Xray processes, 2 faults, 1 crash |
| `deploy` | Does the journal survive failures and crashes, and does a rollback undo everything? | 2 deployments of certificate, tuning, inbound; 2 file contents; 2 faults, 1 crash, 1 deleted inbound, any cancellation |
| `site_acme` | see [below](#where-the-code-and-its-own-words-disagree) | as small as the counterexample allows |

### What the properties say

*apply, gate.* `UnchangedIsLeftAlone`: an engine that needs no change keeps
file, mode and process even when the other one fails. `PortsReleased`: when an
engine is started, in the transition or in its rollback, the other has given up
the ports it needs. `AbortRestores`: a reported failure or rollback leaves the
old files, modes and processes, whatever was edited and whoever crashed.
`AppliedServesTable`: a reported success means exactly the wanted engines serve
exactly their share of the table. `ImplementsTxn`: all or nothing.
`GateExclusive`, `EveryCallReturns`.

*runner.* `ReadyServesRevision`: when readiness passes between applies, what
the runner serves, and what it would serve if Docker restarted it, is the
revision and mode the database names. `FailedApplyLeavesFiles`: after an apply
that failed and restored, every file is as it was and the runner runs it.
`AppliedIsServed`: after a success every inbound that was loaded is served.

*update.* `TrialKeepsOld`: while the new panel is on trial the old container
exists, and it goes only after three ready answers in a row. `StatusIsTrue`: at
rest, `succeeded` names the one running panel and `rolled_back` the old one
under its own name. `OnlyVerifiedImages`: no container has an image whose
signature was not checked. `UpdateSparesRunner`: no step of an update stops the
runner, whatever its container is called.

*nodes.* `SubscriptionsAreServed`: every link is served by an engine that runs
the current rows, field by field; a Clash profile describes the same nodes; a
dual-stack profile can be loaded and routed by. `RulesWorkAlike`: a destination
is sent the same way by both engines, and a table of rules leaves sing-box a
file it can load. `RoundTripKeepsAccounts`: exporting to 3x-ui and importing
again loses no account. `DeployedAcceptsOnlyRows`: a preset's own credentials
do not come back when its last client row goes. `PresetsFit`: a plan is refused
for its ports only on a host with too few. `CachedAnswersHold`: a cached answer
ends with the entitlement and was right when it was stored. Each names, in its
comment and hypotheses, the shapes on which the code itself does not agree.

*access.* `SessionsAreEntitled`: an accepted session was opened with the
password and the second factor the account has *now*, within its greatest age.
`CodesWorkOnce`: a recovery code passes one login, also when two present it.
`ChangesFollowTheirCheck`: an account changes only for a request that checked
this very version of it. `LocksHold`: a lockout is earned, and only a restart, a
successful login or a check that saw the previous one run out ends it early.
`TicketsHold`: a ticket works once and goes missing only when the store is full
of later ones. `SetupNeverReopens`, `RevocationSticks`: whatever overlaps.

*settings.* `ServedIsRecent`: what `GetSetting` serves is at most
`TTL + ReadTime` old, against readers that store late, against writers that
bypass the cache, and across restarts.

*cron.* `AlwaysCovered`: at every instant a settled enabled job is scheduled in
a running instance. `BookMatchesInstance`: the entry ids are those of the
current instance. `OneInstanceAtRest`: outside a reload nothing but the current
instance runs, and after `Stop` nothing at all.

*sites.* `ServesEnabledSites`: when every goroutine is done, ports 80 and 443
serve what the table says, provided the last reload met no failure and no call
met another one's challenge. The second proviso is the code's limit, not the
model's: see *Other behaviours* below. `OnlyNestingBlocks`: the one way to wait
for ever is behind a reload that asks for a certificate while it holds the lock.

*xray.* `NeverChargedTwice`: no client is charged more than it used.
`BaselineIsSettled`: the baseline is what was charged for the process it belongs
to. `TrafficIsCharged`: what was counted is charged in the end, if the process
lives or stops in good order and flushes do not fail for ever.

*deploy.* `JournalKnowsInbounds`: an inbound that a deployment created always
has a row that says it may exist. `RolledBackIsGone`: a deployment reported as
rolled back has none left, in the table or in the engines, except one that a
crash or a double failure cut off from its row. `FilesRestored`: with nothing
in place, left behind or undone out of order, the file is the original one.
`SucceededIsServed`: success means every operation done and every inbound served.

### Why the bounds are enough

The interesting cases need few participants. A transition has two engines in
every instance; two inbounds are what it takes for both to have work and for
one to move between them. One caller works inside the gate at a time, so races
for the gate need two callers and no more than one inbound. One fault reaches
every error path, two reach the path inside an error path where there is one
(a deployment's undo that fails after a failed save; a flush that fails twice).
A stale cache entry takes one late reader and one writer. A reload overtaking a
removal takes three callers with an add beside them. A second tuning on top of
a first is what makes the order of rollbacks matter. A runner's files are a
mixture after one failure between two writes, and Docker's restart in that
moment is free. A swap has two containers; the third image is the one the tag
moves to. Translations disagree on one row or on two that share a user, so
pairs of shapes suffice; handlers, fills and expiry interleave on one plain row.
Races of requests about one account are races of two; the starting situations
of `access` keep unrelated parts of the module from multiplying. The proofs
remove the bounds for `ProxyRuntime`, `SettingsCache`, `DeployOrchestrator`,
`CronScheduler`, `AdminAccess`, `ExternalRunner`, `PanelUpdate`,
`XrayAccounting`, `WebServer` and `NodeTable`, for the properties they state.

`apply`, `settings`, `cron`, `deploy` and `access` use symmetry, over model values that
the modules only compare, and only in runs whose properties are safety ones.
`sites` leaves out the TLS mode `"custom"`, whose sites differ from obtained
certificates only in where the file comes from; `site_acme` has all three.
`xray` has `RestartsOverlap = FALSE`: Xray does not restart between a flush's
read of its start time and of its counters. With `TRUE`, `NeverChargedTwice`
fails (see below).

### Fairness

Except in WebServer, `Spec` promises nothing, and runs that check safety use it.

- **ProxyRuntime** `FairSpec`: weak fairness of the gate holder's steps (a
  goroutine that is not blocked runs; every external command has a timeout) and
  strong fairness of `Acquire` (senders blocked on a Go channel are served in
  order). Nothing is assumed of the environment.
- **WebServer** `Spec`: strong fairness of a caller's steps, because a `sync.RWMutex`
  serves its waiters in order, weak fairness of the bind goroutines and of the
  boot. Nobody has to edit a site or ask for a certificate.
- **XrayAccounting** `FairSpec`: weak fairness of the ticker, of a flush's steps
  and of a kill that has begun.

## Proofs

Checked by TLAPS, with no bound on anything.

**ProxyRuntimeProofs**, for every set of inbounds, callers and requests. From
`CallerAssumption` (the value for "nobody" is not a caller), `BoundAssumption`,
`RequestAssumption` and `ConfigAssumption` (the value for "no file" is not a
configuration).

- `TypeCorrect` and `GateIsExclusive`, and `FilesDescribeProcesses` (a live
  engine serves its file, so the snapshot, which reads the file, describes the
  process), are inductive with the type invariant.
- `AbortsRestore` is an action property about a comparison with the state at the
  gate, and no invariant about the outcome alone carries it. `RollbackInv` does:
  phase by phase it says what is still as it was. Before `Switch` nothing is
  disturbed but the mode of the engine being prepared; the snapshots agree with
  the state at the gate once they are taken; unchanged engines stay as they
  were; and an engine that the rollback has passed without an error is back.
  `RollbackIsPrepared` proves it inductive, with `GateExclusive` needed so
  that another caller's step cannot be a step of the transition.
- `ApplyIsTransaction`: with the mapping `Installed`, every initial state is one
  of `RuntimeTxn`, and every step maps to one of its steps or to a stutter. An
  abort maps to `Abort` because of `RollbackInv`.
- `UnchangedKeepsRunning`, `PortsAreReleased` and `AppliedServes` need to know
  what two engines may do side by side, and that is a statement about all of a
  transition (`SideBySide`): configurations that run together hold disjoint
  inbounds (`Apart`), because the generator gives each engine its protocol
  classes and leaves the other's out; a candidate is what was generated from the
  loaded table, and "unchanged" was concluded from this very candidate and
  snapshot (`Candidate`, `Judged`); and an engine the loops have passed is stopped
  or runs its candidate (`Cleared`, `Renewed`). `WereApart` says the same of the
  state at the gate, which is what the rollback starts from. That the engines are
  apart rests on the gate: another caller's switch in between would break it.

**TableCopiesProofs** is about the two copies of table rows that the panel keeps
in memory, the settings cache and the scheduled jobs.

*Settings*, for any callers, values, TTL and read time, from
`SettingsAssumption` and `EntryAssumption`. `CachedWasCurrent` is the
strengthening: it covers not only the entry but every value a reader has
fetched and not yet stored. `ServedValueIsRecent` follows from it and from the
lifetime test.

*Jobs*, for any jobs, any number of callers and any bounds,
from `CronAssumption`. None of the three properties is inductive. `CronInv`
adds what the locks give and what happens outside them:

- `LockOK`: who is in a critical section holds `s.mu`, and reloads, which
  `opMu` serialises, are at most one. Hence `NumberOK`: the instance a reload
  starts is new, so it cannot have been stopped before.
- `LiveOK`: what runs is the current instance and, during a reload, the one it
  is about to stop; once `run` is false, only instances that somebody is about
  to stop. This is `OneInstance`, and half of `Covered`.
- `CoverOK`: a settled job is in `s.jobs` when the table has been loaded. With
  `BookMatches` it is in the current instance, which runs: `Covered`. It needs
  `TargetOK`, because a removal leaves the lock before it deletes its row.

**DeployOrchestratorProofs**, for any deployments, any plan with at most one
tuning per file (`DeployAssumption`), any contents and bounds. Five parts, each
inductive relative to the ones before it:

- `JobInv`: where the request is and what its journal looks like there (rows
  above the current step do not exist, the current one is pending).
- `RowsInv` gives `JournalIsComplete`: the row precedes the effect, so an inbound
  is never without one.
- `GoneInv` gives `RollbackIsComplete`: a rollback without errors leaves nothing
  to undo above the step it has reached; at the end nothing is left at all, and by
  `RowsInv` what is still in the table is pending.
- `DoneInv` gives `SuccessIsServed`.
- `FileInv` gives `RollbacksRestoreFile`: the snapshot of the *lowest* tuning in
  place is the original file, and nobody is in place twice. Nothing need be said
  of the others, because in order only the lowest one's undo empties the stack.

**AdminAccessProofs**, for any number of requests at a time, any accounts,
secrets, tokens, addresses and limits, from `LimitAssumption`, `SecretAssumption`
and `StartAssumption`.

- `SessionsEntitled`: everything that remembers an account remembers a version
  of it: a session, a login that has read the row, a change about to write it, a
  refresh. `Became(old, new)` says that a row has only moved forward and that,
  if its version has not moved, neither have its credentials. That every such
  memory is of a version the row once had is part of `AccessInv`; no statement
  about sessions alone is inductive, since a request in flight makes new ones.
- `ChangesAreChecked` and `RevocationStays` follow from the same invariant, step
  by step over the writers of each table (`AccountWriters`, `TokenWriters`).
- `LockoutsHold` needs that a request which forgets a failure count is at the
  phase at which its own check allowed it.
- `TicketsAreKept`: ticket numbers are unique and a pending ticket has opened
  nothing (`TicketsInv`); a ticket that is pushed out was the oldest of a full
  store, so the rest of the store and the newcomer are the younger ones which the
  property counts.
- `CodesPassOnce` is not about logins alone: turning the second factor off and
  setting it up again brings new lists. `CodesInv` follows the secrets: one that
  was drawn is in one account or with one request (`OffersFresh`), its codes were
  issued with it and nobody else's, and lists hold unused codes only
  (`ListsFresh`). That no two drawings coincide is `SecretAssumption`, and part of
  the model: a request draws a secret that nobody was offered before.
- `AccessTypeCorrect` includes the bound of the ticket store, by cardinality.

**PanelUpdateProofs** has the proofs of both modules.

*The runner by itself*, for any inbounds, requested modes and number of
failures and edits, from `RunnerBounds`, `RunnerModes` and `RunnerRows` (the
tables the runs start from are tables). `ReadyServesRevision` and
`FailedApplyLeavesFiles` are about an idle panel and say nothing of the writes in
between, when the runner may be restarted at any moment. `RunnerInv` adds:

- `Progress`: while the transaction writes, the files of the engines its loop has
  passed are the candidate's; the marker is written last, so it then names what
  all of them say; after a restart a runner that is up serves them.
- `Undisturbed`: until the runner is restarted, what it serves is still what the
  *snapshot* says, so that putting the files back is enough; and a revision
  marker always stands beside the files of that revision (`Marked`), in the
  snapshot as in the volume. `unsure` excepts what a death or a failed
  restoration parted.
- `SavedAgrees` and `Applied`: mode and revision were saved together, and after a
  success the files remain the candidate's, so any restart of the runner by
  Docker brings the same engines back.

*The update with the runner it is composed with*, for any containers, images, requests, names of the runner and bounds, from
`BoxAssumption`, `ImageAssumption` and the runner's own assumptions.

- `ImagesAreVerified` (`ImagesInv`: an image is verified before a request gets
  past its signature, and every later container copies from those) and
  `UpdatesSpareRunner` (`NameInv`: a request that is about to remove containers
  by name has found the runner under none of those names) hold whatever
  overlaps.
- `OldPanelIsKept` and `StatusTellsTheTruth` are about requests that nothing has
  spoilt, and rest on `Orderly`. Unless `spoilt`, one request or one helper is at
  work, and the containers stand in the layout of its step: `Alone` up to the
  rename, `Renamed` until the successor exists, `Pair` until the trial has ended
  one way or the other, `Alone` again (`Home`). Neither property is inductive
  without the layouts, because a step knows only the names it uses.
- `ReadyDuringUpdates`: the runner's promises hold in the composed system, where
  panels die with whatever apply they had begun. `RunnerInv` survives each step of
  an update.

**XrayAccountingProofs**, for any identities, deployments and numbers of
processes, failures and crashes, from `XrayAccountingAssumption`.
`NothingIsChargedTwice` and `NothingIsForgotten` are stated under `Steady`: Xray is
not replaced between a flush's two reads of it, and an external Xray that is up
does not answer a query with nothing. These are the conditions of the run
`xray`, and without either the properties are false of the code (see *Other
behaviours*). `AccountInv` says what a flush knows at each of its steps:
`Reading`, that its baseline is what was settled of the process whose start time
it has read; `Answered`, the same of the process that answered, which may be gone
by now, and nothing about another one. `Remembered` relates the memory of an
external panel to the settings row; a failed transaction leaves both as they
were, and a crash forgets only what the row still says.

**WebServerProofs**, for any sites, domains, callers and bounds, from
`WebServerAssumption`. `ServesEnabledSites` is about a moment at which everyone is
done; what makes it true happens while somebody is not. `WebInv` adds:

- `LocksInv`: who reads the table or builds from it holds the manager's mutex, and
  who answers a challenge holds the port.
- `Current`: a reload that nobody waits behind has read the table as it is. An edit
  commits before it queues for the reload, so a table that has changed since the
  read has left somebody waiting, whose reload will come.
- `Settled`: with nobody on the way to a reload, servers, handlers and certificates
  are those of the table (`Matches`), unless the last reload met a failure
  (`flawed`).
- `Owed`: a server that exists and does not listen has a goroutine that will bind
  it. With `Settled` this gives the property once the goroutines are done.
- `Challenge`: a caller between the stop and the start of its bounce is alone with
  closed listeners. Otherwise its start could find the server running and leave
  without the reload. This, and with it the rest of `ServeInv`, fails once two
  calls meet in a challenge (`overlapped`): the proviso of the property.

**NodeTableProofs**, for any forms, imports, rules, outbounds, starting tables and
bounds, from `NodeTableAssumption` (starting tables are tables: ids below the
next one, tags and emails unique, and so on).

- `TablesInvariant`: `RowsInv` is what the other theorems start from: ids, tags,
  emails and credentials as the handlers, engines and accounting rely on them. It
  covers the row that an edit has read and not yet saved (`EditHolds`), because
  saving writes every column back. That an import's rows keep it is an induction
  over the accounts of the imported row.
- `CachedAnswersAreRight`: `CacheInv` covers answers that are computed and not yet
  stored (`fills`) besides the stored ones; `overtaken` is what such a fill becomes
  when somebody empties the cache in between.
- `DeployedRowsStaySealed`: a deployed inbound that keeps its preset's tag has no
  accounts of its own in the table, in an edit under way and in what the engines
  run (`DeployInv`). Under `FormsAreSealed`: no administrator submits accounts
  inline under a tag that belongs to a preset, which the handler would accept.
- `PlansAlwaysFit`: `PresetsFit` for any busy ports: the port search finds a port
  whenever one is free and never a busy one, plan by plan.
- `RulesAlwaysWorkAlike`: for every table of rules, both engines send every
  connection the same way, and the sing-box file refers to nothing it does not
  define. The first part is an induction over the rules, because both engines take
  the first that matches. Under `OutboundsAreKnown`: outbounds are of the kinds
  `model/proxy.go:73` names. The handlers do not check this (see *Other
  behaviours*); the proof fails without it, and so does the property.
- `RoundTripsAlwaysKeep`: exporting an inbound and importing it again keeps its
  accounts, credential by credential (`CopiedAccounts`, an induction over them).
- `SubscriptionsAlwaysServed`, for any columns. Links: `RunInv` (what the engines
  run was built) and `RowsInv` give every row of an answer an endpoint in an engine;
  that each generator reads the stream as the link does is a lemma per engine
  (`ReadByXray`, `ReadBySingbox`, joined by `AsRead`), and that endpoint and link
  agree one per family of protocols (`StreamLinkServed`, `ShadowsocksLinkServed`,
  `QuicLinkServed`). Regular profiles: `ProxyIsLink`. Dual-stack profiles: nodes
  have distinct names, are dialled by their family and miss no row with an address,
  by induction over the rows (`DualStackNodes`); the groups list them all, IPv6
  first (`FamiliesInOrder`). This needs per-family addresses that are literals
  (`LiteralsInv`): the handlers validate them, an import and a preset leave them
  empty. Assumed of addresses: normalising a literal, or nothing, changes nothing
  (`AddressAssumption`), and starting tables hold literals. The shapes in
  `ReadAlike` and `Comparable` are those the proof and the code leave: outside
  them the translations differ (see *Other behaviours*).

Inductions over lists are made on a set of numbers: the lists' operators are
recursive functions, and the lemma `Counting` says that a set which has 0 and with
every number its successor has them all.

**Only model-checked.** `OnlyNestingBlocks` and the other liveness properties: this
prover does not reason about liveness under fairness or about `ENABLED`, nor about
`RECURSIVE` operators (there are none).

## Where the code and its own words disagree

- `site_acme`: a reload of a site in ACME mode asks for the certificate while it
  holds the manager's mutex, and the challenge's stop takes the same mutex
  (`manager.go:129`, `74`); everyone else then waits for it too. The comments at
  `manager.go:64` and `main.go:159` say that handlers may call it and that the
  stop and start are taken care of. TLC refutes `EveryCallReturns`.

### Other behaviours met while modelling

These contradict no statement in the repository, or are outside what a run
claims, and are recorded for whoever changes the code.

*Engines and settings.*

- `PUT /admin/adblock` restarts the engines without the gate
  (`router.go:1863`): in the middle of a transition it makes the apply fail and
  report a rollback that did not restore the previous state.
- A query that fails at boot is served as the empty string; `EnsureJWTSecret`
  takes it for a missing secret and replaces the stored one (`db.go:254`).
- A reader whose query was answered before a write stores the old value after
  the writer's invalidation (`db.go:257`): `SetSetting` has returned, and the old
  value is served for up to the lifetime of an entry. `ServedIsRecent` is the
  bound that does hold.

*External runner and updater.*

- A panel that dies between two writes of an external apply, or a restoration
  that fails, leaves a mixture of two revisions. While the marker still names
  the previous revision and the engines run, readiness passes (`runtime.go:375`,
  `414`); a restart of the runner then boots the mixture.
- Nothing keeps two `POST /system/update/apply` apart, nor one of them and a
  restart: each removes the other's helper and renames and removes containers by
  name (`updater.go:571`). `POST /admin/restart` does not ask for readiness
  (`security_routes.go:229`).
- `helper_started` is written after the helper was started (`updater.go:613`)
  and can replace the helper's own final status.

*Rows and subscriptions.*

- Combo joins two plans that both prefer port 443 (`preset.go:234`), so it is
  refused on a host where each alone fits. A preset's port override is accepted
  and not used (`preset.go:348`).
- An answer computed before an edit and stored after it is served until its time
  to live ends (`generator.go:386`); a deployment and its rollback do not empty
  the cache at all.
- An imported row with no enabled client keeps the accounts of its template
  (`xray.go:216`). A disabled account that is exported comes back enabled.
- A rule with domain and address, a port text that is no number, and a custom
  outbound mean different things to the two engines; an outbound can be disabled
  or deleted while a rule uses it (`router.go:1577`), and sing-box then refuses
  its file with all its nodes. So it does when an enabled outbound is of a kind
  that the generator leaves out and a rule names it: the handlers accept any kind
  (`router.go:1495`).
- VMess over Reality is a link but in the clear in a Clash profile; a native TLS
  block is read by sing-box alone, `wss` by links alone.
- A link takes the server's name from the first block that has one, also from one
  that a former kind of security left behind (`generator.go:110`, `137`), while the
  engines read the block of the kind in use: the two can name different servers. A
  transport that only some of the four know is read differently too.

*Access.*

- A second setup request that passed the check before the first committed
  creates a second account when its name differs (`router.go:691`).
- Two first requests of an address can each get a rate limiter of their own
  (`router.go:67`).
- A check that saw a lockout run out deletes failures recorded since
  (`router.go:131`).

*Scheduler, sites, accounting, deployments, bot.*

- `RemoveJob` releases the lock before it deletes the row; a reload in between
  schedules the job again and nobody removes it (`cron.go:145`).
- A statsquery that fails with empty output passes for an Xray without
  counters; with an external runner the empty baseline is persisted and the next
  flush charges everything again (`accountant.go:488`).
- A reload that opens port 80 during another caller's challenge leaves a server
  that exists and does not listen; later reloads only replace its handler
  (`manager.go:165`). Only a reload with no site on, or another bounce, repairs it.
- Two enabled sites with one domain make the reload panic, at every boot too
  (`manager.go:115`).
- If Xray restarts between a flush's read of the start time and of the counters,
  the new process's bytes are charged under the old epoch and once more under
  the new one (`accountant.go:158-192`).
- `PUT /clients/:id` writes back every column of the row it read, the byte
  counters included (`router.go:1288`, `1312`).
- A deployment that fails before its activation does not apply the runtime. If
  somebody else did meanwhile, the engines serve rows that are gone until the
  next apply (`orchestrator.go:126`).
- Rolling back an earlier deployment after a later one has tuned the same file
  removes the later tuning, and rolling back the later one then brings the
  earlier one's file back (`optimize_ops.go:138`). A tuning whose reload of the
  kernel fails leaves its file behind. The undo restores files and does not run
  sysctl again, though `docs/superpowers/specs/2026-04-21-smart-deploy-design.md:328`
  speaks of restored sysctls.
- The Telegram bot's `Stop` closes and replaces its channel in one critical
  section and the loop fetches the channel anew each round (`bot.go:70`, `75`):
  a poller inside a long poll misses the stop, and the supervisor starts another.

## What is not modelled

- In the modelled components: a second process of one engine (`startAndVerify`
  stores the new process without looking at the old one; the gate and the stop
  loop keep the transition away from it); the web server's stop at shutdown;
  client resets, limits and edits in the accountant; a deployment's service
  operations (time sync), whose undo is best effort; rate limiters, the address
  whitelist, token scopes and headers in front of the handlers; the registry
  query that offers an update; what only formats: link syntax, QR codes,
  pagination, the probe's measurements.
- `ObtainNested` has no way out, as in the code.
- The sing-box aggregator, the rest of the backup's archive, the bot and the
  egress batches: see the plan.
- Ad blocking beyond its restart; firewall, Docker, files, monitoring, audit:
  calls of system tools, or append and prune, with little state of their own.
- Boot code over SQLite, whose failures end the process; the command line client
  and the frontend, sequential clients of the API.

`PROJECT.json` has the list by component, and under `hazards` what each is
exposed to, with the properties that would catch it and a note where none does.

## Plan

In order of what a mistake would cost. *Done*: the proxy runtime and its
abstract transaction; settings cache, cron scheduler, site web server; the
traffic accountant for Xray; Smart Deploy; the external runner composed with the
updater; the rows with the four translations made of them; access. With
proofs: ProxyRuntime, SettingsCache, DeployOrchestrator, CronScheduler,
AdminAccess, ExternalRunner, PanelUpdate, XrayAccounting, WebServer, NodeTable.
Next:

1. **ProxyUserTraffic**: the sing-box aggregator with drain and requeue, clients'
   resets and limits, refined with `XrayAccounting` to one abstract ledger of
   bytes used and charged.
2. **BackupRestore**, composed with `CronScheduler` and `WebServer` through the
   reconcile loop; **TelegramBot**; the egress batches.
