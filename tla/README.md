# drivechaind in TLA+

This directory holds a verification development of `sidechain-orchestrator`, the daemon
(`drivechaind`) behind the LayerTwo Labs frontends. It owns the Bitcoin Core, enforcer and
sidechain processes of a user, serves every frontend over one port and has to end when, and
only when, nobody needs it. The modules are translated from the Go source; TLC checks them on
small instances, and TLAPS proves safety of the lease, the shutdown machine, their composition,
the process manager, the connection monitor, the block file converter, the eCash migration and
the BMM engine for every value of their constants (the last with one restriction, see section 7).

Paths below are relative to `src/sidechain-orchestrator/` unless they start elsewhere.

## 1. Inventory of the system

The repository is a monorepo: Flutter applications (BitWindow and one per sidechain), Go
services, and the orchestrator daemon they share. The Dart side is user interface. The logic
that is shared, concurrent and long-lived is in `sidechain-orchestrator`.

### 1.1 Modelled in this development

**Client lease** (`lease/`). State: the owner pid, the counts of open connections and holds,
the strikes against the owner, `idleFrom`, and the latches `drained`, `waived`, `ownerGone`.
Operations: `ConnState` (the HTTP server's callback), `Goodbye`, `Hold` and its release,
`SetOwner`, and the ticker of `Run`: `pollOwner`, then `fireIfExpired`, then the drain call
outside the lock. Hard: the pid lookup runs outside the lock, pids are reused, a lookup can
fail once, a new owner arrives between the firing and the drain. Correct when it neither
takes a live frontend for dead nor waits for ever, and when a claim that came too late is
told so.

**Shutdown state machine** (`shutdown.go`, the end of `cmd/drivechaind/main.go`). State:
`shutdownState`, the idle channel of the drain in flight, and one `runShutdown` goroutine per
drain. Operations: `BeginShutdown` (RPC and signal), `RequestExit` (the lease),
`CancelShutdownExit` and `AdoptOwner` (a frontend that takes over), `awaitDrainForBoot` (the
gate of `StartWithL1`), `AwaitShutdownIdle` (main). Hard: an exit and its cancellation race
until the drain's last critical section; boots and main block on the channel of the drain
they met; a keep-L1 retire shares the state with an ordinary exit. Correct when one drain runs
at a time, the last request decides, no waiter is left behind and the process ends only for a
reason.

**Process manager** (`process.go`). State: the table of managed processes by name, the
reserved starts, the last exit of each name, the set of adopted orphans, the PID records on
disk, one reaper or watcher goroutine per entry. Operations: `StartWithOptions`, the reaper,
`Stop`, `AdoptProcessResolved`, `watchAdopted`, `Remove`, `AdoptOrphans`. Hard: `pm.mu` covers
the table and nothing else, so forks, PID records, exits and adoptions change between its
critical sections; the daemon dies and the next one reads the records. Correct when a slot has
at most one live child, a live child can be found, and an exit reaches everybody who waits.

**Connection monitor and restart timer** (`connection_monitor.go`) with the boot that drives
it (`startBitcoindOnly`, `startOrAdoptCore`, `waitForConnectedOrExit`, `failBoot` and `Stop`
in `orchestrator.go`). State: `connected`, the connection and startup errors, the flags
`initializing`, `stopping`, `connectModeOnly`, `completedStartup`, `hasCrashError`, the restart
count and backoff, the epoch of the ping in flight, the restart timer's stop channel. Hard:
pings, restarts, stops and exit reports each read the flags under the lock and act after it.
Correct when the display is true, a crash is restarted, and a stop is final.

**The daemon as a whole**: the lease fires `RequestExit`; a frontend's `AdoptOwner` is
`SetOwner` followed by `CancelShutdownExit` with no lock over the two; RPCs boot the stack
over a connection that counts in the lease.

**Block file converter** (`blockfile/`). State: the magic bytes of every block and undo record,
one journal, and the locks of a run. Operations: `Convert`, from preflight to the sync of the
last file. Hard: it rewrites in place, so a crash or a loss of power may leave any mix of
written, unwritten and half-written records, with or without the journal that explains them.
Correct when every directory it leaves can be taken up again and a conversion that returned is
on the disk.

**eCash migration** (`ecash_migration.go`, with the gate in `StartWithL1` and `beforeStart`, the
daemon's start and the catalog refresh). State: the job on disk, in memory and in the worker;
which Core runs; which branches Core holds valid; the network as `bitcoin.conf`, the settings'
record, the user's pick and the configs in memory name it. Operations: start or resume, the five
steps (prepare, rewind, convert, select, check), node starts, the daemon's own start, and the
refresh of the catalog. Hard: four records of "which network" change one at a time while the
files change under them; any save may fail; a node start may wait for minutes between its gate
and its fork. Correct when no Core ever runs on files that are not its own and a job always ends.

**BMM engine** (`engines/bmm_engine.go`, `engines/bmmstate/store.go`, the wallet and connect calls
of `api/bmm_handler.go`). State: the target of a sidechain, the round being bid on, the rounds that
wait for their block or for the sidechain's verdict, the store's copy of rounds and targets, and
its two files. Operations: the tick (retry what waits, settle the round a new tip closed, open the
next, raise), `Start`, `Stop`, `ClearHistory`, the reload of a restart. Hard: the tick takes the
round out of `e.mu`'s sight while it settles it; every save may fail; a bid may be broadcast and
its answer lost; the tip may run two blocks ahead of a round. Correct when a block that was paid
for is neither written off, nor bid on twice, nor forgotten, nor offered after its verdict.

How they interact: the lease calls the shutdown machine (a callback, no lock held); the RPC
handlers call both; the shutdown machine calls `ShutdownAll`, which stops each tracked process
through the process manager; the process manager reports an exit to the monitor through
`OnExit` after it closed the exit channel; the monitor's restart timer and the boot call
`StartWithOptions` and `AdoptProcessResolved`; the migration's worker starts and stops Core
through the process manager, holds the client lease while it runs, and calls the converter.

### 1.2 Not modelled yet

| Component | Source | What is hard in it |
| --- | --- | --- |
| Rest of the boot | `orchestrator.go` | enforcer and sidechain boots after bitcoind, `RestartDaemon`, network swap |
| Log windows, log tails | `process.go`, `logtail.go`, `logfile/` | subscribers of a bounded window, rotation under a tail |
| Downloads | `download.go` | one download per binary, waiters, swap of the result |
| eCash switch, wallet-only migration | `ecash_switch.go`, `ecash_wallet_migration.go` | the same steps without a conversion, and wallets alone |
| Wallet converter | `corewalletfile/` | a journal of its own over SQLite files |
| Reset, reject, snapshot | `reset*.go`, `reject_block.go`, `snapshot.go` | deletion plans, long RPC sequences |
| Other engines | `engines/` | polling loops over wallet RPCs |
| Stratum server and pool | `stratum/` | job lifetime, stale shares, reconnects, vardiff |
| Wallet | `wallet/` | lock state; key derivation, coin selection and PSBTs are numeric |
| SQLite guard, wallet file lock | `sqliteguard/`, `walletfile/` | recovery of files |
| Node mode, network plan, config | `node_mode.go`, `network_change_plan.go`, `config/` | data, no concurrency |
| RPC handlers, proxies, health checks | `api/`, `health*.go`, `sidechain/` | thin, I/O |
| BitWindow server | `src/bitwindow/server` | a second daemon with its own engines |
| CoinNews, dc-hub, difficulty, broadcaster, fulcrum proxy | `src/` | standalone request handlers |
| Flutter applications | `src/bitwindow/lib`, ... | user interface |

`PROJECT.json` lists every one of them with its status and the reason.

## 2. Plan

Order of work; the first nine are done.

1. `Lease`, `LeaseProofs`.
2. `DaemonLifecycle` (abstract), `Shutdown` (shown to implement it), `ShutdownProofs`.
3. `Daemon`: Lease and Shutdown composed.
4. `ProcessManager`; `ConnectionMonitor` with the boot of bitcoind.
5. `BlockConvert`, `BlockConvertProofs`; `ECashMigration` over it, `MigrationProofs`.
6. `ProcessProofs` and `MonitorProofs`: the safety of both from one inductive invariant each.
7. `BmmEngine` with its store: a won round is connected once, also over a restart.
8. `DaemonProofs`: the composition implements its parts, and `AdoptedStaysUp`.
9. `BmmProofs`: `PaidBlockNotLost` from the target that always fits the round in play,
   `JudgedOnce` and `NoSecondBid` from what the file and the store still hold of the past.
10. `Downloads`: the in-flight claim, its waiters, the swap under a running start.
11. The wallet converter, `StratumPool`, `LogStream`, the eCash switch.

Abstract specifications worth stating: what the daemon promises about its end (done); a
migration as seen by a node start (the directory belongs to one network, or nobody may open
it); a round ledger in which a commitment is confirmed at most once.

## 3. Modules

| Module | Models | Shape |
| --- | --- | --- |
| `Lease` | `lease/lease.go`, `lease/alive_unix.go` | one action per critical section of `l.mu`; the ticker is a program counter `runAt` |
| `DaemonLifecycle` | what clients are promised about the daemon's end | abstract, no goroutines |
| `Shutdown` | `shutdown.go`, the end of `main.go` | drain `d` is goroutine `runner[d]` and channel `d`; refines `DaemonLifecycle` |
| `Daemon` | the wiring in `main.go`, `AdoptOwner` | EXTENDS both, conjoins their actions |
| `ProcessManager` | `process.go`, `AdoptOrphans`, `ShutdownAll`'s choice | entries are (OS process, adopted) pairs, goroutines are functions over them |
| `ConnectionMonitor` | `connection_monitor.go` and the callers in `orchestrator.go` | `mon` is the struct, every lock section one action |
| `BlockConvert` | `blockfile/convert.go`, `journal.go`, `lock.go`, `file_unix.go` | what is read and what is stored are two functions over the records |
| `ECashMigration` | `ecash_migration.go`, its gate, `network_catalog.go` | EXTENDS `BlockConvert`; the worker is a program counter over the points between its saves |
| `BmmEngine` | `engines/bmm_engine.go`, `engines/bmmstate/store.go` | the tick is a program counter `at` with a queue of saves; calls run between its steps |
| `LeaseProofs`, `ShutdownProofs`, `DaemonProofs`, `ProcessProofs`, `MonitorProofs`, `BlockConvertProofs`, `MigrationProofs`, `BmmProofs` | theorems | |
| `MC*` | TLC instances | |

### Lease

`ownerPID`, `live`, `holds`, `strikes`, `drained`, `waived`, `ownerGone` are the fields of
`Lease`. The timestamps are reduced to the one bit the code reads, `graceOver`, "`now -
idleFrom` has reached the grace": it becomes true on its own and every write of `idleFrom`
resets it. `pollOwner` is `PollRead` (lock), `PollLookup` (`alive(pid)`, no lock) and
`PollApply` (lock, with the check that the owner is still the pid that was polled).
`fireIfExpired` is `FireIfExpired`; the call of the drain is `CallDrain`, after the unlock.

The environment is explicit: `frontendUp` are live frontends, `recycled` are pids that the
system gave to another process, and `misses` counts lookups of a live process that failed in a
row. The assumption on it is `MaxMisses < deadStrikes`: one failed lookup is what the
constant `deadStrikes` is there for. Only the pid of the
owner is ever looked up, so only that one is reused, and never before the lease has latched its
death, which is two ticks away.

### Shutdown

`shutdownState` and `shutdownIdle` are the code's; drain `d` is the `d`-th call of
`startDrainLocked`, and owns channel `d`; `NoChannel` is the nil channel, on which a receive
blocks for good. `runner[d]` is where the goroutine is: `draining` (in `ShutdownAll`),
`drained`, then `exiting` or `kept` as the final critical section decides, or, with keep-L1,
`retiring` and `retired`. `bootAt`/`bootOn` are calls of `StartWithL1`, `mainAt`/`mainOn` is
`main`. Three history variables say what a boot met, which drain was cancelled and whether a
retire was asked for. The bound is `MaxDrains`; its last drain is reserved for the signal, so
that the signal is never disabled.

`DaemonLifecycle` knows a phase (serving, draining, leaving, gone), whether the drain ends in
an exit, and whether a signal came. The mapping: *leaving* is a drain that decided to exit or a
main that goes to its exit; *draining* is a drain in flight otherwise; the drain exits when the
state says so or when it is a retire, which nobody can cancel.

### Daemon

`AdoptOwner` is two actions, `SetOwner` and the `CancelShutdownExit` that follows, because no
lock spans them; the lease may fire, its drain may start, and another frontend may claim, between.
`verdict` is what `AdoptOwner` told the present owner. `LeaseDrains` is `CallDrain /\ LeaseExit`,
the `RequestExit` of `Shutdown` within its bound on drains. A boot arrives only while some
connection is open, since it is an RPC. A frontend does not die inside `AdoptOwner`: the two calls
follow each other at once and the lease needs two ticks of two seconds to notice a death. Signals
and the keep-L1 retire end the daemon whoever claims it, and stay in `Shutdown`.

Two histories name what the code does when claims meet (section 6 says why they are needed).
`overtaken`: a late claim was refused, or another claim came before it had reached
`CancelShutdownExit`. `strayKeep`: an exit was cancelled by one that is not the owner, a boot or a
claim that another one overtook. The promises of the composition are these: a frontend that was
told it has the daemon keeps it while it lives, unless `overtaken` (`AdoptedStaysUp`); while the
latch of the fired lease is set, or the owner was refused, the exit is under way, unless `strayKeep`
(`FiredLeaseEnds`); so an owner that was refused sees the daemon go, unless it asks again, another
frontend takes the daemon over or `strayKeep` (`RefusedMeansGone`), and an unattended daemon exits,
unless `strayKeep` (`UnkeptExits`).

### ProcessManager

Runs are OS processes, born in order and at most `MaxRuns`; an `Entry` is the
`ManagedProcess` that stands for one of them, adopted or forked. A start is `Reserve`,
`Fork`, `Register`, `WritePidFile`, `StartReturns`; a reaper is `Untrack`, `DeletePidFile`,
`closeExit`; the daemon's death resets everything but the OS processes and the PID records.
The watch of an adopted process does the same steps but checks that the slot still holds its
own entry. `AdoptProcess` may find that same process registered before, under a watcher that has
not finished; one watcher stands for both. `Remove` is `ShutdownAll`'s: it asks first and removes
what it finds after. The histories are `own` (children of this daemon), `dropped` (children that
`Remove` took out of the table) and `latest` (the entry that last took the slot).
`ExitChannelClosesLast` is what a waiter reads next: the table without that entry and, when no newer
entry took the slot, its exit on record (or a child of the slot that `Remove` lost, whose exit may be
the one on record).

### ConnectionMonitor

One monitor, one daemon binary. `ping` carries what `testConnection` read before its RPC;
`Bumped` is the epoch that `MarkStopped` and `SetChecker` move, which makes the answer stale.
`checkAndRestart` is a program counter per timer, since a boot opens a new timer while the old
one may be inside a check. The table slot and the reaper are the part of `ProcessManager` that
the monitor sees, for the newest run. A timer whose channel was closed may still take a tick that is
ready, as Go's select does. `CrashRestarts` calls the budget used up only when the start that the
last counted restart claimed has returned (`UsedUp`), so that a start that fails, its backoff and
the next try are part of what it says.

### BlockConvert

`cached` is the magic a reader sees, `stored` the one a loss of power leaves; `SyncFile` brings
them together for one file, as `file.Sync` does. A record is `from`, `to` or `torn`, some bytes
of each; `validPartial` is the byte test of the code over these three. The journal is the
function of original magics, or none; `RenameJournal` and `FlushJournal` are the two halves of
`moveJournal`, and `journalStored` is what survives without the second. `losePower` picks, per
record, the old value, the new one or a torn one where the two differ, and either journal.
An error return and the death of the process are one action, `Interrupt`: the locks go, the page
cache stays. A context that is cancelled is an error return.

### ECashMigration

`disk`, `mem` and `job` are the three copies of the job: `ecash-migration.json`,
`migrationState`, and the worker's own. `workerAt` names the points of `runMigrationSteps` and
of the steps between which something else can happen; `save` and `advance` are the saves around
each step. The rewind has the order of the code: first what an earlier run recorded, then the
branch at the tip, recorded before Core is told. `record`, `pick`, `conf` and `ecashID` are
`ECashChainID`, `ECashNetworkID`, `uacomment` and `o.ecashID`; `select` writes them one by one.
`gateOpen` is `checkECashMigrationStart`, asked by `BootRequest` and once more by `beforeStart`
at the fork. `DaemonStart` is `DropUnstartedECashMigration`, `AdoptOrphans` (a Core that
survived keeps running) and `ResolveNetworkCatalog`. `refresh` is the catalog refresh between its
two lock sections. The pick may name the target from the beginning: a confirmed upgrade writes
it before anything else.

### BmmEngine

One sidechain and one wallet. A mainchain block is its height and the bid it took; `broadcast` and
`mempool` are what the network knows of our bids, `coin` what they spend, so that a replaced bid
and its replacement exclude each other. `current`, `unconnected` and `target` are the engine's maps
for this sidechain; `store` and `disk` are the memory and the file of the store, newest round
first. The tick is the program counter `at`: `retry` (`retryConnects`), `mark` (`markTip`), `take`
and `settle` (`settleRound`, whose delete under the lock is a step of its own), `open` and `place`
(`openRound`, `placeBid`), `record` (the answer of `CreateBid`), `stranded` (the round whose bid was
replaced), `raise`. Versions of a round to be saved queue up in `saves`, and a crash may fall
between any two of them. `Start` and `Stop` are two steps each, memory then file, and
`ClearHistory` is three. The verdict of `ConnectBid`, whether to raise, and what a template hashes
to are free choices. The histories `over`, `filed` and `putBack` say which blocks were judged or
given up, which of these the file knows, and which `ClearHistory` or an undecided end put back and
no later save settled. `misled` says that a restart ever found two open rounds and took the older
for the one in play (section 6).

## 4. Runs

| Run | What it shows | Bounds and why they are enough |
| --- | --- | --- |
| `shutdown` | one drain, no lost wakeup, the last request decides, boots come after drains, waiters resume, a signal ends the daemon, refinement | two boots on one drain, three drains: one kept, one more, one for the signal |
| `daemon` | counters match reality, no live owner is taken for dead, late claims are told, a frontend whose `AdoptOwner` succeeded keeps the daemon, a fired lease has its exit under way, an unattended daemon exits, a refused owner sees it go | the first owner and two frontends with one claim each, so that one claim follows, precedes or falls inside the other (`FirstClaim`: the two are alike, one of them claims first); one connection, one hold, one miss, one boot; four drains, which never binds: the lease drains once more than there are claims |
| `process` | one live child, tracked until its death; an exit is announced when table and record say so; dead processes leave | one slot (slots share only the lock), two runs so that one follows the other, one stop, one remover, one crash; `Remove` loses one child (`OneLoss`; the invariants hold without it too, on 1.7 million states, and are proved for any number) |
| `monitor` | true display, crash reasons stay, crashes are restarted | two runs, one boot, two tries: a restart that fails, its backoff, and a second one before the budget is used up |
| `migration` | conversions resume and last, the job never runs ahead of the files, no Core runs on foreign files, a job ends | a file of two records and one of one, so that one file is synced and another is not and a loss of power can hit one of two writes; one source branch; three faults, which is enough for a fault, one in the run that resumes, and one in the run after that |
| `bmm` | a paid block is not written off, not bid on twice, not offered after its verdict, and in the end judged | two blocks, so that the tip can run past a round; two bids, so that one replaces the other; two attempts; no horizon; one fault and one crash, in every order |
| `daemon_stranded`, `shutdown_retire`, `process_record`, `monitor_respawn`, `monitor_boot`, `bmm_overlap` | the findings of section 6 | the smallest instance that shows each |

`CHECK_DEADLOCK FALSE` stands in the configurations of systems that do stop: a daemon that
exited, a bounded number of processes, boots, blocks or bids that is used up. The migration never
stops, and its run checks deadlock.

Bounds: `MaxMisses`, `MaxDrains`, `MaxTries` (claims per frontend), `MaxRuns`, `MaxElsewhere`
(processes somebody else started), `MaxCrashes` (daemon deaths), `MaxBoots`, `MaxRestarts` (10
in the code; 1 in `monitor`, where the timer gives up after the second try), `MaxFaults` (errors, crashes, losses of
power and exits of Core; in `bmm`: failed reads and writes, lost answers and calls of
`ClearHistory`), `MaxHeight`, `MaxBids`, `Attempts` (`bmmConnectAttempts`), `Horizon`
(`bmmConnectHorizon`, 0 there: the next block is past it).

The `daemon` run was also checked with one frontend that claims twice (140,000 states), and the
`bmm` run, for safety, with two faults (7.8 million states) and with three blocks, three bids and no
fault (2.4 million).

## 5. Fairness

Weak fairness of goroutines only: the ticker of the lease, the goroutine of a drain, main,
boots that hold a closed channel, reapers, ping, timers. A goroutine that can run is scheduled
by the Go runtime, and none of these waits for a lock that another holds for good: every
critical section is short. Time passes: the grace and the backoff elapse. `os.Exit` of a drain
is part of its goroutine. Nothing is assumed of callers: no frontend has to connect, claim,
say goodbye, boot or send a signal, and no process has to die. `ShutdownAll` is taken to
return, since each stop is bounded by its graceful timeout and the kill. In the monitor a boot
is fair because its steps are a goroutine's; when it is cancelled is up to its caller.

In `Daemon` the ticker, the lease's drain call, the drains and the second half of an `AdoptOwner`
are fair. In `BmmEngine` the tick is: it is a goroutine that `Run` repeats on a ticker; no fault is
ever due, so the fairness is on ticks without one, and the engine may not wait for a call.
`PaidBlockJudged` asks in addition that calls stop coming.

In the migration the worker is a goroutine, and a frontend starts a daemon that is gone
(`DaemonStart`). `ResumeJob` is strongly fair: this is the user, who repeats the command that
was interrupted, as `ECASH_MIGRATION.md` tells him to; it is disabled again and again, by faults
and by the worker, hence strong. Nothing in the daemon resumes a job by itself, and without this
assumption `JobEnds` does not hold. Faults are bounded, so that they stop.

## 6. Where the code departs from what it says

Each is a run with one property, the promise as a comment or a test of the code states it.

- `daemon_stranded` / `UnattendedExits`: a boot that turns the drain of the fired lease into a
  keep leaves `drained` set, since only `SetOwner` clears it. When that frontend leaves too,
  the lease never fires again. (`lease/lease.go:176`, `shutdown.go:194`; the promise is in
  `shutdown_status_test.go:166`.)
- `shutdown_retire` / `RetireHappens`: `BeginShutdown(true)` is dropped when a drain is in
  flight; if that drain is kept, the port is never freed. (`shutdown.go:75` against
  `shutdown.go:120`.)
- `process_record` / `RecordKept`: the reaper frees the slot, then deletes the PID record by
  name; a start that comes between loses its own record. (`process.go:565`.)
- `monitor_respawn` / `StopStays`: a restart check that passed before a Stop forks after it.
  (`connection_monitor.go:607` against `orchestrator.go:719`.)
- `monitor_boot` / `BootSeesExit`: the boot looks its process up after the start returned and
  then waits for a connection only, when the child left the table in between.
  (`orchestrator.go:1626` against `orchestrator.go:2342`.)
- `bmm_overlap` / `PaidBlockNotLost`: a Stop and a Start while a tick is between the delete of a
  round and the next one leave the target without a tip; the next tick settles the round it opened
  as lost on its own parent, although the bid is in the mempool and is mined.
  (`engines/bmm_engine.go:210` against `:1277`.) The `bmm` run excludes this with
  `MayOverlap = FALSE`: a Start waits for the tick to end.

One more has no run of its own. `SetOwner` says it returns false once the lease fired
(`lease/lease.go:96`), but the first late claim clears `drained`, so a second claim is told that it
is in time while the drain of that firing may still exit. The windows are short: between the firing
and `RequestExit`, and between the drain's last unlock and `os.Exit`. `AdoptedStaysUp` therefore
speaks of a daemon whose late claims were neither refused nor overtaken; without `~overtaken` TLC
finds it violated with two claims.

The other half of it strands the daemon as a boot does. Frontend A claims in time and is still
before `CancelShutdownExit` when B claims too; B dies, the lease fires for B, and A's
`CancelShutdownExit` takes that drain's exit back although A is not the owner any more. `drained`
stays set, so the lease never fires again. This takes the time of two ticks between A's two calls,
which nothing in the code forbids. `strayKeep` names it together with the keep by a boot; if it
named only the boot, TLC would find `FiredLeaseEnds` and `UnkeptExits` violated with three frontends. The
finding that has a run is the boot's, which needs no such delay.

Nor has this one. `openRoundTips` takes the first open round of the file for the one in play, since
"the store lists the newest first" (`engines/bmm_engine.go:556`), and `ClearHistory` puts the round
in play back lest "the next tick would bid a second time on the parent a bid already covers"
(`:425`). The store lists first what was inserted last. If an older open round was parked because
its block could not be read, `ClearHistory` drops both, puts the round in play back, and the next
save of the parked round inserts that one in front. A restart then resumes the older round, and the
next tick bids a second time on the tip. TLC finds this with one block, three bids, three faults
and one restart, which is past the bounds of the `bmm` run; `NoSecondBid` therefore excepts an
engine that a restart ever misled this way (`misled`), and nothing else: this way to a second bid is
not ruled out by any property here.

`JudgedOnce` and `PaidBlockJudged` go by the file. A verdict that a crash kept from the file, or a save
that failed, leaves a round that a restart takes up and offers again: the code cannot know better, and
`JudgedOnce` does not call it wrong. A bid whose round never reached the file, or whose answer was lost,
is nobody's to judge after a restart, and `PaidBlockJudged` does not speak of it. Neither, nor any
other property of the `bmm` run, speaks of a Start inside a tick.

## 7. Proofs

`LeaseProofs` proves, from `LeaseAssumption` alone (finite sets of connections and holds, and
fewer consecutive misses than strikes), `LeaseTypeOK`, `CountsMatch`, `OwnerGoneIsDead` and
`LateClaimIsWarned`. None of the last two is inductive: that an owner is gone rests on two
ticks and on what lookups in flight will do. `LeaseInv` adds that the strikes against a live
owner are lookups that failed in a row, the answer in flight included (`StrikesAreMisses`),
that an answer about another pid than the owner's found no strikes (`OvertakenPoll`: the
handover wiped them, and the answer will be dropped), that a negative answer about a live
process is a miss (`MissSeen`), that strikes stop at the latch (`Latched`), and that between
the firing and the drain the owner is the dead one or a claim was warned (`FiredOrWarned`).

`ShutdownProofs` proves, from `ShutdownAssumption` (at least two drains), the type invariant,
`OneDrain`, `NoLostWakeup`, `KeptStaysUp` and `BootsAfterDrain`. `ShutdownInv` adds that the
drain in flight owns the idle channel unless it has retired (`IdleChannel`), that a channel
closes at the end of its drain (`ClosedAtEnd`), that a boot waits on the drain it saw or on
none (`WaitsOnSeen`), that no exit is due while a keep stands (`KeepStands`), that drains not
yet started have no goroutine (`NotYetStarted`) and that the signal has its drain
(`RoomForSignal`). The last is about the bound and not about the code: without it the bound
would let main skip its drain. From the invariant, `StepMaps` shows that every step is a step
of `DaemonLifecycle` or a stutter, and `Implements` that the machine refines it.

`BlockConvertProofs` proves `NeverRefuses`, `DoneIsStored` and `ConvertTypeOK` for the converter
on its own (`ConvertSpec`), from `ConvertAssumption` (every record has a file). What a preflight
finds depends on the order in which things reached the disk, so `ConvertInv` states that order:
every journal lists the original magics (`JournalsAreOriginal`), a record that moved has a
stored journal and never moves back (`RecordsMoveToTarget`), and a run past its second save
knows so (`RunKnows`). `MigrationProofs` carries it into the migration: `ConvertSees` shows that
every step of the migration is a step of the converter or a stutter. Its `MigrationInv` adds
that a counted step has its work on the disk (`JobsEarned`), that the files change only under a
saved job in its convert step and the record only under one in its select step
(`ChangesOnRecord`), that memory runs ahead of the disk and the worker ahead of memory
(`CopiesInOrder`), and what each point of the worker knows (`WorkerKnows`). From these,
`CoreStartsFit` shows that whoever starts a Core, worker or boot, starts one that fits the
files, and `StepFollowsFiles`, `SourceReadsSource` and `TargetReadsTarget` follow for any files,
records and branches and any number of faults (`MigrationAssumption` only says that the bound
is a number).

`DaemonProofs` first shows that each step of the composition is a step of the lease or a stutter,
and a step of the shutdown machine or a stutter (`DaemonImplementsParts`), so that everything proved
of the two, the refinement of `DaemonLifecycle` included, holds of the daemon. `AdoptedStaysUp` needs
more, since it relates the two: that a lease which fired and was not claimed has a dead owner
(`DrainedIsDead`), that frontends inside `AdoptOwner` are alive and have no verdict (`ClaimsAlive`),
that nothing but a drain ends this daemon (`EndsByDrain`), and that an ending under way is one the
lease knows of, or one that the late claim of the present owner is about to cancel (`EndingKnown`).
`FiredLeaseEnds` is the converse and holds over any number of claims: it follows from `FiringEnds`,
which adds the late claim that has cleared the latch and has not reached `CancelShutdownExit` yet.

`ProcessProofs` proves the five invariants of the process manager from an invariant about the
children whose goroutine still waits: such a child is in the table, or `Remove` lost one of that
slot (`WaitingTracked`), a slot with a start in flight has no such child (`SlotWasFree`), a live child
has its goroutine or is the run of the start in flight (`LiveHasKeeper`), and an adopting daemon has
no children yet (`AdoptsAlone`). `OneLiveChild` follows: two live children of one slot would both
have to be the entry of its table. `ExitChannelClosesLast` needs the record besides the table: a slot
that is taken shows the entry that last took it (`LatestTracked`), only a dead process leaves by its
goroutine (`GoneIsDead`), and the exit of one that left stays on record until another entry takes
the slot (`GoneOnRecord`).

`MonitorProofs` proves `ConnectedMeansAnswered`, `CrashReasonStays` and the types. The first rests on
`AnswerIsNew`: an answer that is still to be applied, and that no stop made stale, was given since
the last stop. The bound on restarts in the types needs `RestartBudget`: a timer past the gate is
counted before it claims a restart, since an old timer and a boot's new one may both be past it.

`BmmProofs` proves `PaidBlockNotLost` and the types of the BMM engine, for any number of blocks, bids,
attempts, failed reads and writes and crashes, from `BmmAssumption` and `~MayOverlap`: no Start
falls into a tick. (With one, `bmm_overlap` shows the property violated, so the assumption cannot be
dropped.) A round is judged by the block on its own tip only if the engine gets to it when the tip
is past it, and that rests on the target: before the tick moves on, and after it opened its round,
the target names the tip of the round in play, and between the two it names the new tip, whatever
Stop comes between and whichever failed save puts an old target back (`TargetFits`). From it
`TickFits` says that the tick read a tip past the round it settles. `RoundsFine` says of every
version of a round, in memory, in a queue of saves or in either file, that at most one of its bids
is live, that it has attempts left while it waits, and that if it is lost its block carries
none of its bids. That a round has one live bid rests on what is awaited while a bid is out
(`AnswerAwaited`) and on the numbers of the bids (`BidsNumbered`).

`JudgedOnce` and `NoSecondBid` relate what is in memory to what the store and the file still have of
it, and to what was done before. They follow, under the same assumptions, from a second invariant,
`BmmHistory`, which stands on the first. Its parts are of four kinds:

- whose bid is whose: a transaction is one bid and a commitment has one tip (`BidsNamed`), the bids
  of a round went out on its tip (`RoundsPlaced`), the bid whose answer is awaited belongs to the
  round in play and to no round that waits (`SentAwaited`), which is on the tip the tick read when it
  gets its opening bid (`PlacedOnTip`), and neither the store nor the file has two rounds on one tip
  (`OneRoundPerTip`);
- what the engine holds in memory: nothing of it was judged (`Unjudged`), and no two rounds share a
  block (`RoundsApart`), so that the verdict about one cannot be a verdict about another;
- what a restart would find: `Saving`, `StoreKnows` and `FileKnows` say that a round whose block was
  judged is settled in the version that is saved last, in the store's memory or in a save that is
  due, and, once `filed`, in the file; what was given up undecided or put back by `ClearHistory`
  (`putBack`) is the exception, and a restart takes it up again;
- which bid covers the tip, as long as no restart was misled: a live bid that the mempool keeps, in
  whatever version of a round, is the live bid of the round in play when it is on the tip
  (`Covered`), and the rounds that wait are behind it (`Behind`).

The steps of the tick that end a round are many and alike, so the proof first says what any of them
may do with one (`Handled`: the lemmas `RetryHandled` and `SettleHandled`), and the parts of the
invariant are shown to survive that. An offer is then a block of a round the tick took, which
`Unjudged` covers; a new bid goes out on the tip the tick read, where the file's live bid is the one
of the round in play by `Covered`, and it spends that one's coin.

All inductive invariants were model-checked on small instances too.

Only model-checked: every liveness property, since fairness and ENABLED are outside the prover's
reach. Every safety invariant and every action property that a passing run checks is proved.

## 8. What the models leave out

- Time is order, not durations: a grace, a backoff or a timeout elapses at any moment.
- `ShutdownAll` is one step in `Shutdown`; its stops are the actions of `ProcessManager`.
- The process table of `ConnectionMonitor` is one slot with the newest run. The full table is
  in `ProcessManager`, which has no monitor; their composition is not checked.
- The migration leaves out wallet files, wallet-only jobs, jobs below the fork, peers and mempool
  files, light mode and the external Core it refuses. One pair of networks is migrated once.
- A failed save of the job leaves the old file. `saveMigrationFile` can also fail after its
  rename, which is the case in which the save took place and the step then failed.
- `BeforeStart` and the fork of Core are one step. In the code a job could be saved between the
  two; its worker then finds Core running, and stops it or refuses the step (Core holds the locks).
- Core is taken to keep every invalidation it answered, and to hold the directory locks while it
  runs. A drain waits for a job, since its worker holds the client lease.
- A loss of power may take `bitcoin.conf` back, which is written without a sync; the settings
  and the job are synced before they are renamed.
- The BMM engine has one sidechain and one wallet, without amounts, rivals' bids, coin preparation
  (`prepareCoins`, `CanBid`), subscribers, a switch of the network, the cap of the store at 500
  rounds, and reorganisations. One Start or
  Stop is in flight at a time. A `SendTransaction` whose answer is lost leaves a bid that no round
  names. What `ClearHistory` copied while the tick settled the round is offered again after a restart.
- Windows, where a lookup opens a handle, has the same three outcomes of a lookup.
- Formatting, logging and metrics.
