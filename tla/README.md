# TLA+ for pasiv-core

This directory models and checks the parts of pasiv-core that decide where a
user's hashes go and who decides it: the fee engine
(`crates/pasiv-core/src/fee.rs`), the miner task of the headless node that enforces
it, the node's commands, signed self-update, engine, files and payout
(`pasivd/src/`), the state machine of a desktop lane, hardware detection, and the
threads of the in-process Verus miner. What is pure is written as operators; what
runs is a state machine with one action per handler, await point or write to disk.
TLC checks the state machines on small instances. TLAPS proves every safety property
and both implementations for every value of the constants: the bounds on the fee; that
the node's miner task obeys its owner and is a behaviour of the discipline those bounds
are proved for; the safety of its self-update, claim, engine, files and command link,
and of the desktop's lanes, hardware lists and Verus threads.

## 1. The system

| Part | State it keeps | Operations | Interacts with |
|---|---|---|---|
| fee schedule, affiliate share (`fee.rs`) | none (pure) | `slice_shape`, `in_fee_slice_for`, `fee_destination` | called by both consumers every tick |
| `SliceScheduler` (`fee.rs`) | `on_fee`, `slice_started_at`, `failed_returns` | `desired_for`, `confirmed`, `swap_failed`, `set_fee_address` | driven by the miner task; yields ledger events |
| fee ledger (`fee.rs`, `main.rs`) | `fee-ledger.jsonl` | `append_event`, `read_ledger`, `summary_of` | one line per closed slice |
| miner task (`cmd_run`) | `want_mining`, `tgt`, `payout`, `bin`, `miner`, `sched`, `last_hashrate`, `stats_misses`, `mining_secs`, the `stopped` flag | a 5 s tick: drain, reconcile process, stats, reconcile login, health, report | xmrig (process and local API), the event queue, the report channel |
| xmrig contract (`pasivd/src/xmrig.rs`) | xmrig's own pool list | spawn, summary, read-back, set user | an outside process, also driven by others |
| cloud link (`cloud_link`) | next poll, push counters, auto-pay address | poll, push, commands, completion, auto pay, daily update check | cloud, unMineable, the miner task (two channels) |
| claim and payout (`cmd_claim`, `startup_target`) | `/etc/pasivd.json`, `payout.json` | claim, startup poll, save, cached payout | cloud; a root CLI beside the service |
| self-update (`update.rs`) | `update/{pasivd, .minisig, .partial, pending-boots}` | `launch_staged_if_any`, `fetch_and_stage`, `mark_healthy`, `cmd_update` | release host, systemd, a root CLI beside the service |
| installer and unit (`install.sh`) | the installed binary, the unit | install, restart | systemd |
| desktop state machine (`state.rs`) | `MinerState` per lane | `transition`, `rollup` | the (closed) desktop supervisor |
| Verus engine (`verus.rs`) | job, target, extranonce, generation, `link_down`, queue, the workers' snapshots | stratum, reader and worker threads; stop, pause | a pool; the desktop's adapter |
| engine on disk (`ensure_xmrig`, `spawn_xmrig`) | `pasiv-rx`, `.partial`, the legacy `xmrig`, the run-time config file | fetch, verify, unpack, rename, retire, launch, `all_pools_use` | release host, the miner task, the builds of pasivd |
| state files (`write_private_atomic`) | `payout.json` and its temporary file | write, sync, rename, sync the directory | the disk |
| hardware (`hardware.rs`) | `LAST_GOOD` | `output_with_timeout`, `detect_gpus`, `decide_threads`, eligibility | vendor tools, sysfs, concurrent callers |
| doctor (`doctor.rs`) | none | verdicts | everybody's files, the cloud |
| profit, coins, addresses, etchash | none (pure) | formulas, formats | the snapshot, the desktop |

What is hard about it, and what makes each part correct:

* **The fee.** Time on the fee login is bounded only if returning from it works.
  The miner is an outside process that dies, stalls, loses answers and is
  rewritten by others; the scheduler knows only what it was told. Correct: never
  more than the slice plus the tolerated retries, never while paused, every
  window exactly 4 %, the ledger as the hashes went.
* **The miner task.** Eight await points a tick, at each of which the world may
  move; commands, crashes and restarts in any order. Correct: it follows the
  discipline, a stop is final, no hash for an old payout, recovery from anything.
* **Self-update.** Two programs under two users write the same four files, and
  either may be killed between any two writes, or in one; errors of the disk are
  ignored. Correct: only newer signed builds run, a bad build gets a bounded number
  of starts for every count the disk loses, and the node converges.
* **Verus.** Threads over three locks and four atomics, a reader per connection, and
  a pool that goes without a word. Correct: a worker that sees its generation hashes
  the values in force, a stop ends every thread, a lost link is noticed and replaced.
* **Commands.** Two tasks, two queues and a cloud between the owner and the miner:
  answers get lost, commands come again, an update restarts the process with its
  queues full. Correct: what counts as done was done, the last word wins, and the
  fleet shows what is so.
* **Engine and files.** Files written in several system calls, by a process that
  may die between any two, on a disk that may fill up or lose its power; builds that
  pin different engines. Correct: nothing but the pinned engine runs, no failure
  takes the last usable one, a state file is whole, and a cut ledger line costs
  one event.
* **A lane.** Its table is pure, but presses, verdicts and reports of the process
  are read in an order of their own, and a kill may fail. Correct: it never says that
  the user stopped it beside a process that runs, nor mining beside none.
* **Hardware.** Tools that hang, fail or hold a pipe open, and concurrent callers with
  one cache. Correct: no call hangs, no hang takes a card away.
* **Payout.** Two files with one truth at the cloud, a claim that changes the
  device under a running service. Correct: it pays who claimed it, mines without
  the cloud, follows the account.

`PROJECT.json` lists every component and every hazard at its line.

## 2. Modules

```
FeeSchedule            pure operators of fee.rs and SliceScheduler as records
  +- FeeDiscipline     the canonical tick, with an adversarial miner
  |    +- FeeAudit     ... observed by an auditor (history variables)
  |         +- Fee_proofs           TLAPS, of FeeAudit and FeeSession
  +- FeeSession        what one session pays, real slice shapes
  +- NodeLoop          pasivd's miner task; implements FeeDiscipline (INSTANCE)
       +- NodeLoop_proofs           TLAPS
SelfUpdate             staging, launching and checking in
  +- UpdateMemory      what the launcher forgets (section 4; in no run)
  +- SelfUpdate_proofs              TLAPS
Unmineable             addresses, assets and logins
  +- Payout            claims, payout files, polls, auto pay
       +- Doctor       its verdicts, beside the service they speak of
       +- Payout_proofs             TLAPS
CloudLink              commands, completions, pushes, updates
  +- CloudLink_proofs               TLAPS
Engine                 the engine's files, config, process and logins
  +- Engine_proofs                  TLAPS
Register               an atomic register over a disk
NodeFiles              payout.json and the ledger, call by call; implements Register
  +- NodeFiles_proofs               TLAPS
MinerState             the table of a desktop lane, beside its process
Hardware               probes, last-good list, threads
VerusEngine            the threads of the Verus miner
Desktop_proofs         TLAPS, of MinerState, Hardware and VerusEngine
MC*                    the constants of TLC's instances
```

Modules whose proofs share a module name their top-level definitions after themselves
(`SessionInit`, `LaneInit`, `HardwareInit`), so that they can be extended together.

**FeeSchedule.** `SliceShape`, `SliceAtWindowEnd`, `Desired`, `FeeDestination` are
the functions of the same names; `Confirmed`, `ClosesSlice`, `SwapFailed` and
`MustStop` are the methods of `SliceScheduler` as functions of its record. Wall
time is kept as the age of the open slice, the only thing the code takes from it.
Definitions marked *Slip* are plausible mistakes in the definition that follows
them; they belong to no behaviour and are kept to show that a property notices.

**FeeDiscipline** is the abstract specification: what fee.rs asks of every
consumer of the scheduler (the conformance test at fee.rs:909). A tick observes the
miner, then reads its login back or swaps it. A swap is `ok`, `late` (applied,
answer lost), `refused`, or `lying` (not applied, answered 2xx). The miner may
die, be dropped, respawn, or be rewritten by others at any point; others never
know the fee login.

**FeeAudit** adds history variables: hashing ticks on the fee login in this
window (`charged`), reconciles in a row that wanted the user and left a live
miner on the fee login (`overstay`), ticks not yet covered by a line (`paid`),
and the last line. `AuditRefinesDiscipline` proves that it restricts nothing.

**FeeSession** asks the schedule once per tick, with the real shapes (500/20 s
and 15 000/600 s), while the affiliate pin changes, expires or is removed.

**NodeLoop** is `cmd_run`, one action per await point: `Wake`, the four event
handlers, `SpawnMiner`/`SpawnFails`/`KillStopped`/`ReapExited`/`KeepMiner` for the
`match (miner, want_mining)`, `StatsAnswered`/`StatsMissed`, `PoolsOnTarget`/
`PoolsNotOnTarget`, `SetUserOk`/`SetUserFailed`, `Report`. Mining time is kept
modulo the window. The environment kills the miner or the daemon, rewrites
logins, fails spawns and delivers commands and payouts, until it becomes `calm`
(if it ever does).

**SelfUpdate** makes every write to disk a step: `WritePartial`, `WriteSignature`,
`Rename`, `ResetPending`, `Chown` for staging (by the service and by
`pasivd update`), `Decide`, `DiscardBinary`, `DiscardSignature`, `DiscardCount`,
`CountBoot`, `Exec` for launching. Until the world is calm a write may leave its file
as it was (a read-only mount) or torn (a full disk, a kill: `Tear`, `Cut`,
`WriteFails`), a removal may fail, and where the code ignores the error it goes on:
`WritePending` writes the count, leaves it, or leaves it torn, which `read_pending_boots`
reads as 0. Root's files are tracked (`rootOwned`), because the service may remove
but not rewrite them. Assumed: the directory is the service's; systemd's 10 s outlast
the local steps of a `pasivd update`; a reinstall puts a working release in place and
nobody runs `pasivd update` during it. What a power cut takes of files that nobody syncs
is left out. **UpdateMemory** adds two histories and what update.rs says of them.

**Payout** gives the account, the claims and the two files: `ClaimWrite`,
`ClaimHand`, `ClaimRemoveCache`; `Start`, `StartupClaimed`, `StartupUnheard`;
`LinkPoll`, `TakePayout`, `Mine`, `AutoPay`. An address has an id at unMineable once
it has mined (`mined`); `ensure_auto_pay` infers the asset from the address as it was
written, while the login is made of it trimmed. A payout is an account-wide and a Monero
address, each present or not and the former valid or not (`Unmineable`); each account has
addresses of its own. A start in the milliseconds of a claim's last steps is left
out. **Doctor** gives the verdicts of `pasivd doctor` on the owner of the config, the
payout and the cloud as functions of the same state, and `DoctorForetells` compares
them with what the next start does.

**CloudLink** is `cloud_link` and the event loop of `cmd_run` beside it. `Push`,
`Complete` and `DailyCheck` are arms of the `select!`; the commands of an answer are
handled one by one (`HandOn`, `Update`) before the next arm; `Apply`, `Report` and
`RestartForUpdate` are the miner loop's. The cloud is external: it returns a command
with every push until it is completed or expires. A request that fails may have
been heard.

**Engine** makes every step of `ensure_xmrig` (`Check`, `Retry`, unpacking, hashing,
the rename, `retire_legacy_xmrig`) and of `spawn_xmrig` an action; which build
starts, and hence what is pinned, changes at `Boot`. The config file ends up read-only
or, because `make_read_only` is best effort, writable (`WriteRuntimeConfig`), and then
xmrig's saves make it grow; a spawn may fail before, at or after that file (`SpawnFails`). A `PowerCut` takes back what was
renamed and not yet written back. The login of a running miner is kept per pool
(`users`), and the pool it works on changes by itself (`FailOver`).

**NodeFiles** is `write_private_atomic` and `append_event` call by call; a ledger is a
sequence of texts, whole or torn, and newlines. `File == INSTANCE Register WITH
value <- file` states what the former promises: **Register** holds a whole value, and
after a power cut one that it held since the disk last caught up.

**MinerState** has `transition` as the operator `Transition`, and `Rank`, `Rollup` and
`Label`. Supervisor, governor and user are outside the repository and modelled from
what the inputs' comments say of them; what a process reports waits in a queue.
Wherever a process is ended (`End`: a stop, a restart, a park, the fee fail-safe, a
start over what was left) even the force-kill may fail, and then the supervisor
reports it with the one input there is for it, `BackoffExhausted(stop_failed)`.

**Hardware** has one probe per caller: `SpawnTool`, the child's end, the end of its
output, the deadline, `Collect` or `Kill`, `Merge`. On Linux the AMD half reads sysfs.
`DecideThreads` and `Eligible` are the pure functions.

**VerusEngine** has the stratum thread (`Connect`, `Handshake`, `CheckLink`,
`SubmitShare`, `Shut`, `Join`), the reader of the connection (a value is stored in
`ReadSubscribed`, `ReadSetTarget` or `ReadNotify` and announced by `Bump`) and the
workers (`LoadGen`, `LoadJob`, `LoadExtranonce`, `LoadTarget`, `Hash`). Each load or
store that another thread can come between is a step; a chunk of hashes is one.
Of `gen`, a counter that only grows, the model keeps what a worker asks of it: has
it moved since the generation it works under, and since it last loaded it. The
backoff is a delay without effect. Left out: a write that blocks on a peer which stops
reading (the stratum thread then sees neither a stop nor a dead link until TCP gives
up), and the time a connection attempt takes, which has no limit but the system's. A header is the job and the extranonce it is
assembled from; the pool's answers to shares are left out.

## 3. Runs

| Run | Bounds | States | Shows |
|---|---|---|---|
| `fee_audit` | window 8, slice 3, 3 retries | 110 k | the bounds on the fee and the exact ledger |
| `fee_session` | 4 windows, decisions every 10 s | 1.03 M | at most 4 %, exactly 4 % per window, the affiliate's share |
| `node_loop` | window 6, slice 2, 2 targets, 1 queued event, 2 warm-up ticks | 307 k | the miner task implements the discipline, obeys stops, recovers |
| `self_update` | releases 0..2, one broken, 2 pending boots, 1 lost count told apart | 1.46 M | only newer signed builds, bounded tries for every lost count, convergence |
| `payout` | 2 owners, 3 + 1 payouts, one written with spaces, 1 re-claim | 255 k | pays who claimed, mines without the cloud, follows the account, as the doctor says |
| `cloud_link` | 2 commands, 1 release, 1 message waiting | 248 k | done was done, the last word wins, the fleet sees it |
| `engine` | 2 pinned engines, 2 pools | 29 k | only the pinned engine, never without one by its own doing, one side on every pool |
| `node_files` | 2 values, 3 events | 463 k | the state file is a register, the ledger loses only cut appends |
| `miner_state` | 1 lane, 2 pause reasons, 3 queued reports | 5.6 k | stopped without a process, mining with one, no lane stuck |
| `hardware` | 2 callers, 2 vendors, 2 platforms, 1 real core of 2, 2 caches | 484 k | probes end, hangs hide no card, threads fit |
| `verus_engine` | 1 worker, 2 connections with 1 job, 1 target each, 1 queued share | 203 k | consistent snapshots, stop, recovery from lost links |
| `payout_claim` | as `payout`, the service keeps running | | `PaysWhoClaimed` fails |

`LoopInv`, `UpdateInv`, `PayoutInv`, `LaneInv` and `HardwareInv` conjoin the type invariant
of their module with a safety invariant defined just before them.

Why the bounds are enough. The discipline depends on a window only through its
slice, the position before it, and the retry budget: with 8/3/3 a slice may be
left early, crossed by stalls, or outlive its window, and a budget fits between
two slices; the theorems cover every other shape. `fee_session` needs four windows
because the affiliate's share has that period; the theorems have no bound on
time. `node_loop` needs two targets to tell an old one from the one in hand; the
queue holds one event because its handlers touch the loop's state alone and later
events are drained later. `self_update` needs three releases for an installed, a
staged and a newer one, with a broken one between them; two pending boots, for a start
that is counted after one that was not; and one lost count, which already shows each way
to lose it (the theorem has no bound). `payout` needs an
account that moves between an account-wide address, a Monero address and none,
a second owner to claim the node away, and an address with spaces around it. `cloud_link` needs two commands, for
an older one that comes after a newer, and a release for the restart between them;
a longer queue only repeats it, and the theorems have no bound. `engine` needs two
pins for an update and a rollback, and a pool to fail over to. `node_files` needs a
whole line before a torn one and one after it. `miner_state` has one lane, because lanes
share no state; the roll-up is checked over all pairs of states by an assumption of
its MC module. `hardware` needs two callers for an older answer that is merged after a
newer one, and a core and a cache that may be unreadable. `verus_engine` needs two
connections, for values of the old one in a session of the new; one worker,
because workers write nothing another worker reads; and one queued share, enough
for a write that fails.

Bounds of the models: `MaxWindows` (length of a session), `MaxInbox`, `WarmTicks`,
`MaxVersion`, `MaxLost`, `MaxClaims`, `MaxCmds`, `MaxReleases`, `MaxBacklog`, `MaxEvents`,
`MaxSession`, `MaxJobs`, `MaxRetarget`, `MaxQueue`; the history counters `tries`
and `lost` stop one above their bounds.

Fairness. `NodeLoop`: weak fairness of the daemon as a whole, because tokio keeps
polling the task and systemd restarts the unit (`Restart=always`); none for the
environment: `SelfHeals` speaks of behaviours that become calm, `FeeReturns`
of all. `SelfUpdate`: the launcher, each stager's next step, and the restart; the
service repeats its check daily, and nobody holds a `pasivd update` half-way for
ever. `Payout`: restart, startup polls, link polls, draining, mining's first
record at unMineable, auto pay, and a claim
that is not killed finishes; `Settle` is fair so that the environment settles,
with the cloud up or down. `CloudLink`: the loop ticks, the push's interval comes
round, systemd restarts; strong fairness of the two arms of the `select!`, which
picks among ready arms at random. `Engine`: systemd's start and the loop's retry.
`MinerState`: reports are read and a stop is carried out. `Hardware`: the caller runs
and time passes, no tool need end. `VerusEngine`: every thread is scheduled and its sleeps
end; a calm pool answers the subscription and gives a job; hashing finds shares
again and again, and writes to a peer that is gone fail in the end (strong
fairness, for these happen only sometimes when they may: chance, and TCP's own
timeout). `Recovers` excludes a silent link while no worker has anything to hash:
nothing is written then, the reader has no timeout, and the engine waits for ever.

## 4. What does not hold

`payout_claim`: main.rs:478 says a payout cached from the previous owner must not
outlive a re-claim; the running service saves the old owner's payout again, and the
cache is preferred to the new config.

Stated in the modules and refuted by TLC under the constants of the module's .cfg
(`NoncesUsedOnce`, an action property, with `Space = 8` and `MaxRetarget = 2`), in no run:

* `EverySliceWritten` (FeeAudit; docs/FEES.md:261): a miner killed, reaped, or stopped
  by the fail-safe in mid-slice takes its open slice with it; that fee time is in no
  ledger line.
* `CorruptHidesNothing` (NodeFiles; fee.rs:484): `writeln!` writes a line's end by a
  second call; when the process dies in between, the next event is appended to the
  torn line and hidden with it.
* `IdleIsStopped` (MinerState; state.rs:35, 167): the fee fail-safe leads to Idle at once,
  with no Stopping in between, and a kill that fails is reported to a lane that has no
  arm for it any more; and an Error(stop_failed), whose process runs by definition, is
  Idle(gave_up) once dismissed. `LaneInv` keeps the other two reasons of Idle. (Listed
  as a finding beside the run `miner_state`.)
* `ProvenIsKept`, `AbandonedStaysAway` (UpdateMemory, with the constants of
  SelfUpdate.cfg; update.rs:12, 39): the start count
  knows neither that a build has checked in before, nor that a release was given up.
* `NoncesUsedOnce` (VerusEngine; verus.rs:341): the nonce counter starts over on every
  generation, also with the same header: when a worker has read a value between its
  store and the bump, or when only the target moved. Shares already found are found
  and submitted again.

Met on the way:

* With `"lying"` in `PutOutcomes`, `fee_audit` violates `ReturnBounded`, because any 2xx
  answer of xmrig's config PUT counts as a confirmation and resets the fail-safe.
* With `FlagMayFail`, `node_loop` violates `StopIsFinal`, because a stop is acknowledged
  though its flag could not be written. Neither that flag nor the removal of
  `payout.json` by a claim is synced, so a power cut may undo them.
* With `WarmTicks = 3` the node never recovers: an xmrig whose API answers later than
  two ticks after a spawn is killed by the fail-safe and respawned for ever.
* update.rs:39 gives a staged build MAX_PENDING_BOOTS starts. `write_pending_boots`
  truncates the count before it writes it and ignores every error, and a count that is
  empty is read as 0: `tries <= MaxPendingBoots` is refuted, also while the service owns
  all its files, and a disk that stays full lets a build that never checks in start for
  ever. `BoundedTries` says what is left: as many starts again for each count lost.
* An account-wide address with spaces around it mines, because the login trims it, but
  `ensure_auto_pay` infers the asset from it untrimmed (main.rs:1321) and returns: such an
  address never gets auto pay, and `KeepsMining` promises it only where the two agree.
* "The file stays this small http block for the miner's whole life" (core xmrig.rs:73-74)
  holds only if the file could be made read-only; `make_read_only`'s error is ignored, as
  the same comment says.
* The auto-pay address is captured once per process (main.rs:886): an account-wide
  address learnt while the node runs has no auto pay until the service restarts.
* A completion that fails is ignored (main.rs:1184): an old start may be redelivered after
  a newer stop was completed, and then it is in force.
* With `KillTakes = FALSE`, `hardware` violates `ProbeEnds`: the wait for a killed child has
  no deadline (hardware.rs:65). An output cut at the deadline counts as a complete
  answer and shortens the last-good list; without `nvidia-smi` no answer is ever
  complete, and the list is what the AMD half found this time.
* Of lanes that are all idle the roll-up keeps no reason: a fail-safe of every lane
  reads like a fresh start.
* The doctor's cloud check passes with "claimed and linked" on any answer that is not
  an error (doctor.rs:268-275), and the doctor of the installed binary compares the
  engine's file with its own pin while a staged build with another may run.
* `est_usd_day` is a gross figure, though profit.rs:45 says an estimate must never show
  revenue the user does not receive; `net_score` has no caller in pasivd.
* `write_private_atomic` syncs the directory as far as it can and reports success either
  way; temporary files of other processes are never removed.
* The engine subscribes to extranonce changes (verus.rs:268) and has no case for one
  (192-218). `docs/ARCHITECTURE.md` and `docs/TESTING.md:56` still put the slice at the
  start of the window, the code (fee.rs:46-53) at its end.

## 5. Proofs

`Fee_proofs` proves of FeeAudit, for every `Window`, `Slice` and `MaxRetries` the
assumptions of FeeDiscipline admit (`0 < Slice < Window`, the retry budget fits
between two slices) and every set of honest swap outcomes (`Honest`: none lies),
`AuditTypeOK`, `ReturnBounded`, `ChargedOnlyWhileMining`, `FeeWithinSchedule`,
`LineBounded` and `LedgerExact`, and that the auditor restricts no step.

None of them is inductive. `ReturnBounded` needs that the auditor's count of
overstays never exceeds the scheduler's (`OverstayInv`). `FeeWithinSchedule` needs
to know what has been charged at each position of the window (`ChargeInv`): before
the slice only failed returns left from the last window, in it one more per
position. `LineBounded` needs the age a slice may have by position (`SliceInv`,
`Allowance`), and `LedgerExact` that an undisturbed scheduler knows where its miner
is and that its clock is the auditor's (`LedgerInv`). `IInv` conjoins these, and each
action preserves each conjunct (one step per action).

`Fee_proofs` proves the four statements of FeeSession, about sessions of any length, for
every tick that divides the shorter slice. The invariant `SessionInv` gives the
fee paid as a function of mining time (`FeeDue`) and the affiliate's part likewise
(`AffiliateDue`); the arithmetic of one tick is a lemma about div and mod.

`Desktop_proofs` proves of VerusEngine type correctness, `CaughtUp` and `LinkDownIsOurs` for any
number of workers, connections, jobs and targets. `CaughtUp` is not inductive: it
needs that a worker in the middle of its three loads holds values still in force,
unless gen has moved since it began or the reader is about to move it (`LoadInv`),
and that no store can be pending when a session starts, because the last reader
has been joined (`ReaderInv`, which `LinkDownIsOurs` needs too).

`Engine_proofs` proves, for any set of pins and pools, that only the pinned engine
runs, that the miner pays where a read-back found it to pay, and the action property
`KeepsAMiner`. `IInv` adds to them what the steps
between verification and launch may rely on: what has been verified is the pin
until the next boot, and a side that is known is the login of every pool.

`CloudLink_proofs` proves type correctness and `AckedWasObeyed` for any number of
commands, releases and waiting messages. The invariant (`AnswerInv`) adds that every
completion with ok that waits to be posted is of a command that was applied, and
that whatever is queued was given: a redelivered, expired or repeated command
changes neither.

`NodeFiles_proofs` proves `ImplementsRegister`: initial states map to initial states, and
each call is a step or a stutter of Register. It rests on `RenamesWhatIsSynced`: what
is renamed over the file is whole, is the value asked for, and is on the disk. It also
proves `LedgerTold` for any number of slices. A hidden event was appended to a line that
had begun, hence right after a text without an end, a different one for each; so it is
enough that there are no more of those than appends that were cut (`CutsAreCounted`, the
text in hand apart). That is inductive with: an event has one text, what was told is
whole and has its newline (`ToldIsWhole`, which a power cut keeps because it cuts a
suffix), and an end is due only right after its text. The line's first text, where the
doctor fails, is the least position of an unbroken run of texts.

`NodeLoop_proofs` proves `LoopInv`, `NoStaleTarget`, `StopIsFinal` and
`ImplementsDiscipline` for every slice shape, retry budget, set of targets, warm-up and
queue length. `HandInv` is the invariant: no process without its handle, and the
process is on a login of the target in hand, which a change of payout preserves only
because it drops the miner first. `StopInv` adds that a heard stop is in the loop's
memory and in the flag. Two assumptions: `StopIsFinal` needs a flag that can be written
and removed (`FlagHolds`; section 4 says what happens otherwise), and the step to
FeeDiscipline needs `MayRefuse`, that a swap may be refused, because a swap put to an
xmrig that is not up yet is unanswered, which the discipline calls refused. By
`FollowsTheDiscipline` the bounds FeeAudit proves hold of pasivd, whose ticks,
crashes, updates and commands are steps of the discipline or do not touch it.

`SelfUpdate_proofs` proves `UpdateInv` and `BoundedTries` for any number of releases and
any `MaxPendingBoots`. Neither is inductive: the launcher decides, and several writes later
runs what it finds in the file. `LaunchInv` says why that is still what it chose. Only a
running service stages, so a launcher has but a `pasivd update` beside it
(`ProcessInv`), and what that is about to rename over the chosen build is whole and newer
than the launcher, because it was begun after the launcher started and nobody else writes the
partial file meanwhile (`RaceInv`); so the choice stands (`ChosenInv`). `CountInv`:
the file accounts for the starts that `tries` counts, but for MaxPendingBoots of them
per count that was lost: each loss sets the file back by no more than it held.

`Payout_proofs` proves the types without assumptions, and `PayoutInv` where a claim stops
the running service (`Stops`, the assumption `StopsService`; `payout_claim` shows that it fails
otherwise, section 4), for any accounts and any number of claims, each of which may die at
any step. `ClaimInv`: a claim that is under way has the node for itself and is not whole;
`FileInv`: the config, the cache once a claim is whole, the payout in hand and
those on their way to the loop are of the account the device belongs to.

`Desktop_proofs` proves `LaneInv` for any number of lanes and of unread reports. What a
lane says and what its process does differ as long as reports are unread, so the invariant
(`LaneOK`) relates three things, the state, the process and the queue: a report of an
exit is true and the last thing said of that process, one that would not go has said
only that, no word of a stop is read in a state without a use for it, word of hashing is followed by
the exit if there has been one, and a process that is held is in a lane that is
paused or stopping. Lanes share no state (`OneLaneMoves`), so one lane is enough.

It proves `HardwareInv` and `ListedUnlessTold` of Hardware for any cards, callers and limits.
The assumptions on constants are those of the types: finitely many cards, VRAM and limits
that are naturals. `ProbeInv` accounts for the cards: what a caller lists, or will merge, leaves
out only what a tool's own answer left out, and so does the last-good list. That a
gate of VRAM does not close needs the largest card of a set to exist: the set of the
larger cards is smallest for it, and strict inclusion of finite sets is well founded.

Only model-checked: the liveness properties, that is `FeeReturns`, `SelfHeals`, `Converges`,
`KeepsMining`, `FollowsAccount`, `DoctorForetells`, `Stops`, `Recovers`, `OwnerWins`,
`FleetSeesIt`, `StopEnds`, `PausedMoves`, `ProbeEnds` and `EngineComes`; TLAPS does
not prove liveness under fairness, or ENABLED. Every other property of a passing run is a
theorem.

## 6. Not modelled

The checksums of addresses, the parsing of vendors' tools and of xmrig's statistics;
the tables of coins, the choice among them and etchash sizing, which only the desktop
uses; price arithmetic beyond whether an estimate exists; `ui.rs`, `scrub.rs` and
`sentry.rs`; the checks of the doctor that look at the machine; the installer's shell;
the vendored hash. The desktop supervisor is not in this repository. The bytes of a
Verus header are left to the code's tests.

## 7. Plan

Done, in this order: FeeSchedule, FeeDiscipline, FeeAudit, FeeSession and their proofs,
NodeLoop, SelfUpdate, Payout, VerusEngine and its proofs, MinerState, CloudLink, Hardware,
Engine, NodeFiles, Doctor, and the proofs of CloudLink, Engine, NodeFiles, NodeLoop,
SelfUpdate, Payout, MinerState, Hardware and the ledger.

Next: what the doctor's verdicts say of the state they are given, as theorems beside the
liveness that TLC checks; the steps that a lane and a node can never take back
(a claim that is whole, a build that is older than the installed one) as action
properties.
