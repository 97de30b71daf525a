----------------------------- MODULE NodeLoop ------------------------------
(***************************************************************************)
(* The miner task of pasivd (pasivd/src/main.rs, cmd_run): every 5 s it    *)
(* drains the events of the cloud link, reconciles the xmrig process with  *)
(* what the owner wants, reads the miner's stats, and reconciles the pool  *)
(* login with the fee schedule.  One action per await point, so that the   *)
(* miner, the machine and the cloud act between any two of them.           *)
(*                                                                         *)
(* The environment: xmrig may die or stay silent (it is silent for         *)
(* WarmTicks ticks after a spawn), others may rewrite its login, a spawn or *)
(* a download may fail, the daemon may be killed at any point.  systemd    *)
(* kills the daemon's whole control group and starts it again, so no xmrig *)
(* outlives the daemon.  Once `calm`, none of these happens any more and   *)
(* the owner stays silent: what the node must then come to is SelfHeals.   *)
(*                                                                         *)
(* Events reach the queue only while the task sleeps: nothing reads the    *)
(* queue in between, so an earlier arrival behaves the same.  Outside the  *)
(* model: sentry, the report's share counts, and the rollback health of    *)
(* the build (module SelfUpdate).                                          *)
(***************************************************************************)
EXTENDS FeeSchedule, Sequences

CONSTANTS
  Window, Slice,  \* the HotSwap slice shape, in 5 s ticks
  Targets,        \* mining targets the account's payout may map to
  PutOutcomes,    \* what a swap of the login may do, as in FeeDiscipline
  FlagMayFail,    \* may writing or removing the `stopped` flag file fail?
  WarmTicks,      \* ticks a fresh xmrig takes before its API answers
  MaxInbox        \* bound on the event queue

ASSUME NodeAssumption ==
  /\ Window \in Nat /\ Slice \in Nat /\ 0 < Slice /\ Slice < Window
  /\ MaxRetries <= Window - Slice
  /\ PutOutcomes \subseteq {"ok", "late", "refused", "lying"}
  /\ FlagMayFail \in BOOLEAN /\ WarmTicks \in Nat /\ MaxInbox \in Nat

StatsMissesUnknown == 2

VARIABLES
  pc,        \* "down", "sleep", "drain", "reconcile", "stats", "level", "put", "report"
  inbox,     \* events_rx
  want,      \* want_mining
  stopFlag,  \* the `stopped` file exists
  tgt,       \* tgt
  bin,       \* a usable xmrig binary is known
  held,      \* miner.is_some()
  alive,     \* the xmrig process runs
  warm,      \* ticks until its API answers
  login,     \* its pool login: [side, tgt]
  hash,      \* last_hashrate > 0
  misses,    \* stats_misses, up to StatsMissesUnknown
  pos,       \* mining_secs in ticks, modulo Window
  sched,     \* sched
  report,    \* the state last sent on report_tx
  calm,      \* the environment has become benign for good
  ownerStop  \* history: the owner's last acknowledged command is a stop

daemonVars == <<want, tgt, bin, hash, misses, pos, sched>>
minerVars  == <<held, alive, warm, login>>
ownerVars  == <<stopFlag, ownerStop>>
vars == <<pc, inbox, report, calm, daemonVars, minerVars, ownerVars>>

Event == [kind : {"start", "stop", "other", "restart"}, tgt : {"none"}]
           \cup [kind : {"payout"}, tgt : Targets \cup {"none"}]

InSlice == SliceAtWindowEnd(pos, Window, Slice)
Want    == Desired(hash, InSlice)
Wanted  == [side |-> Want, tgt |-> tgt]   \* side_address(want, &tgt)

Init ==
  /\ pc = "down" /\ inbox = <<>> /\ report = "none" /\ calm = FALSE
  /\ want = TRUE /\ tgt \in Targets /\ bin = FALSE
  /\ hash = FALSE /\ misses = 0 /\ pos = 0 /\ sched = FreshScheduler
  /\ held = FALSE /\ alive = FALSE /\ warm = 0
  /\ login = [side |-> "User", tgt |-> tgt]
  /\ stopFlag = FALSE /\ ownerStop = FALSE

----------------------------------------------------------------------------
(* The daemon starts and dies.                                              *)

\* Slip: a fresh process always mines.
BootForgetsStop ==
  /\ pc = "down"
  /\ pc' = "sleep"
  /\ want' = TRUE
  /\ tgt' \in Targets
  /\ bin' \in (IF calm THEN {TRUE} ELSE BOOLEAN)
  /\ UNCHANGED <<inbox, report, calm, hash, misses, pos, sched, minerVars, ownerVars>>

\* A new process: the payout comes from the poll or the cache, the stop from its flag.
Boot ==
  /\ pc = "down"
  /\ pc' = "sleep"
  /\ want' = ~stopFlag
  /\ tgt' \in Targets
  /\ bin' \in (IF calm THEN {TRUE} ELSE BOOLEAN)
  /\ UNCHANGED <<inbox, report, calm, hash, misses, pos, sched, minerVars, ownerVars>>

\* The process is gone: its memory, its queue and its control group with it.
Gone ==
  /\ pc' = "down" /\ inbox' = <<>> /\ report' = "none"
  /\ held' = FALSE /\ alive' = FALSE /\ warm' = 0
  /\ hash' = FALSE /\ misses' = 0 /\ pos' = 0 /\ sched' = FreshScheduler
  /\ UNCHANGED <<want, tgt, bin, login, calm, ownerVars>>

Crash == pc # "down" /\ ~calm /\ Gone

----------------------------------------------------------------------------
(* The environment.                                                         *)

Settle ==
  /\ ~calm
  /\ calm' = TRUE
  /\ UNCHANGED <<pc, inbox, report, daemonVars, minerVars, ownerVars>>

Deliver(e) ==
  /\ pc = "sleep" /\ ~calm /\ Len(inbox) < MaxInbox
  /\ inbox' = Append(inbox, e)
  /\ UNCHANGED <<pc, report, calm, daemonVars, minerVars, ownerVars>>

MinerDies ==
  /\ alive /\ ~calm
  /\ alive' = FALSE
  /\ UNCHANGED <<pc, inbox, report, calm, daemonVars, held, warm, login, ownerVars>>

OthersRewriteLogin ==
  /\ alive /\ ~calm
  /\ login' \in {[login EXCEPT !.side = s] : s \in {"User", "Other"} \ {login.side}}
  /\ UNCHANGED <<pc, inbox, report, calm, daemonVars, held, alive, warm, ownerVars>>

----------------------------------------------------------------------------
(* Draining the events.                                                     *)

Wake ==
  /\ pc = "sleep"
  /\ pc' = "drain"
  /\ UNCHANGED <<inbox, report, calm, daemonVars, minerVars, ownerVars>>

Take(kind) ==
  /\ pc = "drain" /\ inbox # <<>> /\ Head(inbox).kind = kind
  /\ inbox' = Tail(inbox)

\* The flag file after an attempt to make it say `stopped`; the error is ignored.
FlagAfter(stopped) == {stopped} \cup (IF FlagMayFail THEN {stopFlag} ELSE {})

\* Slip: a start clears the flag for the next boot and forgets the running loop.
OnStartNextBoot ==
  /\ Take("start")
  /\ stopFlag' \in FlagAfter(FALSE) /\ ownerStop' = FALSE
  /\ UNCHANGED <<pc, report, calm, want, tgt, bin, hash, misses, pos, sched, minerVars>>

OnStart ==
  /\ Take("start")
  /\ want' = TRUE /\ stopFlag' \in FlagAfter(FALSE) /\ ownerStop' = FALSE
  /\ UNCHANGED <<pc, report, calm, tgt, bin, hash, misses, pos, sched, minerVars>>

OnStop ==
  /\ Take("stop")
  /\ want' = FALSE /\ stopFlag' \in FlagAfter(TRUE) /\ ownerStop' = TRUE
  /\ UNCHANGED <<pc, report, calm, tgt, bin, hash, misses, pos, sched, minerVars>>

OnOther ==
  /\ Take("other")
  /\ UNCHANGED <<pc, report, calm, daemonVars, minerVars, ownerVars>>

\* Slip: the new target waits for the miner's next spawn.
OnPayoutKeepsMiner ==
  /\ Take("payout")
  /\ tgt' = IF Head(inbox).tgt \in Targets THEN Head(inbox).tgt ELSE tgt
  /\ UNCHANGED <<pc, report, calm, want, bin, hash, misses, pos, sched, minerVars, ownerVars>>

\* A payout that maps to no target, or to the target in hand, changes nothing here.
OnPayout ==
  /\ Take("payout")
  /\ LET new == Head(inbox).tgt
     IN IF new \in Targets \ {tgt}
        THEN /\ tgt' = new
             /\ held' = FALSE /\ alive' = FALSE /\ hash' = FALSE
        ELSE UNCHANGED <<tgt, held, alive, hash>>
  /\ UNCHANGED <<pc, report, calm, want, bin, misses, pos, sched, warm, login, ownerVars>>

\* restart_for_update: kill the miner and exit, whatever is still queued.
OnRestartInto ==
  /\ pc = "drain" /\ inbox # <<>> /\ Head(inbox).kind = "restart"
  /\ Gone

Drained ==
  /\ pc = "drain" /\ inbox = <<>>
  /\ pc' = "reconcile"
  /\ UNCHANGED <<inbox, report, calm, daemonVars, minerVars, ownerVars>>

----------------------------------------------------------------------------
(* Reconciling the process with what the owner wants.                       *)

\* Slip: the scheduler of the last miner serves the next one.
SpawnKeepsScheduler ==
  /\ pc = "reconcile" /\ ~held /\ want
  /\ held' = TRUE /\ alive' = TRUE /\ warm' = WarmTicks
  /\ login' = [side |-> "User", tgt |-> tgt]
  /\ bin' = TRUE /\ misses' = 0
  /\ pc' = "stats"
  /\ UNCHANGED <<inbox, report, calm, want, tgt, hash, pos, sched, ownerVars>>

\* (None, true): re-fetch a missing binary when its retry is due, then spawn.
SpawnMiner ==
  /\ pc = "reconcile" /\ ~held /\ want
  /\ held' = TRUE /\ alive' = TRUE /\ warm' = WarmTicks
  /\ login' = [side |-> "User", tgt |-> tgt]
  /\ bin' = TRUE /\ sched' = FreshScheduler /\ misses' = 0
  /\ pc' = "stats"
  /\ UNCHANGED <<inbox, report, calm, want, tgt, hash, pos, ownerVars>>

\* No binary and no (successful) fetch, or a spawn that fails; the file may be missing.
SpawnFails ==
  /\ pc = "reconcile" /\ ~held /\ want /\ ~calm
  /\ bin' \in BOOLEAN
  /\ pc' = "report"
  /\ UNCHANGED <<inbox, report, calm, want, tgt, hash, misses, pos, sched, minerVars,
                 ownerVars>>

\* (Some, false)
KillStopped ==
  /\ pc = "reconcile" /\ held /\ ~want
  /\ held' = FALSE /\ alive' = FALSE /\ hash' = FALSE
  /\ pc' = "report"
  /\ UNCHANGED <<inbox, report, calm, want, tgt, bin, misses, pos, sched, warm, login,
                 ownerVars>>

\* (Some, true), exited: `continue`, so this tick sends no report.
ReapExited ==
  /\ pc = "reconcile" /\ held /\ want /\ ~alive
  /\ held' = FALSE /\ hash' = FALSE
  /\ pc' = "sleep"
  /\ UNCHANGED <<inbox, report, calm, want, tgt, bin, misses, pos, sched, alive, warm,
                 login, ownerVars>>

KeepMiner ==
  /\ pc = "reconcile"
  /\ \/ held /\ want /\ alive
     \/ ~held /\ ~want
  /\ pc' = IF held THEN "stats" ELSE "report"
  /\ UNCHANGED <<inbox, report, calm, daemonVars, minerVars, ownerVars>>

----------------------------------------------------------------------------
(* Stats, then the level-triggered reconcile of the login.                  *)

\* Mining time accrues while the last known hashrate is positive.
Accrue(h) ==
  /\ hash' = h
  /\ pos' = IF h THEN (pos + 1) % Window ELSE pos
  /\ sched' = Elapse(sched)

StatsAnswered(h) ==
  /\ pc = "stats" /\ alive /\ warm = 0
  /\ calm => h
  /\ misses' = 0
  /\ Accrue(h)
  /\ pc' = "level"
  /\ UNCHANGED <<inbox, report, calm, want, tgt, bin, minerVars, ownerVars>>

\* Slip: the login is reconciled only while hashing, as it once was (main.rs, bug 2).
StatsMissedSkipsLogin ==
  /\ pc = "stats"
  /\ calm => (~alive \/ warm > 0)
  /\ misses' = IF misses < StatsMissesUnknown THEN misses + 1 ELSE misses
  /\ Accrue(hash /\ misses' < StatsMissesUnknown)
  /\ pc' = IF hash' THEN "level" ELSE "report"
  /\ UNCHANGED <<inbox, report, calm, want, tgt, bin, minerVars, ownerVars>>

\* One miss keeps the last hashrate, the second one makes it unknown.
StatsMissed ==
  /\ pc = "stats"
  /\ calm => (~alive \/ warm > 0)
  /\ misses' = IF misses < StatsMissesUnknown THEN misses + 1 ELSE misses
  /\ Accrue(hash /\ misses' < StatsMissesUnknown)
  /\ pc' = "level"
  /\ UNCHANGED <<inbox, report, calm, want, tgt, bin, minerVars, ownerVars>>

\* confirm_side
ConfirmSide ==
  /\ sched' = Confirmed(sched, Want)
  /\ pc' = "report"
  /\ UNCHANGED <<inbox, report, calm, want, tgt, bin, hash, misses, pos, held, alive,
                 ownerVars>>

\* xmrig_pools_on = Some(true)
PoolsOnTarget ==
  /\ pc = "level" /\ alive /\ warm = 0 /\ login = Wanted
  /\ ConfirmSide
  /\ UNCHANGED <<warm, login>>

\* Some(false), or None because the API did not answer: go on to xmrig_set_user.
PoolsNotOnTarget ==
  /\ pc = "level"
  /\ ~calm \/ ~alive \/ warm > 0 \/ login # Wanted
  /\ pc' = "put"
  /\ UNCHANGED <<inbox, report, calm, daemonVars, minerVars, ownerVars>>

SetUserOk ==
  /\ pc = "put" /\ alive /\ warm = 0
  /\ \/ "ok" \in PutOutcomes /\ login' = Wanted
     \/ "lying" \in PutOutcomes /\ ~calm /\ login' = login
  /\ ConfirmSide
  /\ UNCHANGED warm

\* swap_failed: retry next tick, or stop the miner.
SetUserFailed ==
  /\ pc = "put"
  /\ \/ "late" \in PutOutcomes /\ ~calm /\ alive /\ warm = 0 /\ login' = Wanted
     \/ "refused" \in PutOutcomes /\ ~calm /\ login' = login
     \/ (~alive \/ warm > 0) /\ login' = login
  /\ sched' = SwapFailed(sched, Want)
  /\ IF MustStop(sched, Want)
     THEN held' = FALSE /\ alive' = FALSE /\ hash' = FALSE
     ELSE UNCHANGED <<held, alive, hash>>
  /\ pc' = "report"
  /\ UNCHANGED <<inbox, report, calm, want, tgt, bin, misses, pos, warm, ownerVars>>

----------------------------------------------------------------------------

\* Slip: a miner that produces no hashes is reported idle.
ReportIdleUnlessHashing ==
  /\ pc = "report"
  /\ report' = IF held /\ hash THEN "mining" ELSE IF ~held /\ want THEN "starting" ELSE "idle"
  /\ warm' = IF warm > 0 THEN warm - 1 ELSE 0
  /\ pc' = "sleep"
  /\ UNCHANGED <<inbox, calm, daemonVars, held, alive, login, ownerVars>>

\* The tick ends with the report; five seconds of warm-up pass.
Report ==
  /\ pc = "report"
  /\ report' = IF held /\ hash THEN "mining" ELSE IF held \/ want THEN "starting" ELSE "idle"
  /\ warm' = IF warm > 0 THEN warm - 1 ELSE 0
  /\ pc' = "sleep"
  /\ UNCHANGED <<inbox, calm, daemonVars, held, alive, login, ownerVars>>

Daemon ==
  \/ Boot \/ Wake \/ OnStart \/ OnStop \/ OnOther \/ OnPayout \/ OnRestartInto \/ Drained
  \/ SpawnMiner \/ SpawnFails \/ KillStopped \/ ReapExited \/ KeepMiner
  \/ \E h \in BOOLEAN : StatsAnswered(h)
  \/ StatsMissed
  \/ PoolsOnTarget \/ PoolsNotOnTarget \/ SetUserOk \/ SetUserFailed
  \/ Report

Next ==
  \/ Daemon
  \/ Crash \/ Settle \/ MinerDies \/ OthersRewriteLogin
  \/ \E e \in Event : Deliver(e)

Spec == Init /\ [][Next]_vars

\* tokio keeps running the task and systemd keeps restarting the daemon; nothing is
\* promised about the environment, not even that it ever becomes calm.
FairSpec == Spec /\ WF_vars(Daemon)

----------------------------------------------------------------------------
(* Properties.                                                              *)

TypeOK ==
  /\ pc \in {"down", "sleep", "drain", "reconcile", "stats", "level", "put", "report"}
  /\ inbox \in Seq(Event) /\ Len(inbox) <= MaxInbox
  /\ want \in BOOLEAN /\ stopFlag \in BOOLEAN /\ tgt \in Targets /\ bin \in BOOLEAN
  /\ held \in BOOLEAN /\ alive \in BOOLEAN /\ warm \in 0..WarmTicks
  /\ login \in [side : {"User", "Fee", "Other"}, tgt : Targets]
  /\ hash \in BOOLEAN /\ misses \in 0..StatsMissesUnknown
  /\ pos \in 0..(Window - 1) /\ sched \in Scheduler
  /\ report \in {"none", "mining", "starting", "idle"}
  /\ calm \in BOOLEAN /\ ownerStop \in BOOLEAN

\* What pasivd does to the login is the discipline fee.rs asks of every consumer of
\* SliceScheduler: each step of the daemon is a step of FeeDiscipline or touches none
\* of its state.
Discipline == INSTANCE FeeDiscipline WITH
  login   <- login.side,
  hashing <- hash,
  phase   <- IF pc \in {"level", "put"} THEN "reconcile" ELSE "observe"

ImplementsDiscipline == Discipline!Spec

\* A miner never keeps working for a payout the account has left: whenever its pools are
\* on a login of this node, it is the login of the target in hand.
NoStaleTarget ==
  alive /\ login.side # "Other" => login.tgt = tgt

\* The owner's stop is final, across crashes, updates and restarts: from the tick that
\* hears it, no miner runs until the owner says start.
StopIsFinal ==
  ownerStop /\ pc \notin {"drain", "reconcile"} => ~alive

\* The fleet is never told "idle" while a miner is at work.
IdleIsTrue ==
  report = "idle" /\ pc \in {"sleep", "drain", "down"} => ~alive

\* It, with the types.
LoopInv == TypeOK /\ IdleIsTrue

\* A miner on the fee login leaves it, however answers, processes and commands fail.
FeeReturns == (alive /\ login.side = "Fee") ~> ~(alive /\ login.side = "Fee")

\* Once the world behaves, so does the node: it ends up hashing for good, or stopped for
\* good if that is what the owner said last.
SelfHeals ==
  <>[]calm => <>[](IF ownerStop THEN ~alive ELSE alive /\ hash)

============================================================================
