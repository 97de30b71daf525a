------------------------- MODULE NodeLoop_proofs --------------------------
(***************************************************************************)
(* For every slice shape, retry budget, set of targets, warm-up and queue: *)
(* the miner task of pasivd mines for the target in hand, stops when its   *)
(* owner says stop, tells the truth when it says idle, and does to the     *)
(* login nothing but what the discipline of fee.rs allows.                 *)
(***************************************************************************)
EXTENDS NodeLoop, SequenceTheorems, TLAPS

\* The flag file of a stop can be written and removed.
FlagHolds == FlagMayFail = FALSE

\* xmrig may refuse a swap: an xmrig that is not up yet answers none, and the discipline
\* knows no warm-up, only refusals.
MayRefuse == "refused" \in PutOutcomes

\* No miner without its handle, no hashes without a miner, and a miner is on a login
\* of the target in hand, whoever's side it is on.  Past the reconcile of the process
\* the handle is there if and only if the node wants to mine.
HandInv ==
  /\ alive => held /\ login.tgt = tgt
  /\ hash => held
  /\ pc = "down" => ~held
  /\ pc \in {"stats", "level", "put"} => held /\ want
  /\ pc \in {"report", "sleep"} /\ held => want

\* A stop that was heard is in the loop's memory and in the flag.
StopInv ==
  /\ ownerStop => stopFlag
  /\ ownerStop /\ pc # "down" => ~want

----------------------------------------------------------------------------
(* Types.                                                                  *)

\* The scheduler's operations return a scheduler.
LEMMA SchedulerTypes ==
  ASSUME NEW s \in Scheduler, NEW side \in PayoutSide
  PROVE  /\ FreshScheduler \in Scheduler
         /\ Confirmed(s, side) \in Scheduler
         /\ SwapFailed(s, side) \in Scheduler
         /\ Elapse(s) \in Scheduler
<1> USE MaxRetriesAssumption DEF Scheduler, PayoutSide, NoSlice
<1>1. FreshScheduler \in Scheduler
  BY DEF FreshScheduler
<1>2. Confirmed(s, side) \in Scheduler
  BY DEF Confirmed
<1>3. SwapFailed(s, side) \in Scheduler
  BY <1>1 DEF SwapFailed, MustStop
<1>4. Elapse(s) \in Scheduler
  BY DEF Elapse
<1>5. QED
  BY <1>1, <1>2, <1>3, <1>4

\* The schedule asks for one of the two payout sides.
LEMMA WantType == Want \in PayoutSide
  BY DEF Want, Desired, PayoutSide

\* ... so the login the node puts is a login.
LEMMA WantedType ==
  ASSUME TypeOK PROVE Wanted \in [side : {"User", "Fee", "Other"}, tgt : Targets]
  BY WantType DEF Wanted, PayoutSide, TypeOK

\* Taking an event leaves a bounded queue.
LEMMA TakeTypes ==
  ASSUME TypeOK, NEW k, Take(k)
  PROVE  inbox' \in Seq(Event) /\ Len(inbox') <= MaxInbox
<1>1. inbox \in Seq(Event) /\ Len(inbox) <= MaxInbox /\ inbox # <<>> /\ inbox' = Tail(inbox)
  BY DEF Take, TypeOK
<1>2. Tail(inbox) \in Seq(Event) /\ Len(Tail(inbox)) = Len(inbox) - 1 /\ Len(inbox) \in Nat
  BY <1>1
<1>3. QED
  BY <1>1, <1>2, NodeAssumption

\* So does a delivery to a queue with room.
LEMMA AppendTypes ==
  ASSUME TypeOK, NEW e \in Event, Len(inbox) < MaxInbox
  PROVE  Append(inbox, e) \in Seq(Event) /\ Len(Append(inbox, e)) <= MaxInbox
<1>1. inbox \in Seq(Event)
  BY DEF TypeOK
<1>2. Append(inbox, e) \in Seq(Event) /\ Len(Append(inbox, e)) = Len(inbox) + 1
  BY <1>1
<1>3. QED
  BY <1>1, <1>2, NodeAssumption

\* A position stays in the window.
LEMMA AccrueTypes ==
  ASSUME TypeOK, NEW h \in BOOLEAN, Accrue(h)
  PROVE  pos' \in 0..(Window - 1) /\ sched' \in Scheduler /\ hash' \in BOOLEAN
<1>1. (pos + 1) % Window \in 0..(Window - 1)
  BY NodeAssumption DEF TypeOK
<1>2. Elapse(sched) \in Scheduler
  BY SchedulerTypes, WantType DEF TypeOK
<1>3. QED
  BY <1>1, <1>2 DEF Accrue, TypeOK

\* A daemon that is gone leaves a state of the right type.
LEMMA GoneTypes == ASSUME TypeOK, Gone PROVE TypeOK'
<1>1. inbox' \in Seq(Event) /\ Len(inbox') <= MaxInbox
  BY EmptySeq, NodeAssumption DEF Gone, TypeOK
<1>2. sched' \in Scheduler
  BY SchedulerTypes, WantType DEF Gone, TypeOK
<1>3. pos' \in 0..(Window - 1) /\ warm' \in 0..WarmTicks /\ misses' \in 0..StatsMissesUnknown
  BY NodeAssumption DEF Gone, StatsMissesUnknown
<1>4. QED
  BY <1>1, <1>2, <1>3 DEF Gone, TypeOK, ownerVars

\* The first boot has the right type ...
LEMMA InitType == Init => TypeOK
<1> SUFFICES ASSUME Init PROVE TypeOK
  OBVIOUS
<1>1. inbox \in Seq(Event) /\ Len(inbox) <= MaxInbox
  BY EmptySeq, NodeAssumption DEF Init
<1>2. FreshScheduler \in Scheduler
  BY MaxRetriesAssumption DEF FreshScheduler, Scheduler, NoSlice
<1>3. pos \in 0..(Window - 1) /\ warm \in 0..WarmTicks /\ misses \in 0..StatsMissesUnknown
  BY NodeAssumption DEF Init, StatsMissesUnknown
<1>4. QED
  BY <1>1, <1>2, <1>3 DEF Init, TypeOK

\* ... and every step keeps it.
LEMMA TypeKeeps == TypeOK /\ [Next]_vars => TypeOK'
<1> SUFFICES ASSUME TypeOK, [Next]_vars PROVE TypeOK'
  OBVIOUS
<1> USE NodeAssumption DEF TypeOK, daemonVars, minerVars, ownerVars, StatsMissesUnknown
<1>1. CASE Boot
  BY <1>1 DEF Boot
<1>2. CASE Wake
  BY <1>2 DEF Wake
<1>3. CASE OnStart
  <2>1. inbox' \in Seq(Event) /\ Len(inbox') <= MaxInbox
    BY <1>3, TakeTypes DEF OnStart
  <2>2. stopFlag' \in BOOLEAN /\ ownerStop' \in BOOLEAN /\ want' \in BOOLEAN
    BY <1>3 DEF OnStart, FlagAfter
  <2>3. QED
    BY <1>3, <2>1, <2>2 DEF OnStart
<1>4. CASE OnStop
  <2>1. inbox' \in Seq(Event) /\ Len(inbox') <= MaxInbox
    BY <1>4, TakeTypes DEF OnStop
  <2>2. stopFlag' \in BOOLEAN /\ ownerStop' \in BOOLEAN /\ want' \in BOOLEAN
    BY <1>4 DEF OnStop, FlagAfter
  <2>3. QED
    BY <1>4, <2>1, <2>2 DEF OnStop
<1>5. CASE OnOther
  <2>1. inbox' \in Seq(Event) /\ Len(inbox') <= MaxInbox
    BY <1>5, TakeTypes DEF OnOther
  <2>2. stopFlag' \in BOOLEAN /\ ownerStop' \in BOOLEAN /\ want' \in BOOLEAN
    BY <1>5 DEF OnOther, FlagAfter
  <2>3. QED
    BY <1>5, <2>1, <2>2 DEF OnOther
<1>6. CASE OnPayout
  <2>1. inbox' \in Seq(Event) /\ Len(inbox') <= MaxInbox
    BY <1>6, TakeTypes DEF OnPayout
  <2>2. tgt' \in Targets /\ held' \in BOOLEAN /\ alive' \in BOOLEAN /\ hash' \in BOOLEAN
    BY <1>6 DEF OnPayout
  <2>3. QED
    BY <1>6, <2>1, <2>2 DEF OnPayout
<1>7. CASE OnRestartInto
  BY <1>7, GoneTypes DEF OnRestartInto
<1>8. CASE Drained
  BY <1>8 DEF Drained
<1>9. CASE SpawnMiner
  <2>1. login' \in [side : {"User", "Fee", "Other"}, tgt : Targets] /\ warm' \in 0..WarmTicks
    BY <1>9 DEF SpawnMiner
  <2>2. sched' \in Scheduler
    BY <1>9, SchedulerTypes, WantType DEF SpawnMiner
  <2>3. QED
    BY <1>9, <2>1, <2>2 DEF SpawnMiner
<1>10. CASE SpawnFails
  BY <1>10 DEF SpawnFails
<1>11. CASE KillStopped
  BY <1>11 DEF KillStopped
<1>12. CASE ReapExited
  BY <1>12 DEF ReapExited
<1>13. CASE KeepMiner
  BY <1>13 DEF KeepMiner
<1>14. ASSUME NEW h \in BOOLEAN, StatsAnswered(h) PROVE TypeOK'
  <2>1. pos' \in 0..(Window - 1) /\ sched' \in Scheduler /\ hash' \in BOOLEAN
    BY <1>14, AccrueTypes DEF StatsAnswered
  <2>2. QED
    BY <1>14, <2>1 DEF StatsAnswered
<1>15. CASE StatsMissed
  <2>1. misses' \in 0..StatsMissesUnknown
    BY <1>15 DEF StatsMissed
  <2>2. (hash /\ misses' < StatsMissesUnknown) \in BOOLEAN
    OBVIOUS
  <2>3. pos' \in 0..(Window - 1) /\ sched' \in Scheduler /\ hash' \in BOOLEAN
    BY <1>15, <2>2, AccrueTypes DEF StatsMissed
  <2>4. QED
    BY <1>15, <2>1, <2>3 DEF StatsMissed
<1>16. CASE PoolsOnTarget
  <2>1. sched' \in Scheduler
    BY <1>16, SchedulerTypes, WantType DEF PoolsOnTarget, ConfirmSide
  <2>2. QED
    BY <1>16, <2>1 DEF PoolsOnTarget, ConfirmSide
<1>17. CASE PoolsNotOnTarget
  BY <1>17 DEF PoolsNotOnTarget
<1>18. CASE SetUserOk
  <2>1. sched' \in Scheduler
    BY <1>18, SchedulerTypes, WantType DEF SetUserOk, ConfirmSide
  <2>2. login' \in [side : {"User", "Fee", "Other"}, tgt : Targets]
    BY <1>18, WantedType DEF SetUserOk
  <2>3. QED
    BY <1>18, <2>1, <2>2 DEF SetUserOk, ConfirmSide
<1>19. CASE SetUserFailed
  <2>1. sched' \in Scheduler
    BY <1>19, SchedulerTypes, WantType DEF SetUserFailed
  <2>2. login' \in [side : {"User", "Fee", "Other"}, tgt : Targets]
    BY <1>19, WantedType DEF SetUserFailed
  <2>3. held' \in BOOLEAN /\ alive' \in BOOLEAN /\ hash' \in BOOLEAN
    BY <1>19 DEF SetUserFailed
  <2>4. QED
    BY <1>19, <2>1, <2>2, <2>3 DEF SetUserFailed
<1>20. CASE Report
  BY <1>20 DEF Report
<1>21. CASE Crash
  BY <1>21, GoneTypes DEF Crash
<1>22. CASE Settle
  BY <1>22 DEF Settle
<1>23. CASE MinerDies
  <2>1. alive' \in BOOLEAN
    BY <1>23 DEF MinerDies
  <2>2. QED
    BY <1>23, <2>1 DEF MinerDies
<1>24. CASE OthersRewriteLogin
  BY <1>24 DEF OthersRewriteLogin
<1>25. ASSUME NEW e \in Event, Deliver(e) PROVE TypeOK'
  <2>1. inbox' \in Seq(Event) /\ Len(inbox') <= MaxInbox
    <3>1. inbox' = Append(inbox, e) /\ Len(inbox) < MaxInbox
      BY <1>25 DEF Deliver
    <3>2. QED
      BY <3>1, AppendTypes
  <2>2. QED
    BY <1>25, <2>1 DEF Deliver
<1>26. CASE UNCHANGED vars
  BY <1>26 DEF vars
<1>27. QED
  BY <1>1, <1>2, <1>3, <1>4, <1>5, <1>6, <1>7, <1>8, <1>9, <1>10, <1>11, <1>12, <1>13,
     <1>14, <1>15, <1>16, <1>17, <1>18, <1>19, <1>20, <1>21, <1>22, <1>23, <1>24, <1>25, <1>26 DEF Next, Daemon

----------------------------------------------------------------------------
(* The invariants.                                                         *)

\* The handle, the process and the target stay together.
LEMMA HandKeeps == TypeOK /\ HandInv /\ [Next]_vars => HandInv'
<1> SUFFICES ASSUME TypeOK, HandInv, [Next]_vars PROVE HandInv'
  OBVIOUS
<1> USE DEF HandInv, daemonVars, minerVars, ownerVars
<1>1. CASE Boot
  BY <1>1 DEF Boot
<1>2. CASE Wake
  BY <1>2 DEF Wake
<1>3. CASE OnStart
  BY <1>3 DEF OnStart, Take, FlagAfter
<1>4. CASE OnStop
  BY <1>4 DEF OnStop, Take, FlagAfter
<1>5. CASE OnOther
  BY <1>5 DEF OnOther, Take
<1>6. CASE OnPayout
  BY <1>6 DEF OnPayout, Take
<1>7. CASE OnRestartInto
  BY <1>7 DEF OnRestartInto, Gone
<1>8. CASE Drained
  BY <1>8 DEF Drained
<1>9. CASE SpawnMiner
  BY <1>9 DEF SpawnMiner
<1>10. CASE SpawnFails
  BY <1>10 DEF SpawnFails
<1>11. CASE KillStopped
  BY <1>11 DEF KillStopped
<1>12. CASE ReapExited
  BY <1>12 DEF ReapExited
<1>13. CASE KeepMiner
  BY <1>13 DEF KeepMiner
<1>14. ASSUME NEW h \in BOOLEAN, StatsAnswered(h) PROVE HandInv'
  BY <1>14 DEF StatsAnswered, Accrue
<1>15. CASE StatsMissed
  BY <1>15 DEF StatsMissed, Accrue
<1>16. CASE PoolsOnTarget
  BY <1>16 DEF PoolsOnTarget, ConfirmSide, Wanted
<1>17. CASE PoolsNotOnTarget
  BY <1>17 DEF PoolsNotOnTarget
<1>18. CASE SetUserOk
  BY <1>18 DEF SetUserOk, ConfirmSide, Wanted
<1>19. CASE SetUserFailed
  <2>1. (login' = Wanted \/ login' = login) /\ tgt' = tgt
    BY <1>19 DEF SetUserFailed
  <2>2. /\ alive' => held' /\ alive
        /\ hash' => held'
        /\ want' /\ pc' = "report"
    BY <1>19 DEF SetUserFailed
  <2>3. Wanted.tgt = tgt
    BY DEF Wanted
  <2>4. alive' => login'.tgt = tgt'
    BY <2>1, <2>2, <2>3
  <2>5. QED
    BY <2>2, <2>4
<1>20. CASE Report
  BY <1>20 DEF Report
<1>21. CASE Crash
  BY <1>21 DEF Crash, Gone
<1>22. CASE Settle
  BY <1>22 DEF Settle
<1>23. CASE MinerDies
  BY <1>23 DEF MinerDies
<1>24. CASE OthersRewriteLogin
  <2>1. login'.tgt = login.tgt
    BY <1>24 DEF OthersRewriteLogin, TypeOK
  <2>2. QED
    BY <1>24, <2>1 DEF OthersRewriteLogin
<1>25. ASSUME NEW e \in Event, Deliver(e) PROVE HandInv'
  BY <1>25 DEF Deliver
<1>26. CASE UNCHANGED vars
  BY <1>26 DEF vars
<1>27. QED
  BY <1>1, <1>2, <1>3, <1>4, <1>5, <1>6, <1>7, <1>8, <1>9, <1>10, <1>11, <1>12, <1>13,
     <1>14, <1>15, <1>16, <1>17, <1>18, <1>19, <1>20, <1>21, <1>22, <1>23, <1>24, <1>25, <1>26 DEF Next, Daemon

\* No step forgets a stop while its flag can be written.
LEMMA StopKeeps == FlagHolds /\ TypeOK /\ StopInv /\ [Next]_vars => StopInv'
<1> SUFFICES ASSUME FlagHolds, TypeOK, StopInv, [Next]_vars PROVE StopInv'
  OBVIOUS
<1> USE DEF StopInv, FlagHolds, daemonVars, minerVars, ownerVars
<1>1. CASE Boot
  BY <1>1 DEF Boot
<1>2. CASE Wake
  BY <1>2 DEF Wake
<1>3. CASE OnStart
  BY <1>3 DEF OnStart, Take, FlagAfter
<1>4. CASE OnStop
  BY <1>4 DEF OnStop, Take, FlagAfter
<1>5. CASE OnOther
  BY <1>5 DEF OnOther, Take
<1>6. CASE OnPayout
  BY <1>6 DEF OnPayout, Take
<1>7. CASE OnRestartInto
  BY <1>7 DEF OnRestartInto, Gone
<1>8. CASE Drained
  BY <1>8 DEF Drained
<1>9. CASE SpawnMiner
  BY <1>9 DEF SpawnMiner
<1>10. CASE SpawnFails
  BY <1>10 DEF SpawnFails
<1>11. CASE KillStopped
  BY <1>11 DEF KillStopped
<1>12. CASE ReapExited
  BY <1>12 DEF ReapExited
<1>13. CASE KeepMiner
  BY <1>13 DEF KeepMiner
<1>14. ASSUME NEW h \in BOOLEAN, StatsAnswered(h) PROVE StopInv'
  BY <1>14 DEF StatsAnswered, Accrue
<1>15. CASE StatsMissed
  BY <1>15 DEF StatsMissed, Accrue
<1>16. CASE PoolsOnTarget
  BY <1>16 DEF PoolsOnTarget, ConfirmSide, Wanted
<1>17. CASE PoolsNotOnTarget
  BY <1>17 DEF PoolsNotOnTarget
<1>18. CASE SetUserOk
  BY <1>18 DEF SetUserOk, ConfirmSide, Wanted
<1>19. CASE SetUserFailed
  BY <1>19 DEF SetUserFailed, Wanted
<1>20. CASE Report
  BY <1>20 DEF Report
<1>21. CASE Crash
  BY <1>21 DEF Crash, Gone
<1>22. CASE Settle
  BY <1>22 DEF Settle
<1>23. CASE MinerDies
  BY <1>23 DEF MinerDies
<1>24. CASE OthersRewriteLogin
  BY <1>24 DEF OthersRewriteLogin
<1>25. ASSUME NEW e \in Event, Deliver(e) PROVE StopInv'
  BY <1>25 DEF Deliver
<1>26. CASE UNCHANGED vars
  BY <1>26 DEF vars
<1>27. QED
  BY <1>1, <1>2, <1>3, <1>4, <1>5, <1>6, <1>7, <1>8, <1>9, <1>10, <1>11, <1>12, <1>13,
     <1>14, <1>15, <1>16, <1>17, <1>18, <1>19, <1>20, <1>21, <1>22, <1>23, <1>24, <1>25, <1>26 DEF Next, Daemon

\* An idle report is withdrawn before a miner works again.
LEMMA IdleKeeps == TypeOK /\ HandInv /\ IdleIsTrue /\ [Next]_vars => IdleIsTrue'
<1> SUFFICES ASSUME TypeOK, HandInv, IdleIsTrue, [Next]_vars PROVE IdleIsTrue'
  OBVIOUS
<1> USE DEF IdleIsTrue, HandInv, daemonVars, minerVars, ownerVars
<1>1. CASE Boot
  BY <1>1 DEF Boot
<1>2. CASE Wake
  BY <1>2 DEF Wake
<1>3. CASE OnStart
  BY <1>3 DEF OnStart, Take, FlagAfter
<1>4. CASE OnStop
  BY <1>4 DEF OnStop, Take, FlagAfter
<1>5. CASE OnOther
  BY <1>5 DEF OnOther, Take
<1>6. CASE OnPayout
  BY <1>6 DEF OnPayout, Take
<1>7. CASE OnRestartInto
  BY <1>7 DEF OnRestartInto, Gone
<1>8. CASE Drained
  BY <1>8 DEF Drained
<1>9. CASE SpawnMiner
  BY <1>9 DEF SpawnMiner
<1>10. CASE SpawnFails
  BY <1>10 DEF SpawnFails
<1>11. CASE KillStopped
  BY <1>11 DEF KillStopped
<1>12. CASE ReapExited
  BY <1>12 DEF ReapExited
<1>13. CASE KeepMiner
  BY <1>13 DEF KeepMiner
<1>14. ASSUME NEW h \in BOOLEAN, StatsAnswered(h) PROVE IdleIsTrue'
  BY <1>14 DEF StatsAnswered, Accrue
<1>15. CASE StatsMissed
  BY <1>15 DEF StatsMissed, Accrue
<1>16. CASE PoolsOnTarget
  BY <1>16 DEF PoolsOnTarget, ConfirmSide, Wanted
<1>17. CASE PoolsNotOnTarget
  BY <1>17 DEF PoolsNotOnTarget
<1>18. CASE SetUserOk
  BY <1>18 DEF SetUserOk, ConfirmSide, Wanted
<1>19. CASE SetUserFailed
  BY <1>19 DEF SetUserFailed, Wanted
<1>20. CASE Report
  BY <1>20 DEF Report
<1>21. CASE Crash
  BY <1>21 DEF Crash, Gone
<1>22. CASE Settle
  BY <1>22 DEF Settle
<1>23. CASE MinerDies
  BY <1>23 DEF MinerDies
<1>24. CASE OthersRewriteLogin
  BY <1>24 DEF OthersRewriteLogin
<1>25. ASSUME NEW e \in Event, Deliver(e) PROVE IdleIsTrue'
  BY <1>25 DEF Deliver
<1>26. CASE UNCHANGED vars
  BY <1>26 DEF vars
<1>27. QED
  BY <1>1, <1>2, <1>3, <1>4, <1>5, <1>6, <1>7, <1>8, <1>9, <1>10, <1>11, <1>12, <1>13,
     <1>14, <1>15, <1>16, <1>17, <1>18, <1>19, <1>20, <1>21, <1>22, <1>23, <1>24, <1>25, <1>26 DEF Next, Daemon

----------------------------------------------------------------------------
(* The theorems.                                                           *)

\* What the others rest on.
THEOREM Invariance == Spec => [](TypeOK /\ HandInv)
<1>1. Init => HandInv
  BY DEF Init, HandInv
<1>2. QED
  BY <1>1, InitType, TypeKeeps, HandKeeps, PTL DEF Spec

\* The miner works for the payout in hand: a changed payout stops it first.
THEOREM MinesForTheTarget == Spec => []NoStaleTarget
<1>1. HandInv => NoStaleTarget
  BY DEF HandInv, NoStaleTarget
<1>2. QED
  BY <1>1, Invariance, PTL

\* If the flag can be written, a stop holds from the tick that hears it, across crashes,
\* updates and restarts, until the owner says start.
THEOREM StopHolds == ASSUME FlagHolds PROVE Spec => []StopIsFinal
<1>1. Init => StopInv
  BY DEF Init, StopInv
<1>2. TypeOK /\ HandInv /\ StopInv => StopIsFinal
  BY DEF TypeOK, HandInv, StopInv, StopIsFinal
<1>3. TypeOK /\ StopInv /\ [Next]_vars => StopInv'
  BY StopKeeps, FlagHolds
<1>4. QED
  BY <1>1, <1>2, <1>3, Invariance, PTL DEF Spec

\* The node is type correct, and never reports idle with a miner at work.
THEOREM ReportsTruly == Spec => []LoopInv
<1>1. Init => IdleIsTrue
  BY DEF Init, IdleIsTrue
<1>2. TypeOK /\ IdleIsTrue => LoopInv
  BY DEF LoopInv
<1>3. QED
  BY <1>1, <1>2, IdleKeeps, Invariance, PTL DEF Spec

----------------------------------------------------------------------------
(* The discipline.                                                         *)

\* Its pure operators are those of the node.
LEMMA SameScheduler ==
  /\ Discipline!FreshScheduler = FreshScheduler /\ Discipline!Want = Want
  /\ Discipline!Elapse(sched) = Elapse(sched)
  /\ Discipline!Confirmed(sched, Want) = Confirmed(sched, Want)
  /\ Discipline!SwapFailed(sched, Want) = SwapFailed(sched, Want)
  /\ Discipline!MustStop(sched, Want) = MustStop(sched, Want)
  BY DEF FreshScheduler, Want, Desired, InSlice, SliceAtWindowEnd, Elapse, Confirmed,
         SwapFailed, MustStop, NoSlice,
         Discipline!FreshScheduler, Discipline!Want, Discipline!Desired,
         Discipline!InSlice, Discipline!SliceAtWindowEnd, Discipline!Elapse,
         Discipline!Confirmed, Discipline!SwapFailed, Discipline!MustStop,
         Discipline!NoSlice

\* A step of the node is a step of the discipline, or leaves its view alone.
LEMMA StepIsDisciplined ==
  ASSUME MayRefuse
  PROVE  TypeOK /\ HandInv /\ [Next]_vars => [Discipline!Next]_(Discipline!vars)
<1> SUFFICES ASSUME TypeOK, HandInv, [Next]_vars
             PROVE  Discipline!Next \/ UNCHANGED Discipline!vars
  OBVIOUS
<1> USE DEF TypeOK, HandInv, daemonVars, minerVars, ownerVars, Discipline!Next
<1>1. CASE Boot
  BY <1>1 DEF Boot, Discipline!vars
<1>2. CASE Wake
  BY <1>2 DEF Wake, Discipline!vars
<1>3. CASE OnStart
  BY <1>3 DEF OnStart, Take, FlagAfter, Discipline!vars
<1>4. CASE OnStop
  BY <1>4 DEF OnStop, Take, FlagAfter, Discipline!vars
<1>5. CASE OnOther
  BY <1>5 DEF OnOther, Take, Discipline!vars
<1>6. CASE OnPayout
  BY <1>6 DEF OnPayout, Take, Discipline!Drop, Discipline!vars
<1>7. CASE OnRestartInto
  BY <1>7, SameScheduler DEF OnRestartInto, Gone, Discipline!Restart
<1>8. CASE Drained
  BY <1>8 DEF Drained, Discipline!vars
<1>9. CASE SpawnMiner
  BY <1>9, SameScheduler DEF SpawnMiner, Discipline!Spawn
<1>10. CASE SpawnFails
  BY <1>10 DEF SpawnFails, Discipline!vars
<1>11. CASE KillStopped
  BY <1>11 DEF KillStopped, Discipline!Drop
<1>12. CASE ReapExited
  BY <1>12 DEF ReapExited, Discipline!Drop
<1>13. CASE KeepMiner
  BY <1>13 DEF KeepMiner, Discipline!vars
<1>14. ASSUME NEW h \in BOOLEAN, StatsAnswered(h) PROVE Discipline!Next \/ UNCHANGED Discipline!vars
  BY <1>14, SameScheduler DEF StatsAnswered, Accrue, Discipline!Observe
<1>15. CASE StatsMissed
  <2> DEFINE h == hash /\ misses' < StatsMissesUnknown
  <2>1. h \in BOOLEAN
    OBVIOUS
  <2>2. Discipline!Observe(h)
    BY <1>15, SameScheduler DEF StatsMissed, Accrue, Discipline!Observe
  <2>3. QED
    BY <2>1, <2>2
<1>16. CASE PoolsOnTarget
  BY <1>16, SameScheduler DEF PoolsOnTarget, ConfirmSide, Wanted, Discipline!ReadBack, Discipline!Believe, Discipline!Reconcile
<1>17. CASE PoolsNotOnTarget
  BY <1>17 DEF PoolsNotOnTarget, Discipline!vars
<1>18. CASE SetUserOk
  BY <1>18, SameScheduler DEF SetUserOk, ConfirmSide, Wanted, Discipline!SwapReportedOk, Discipline!Believe, Discipline!Reconcile
<1>19. CASE SetUserFailed
  <2>1. \/ "late" \in PutOutcomes /\ alive /\ login' = Wanted
        \/ login' = login
    BY <1>19 DEF SetUserFailed
  <2>2. Wanted.side = Discipline!Want
    BY SameScheduler DEF Wanted
  <2>3. /\ sched' = Discipline!SwapFailed(sched, Discipline!Want)
        /\ IF Discipline!MustStop(sched, Discipline!Want)
           THEN held' = FALSE /\ alive' = FALSE /\ hash' = FALSE
           ELSE UNCHANGED <<held, alive, hash>>
        /\ UNCHANGED pos /\ pc = "put" /\ pc' = "report" /\ held
    BY <1>19, SameScheduler DEF SetUserFailed
  <2>4. Discipline!SwapReportedFailed
    BY <2>1, <2>2, <2>3, MayRefuse DEF Discipline!SwapReportedFailed, MayRefuse
  <2>5. QED
    BY <2>4 DEF Discipline!Reconcile
<1>20. CASE Report
  BY <1>20 DEF Report, Discipline!vars
<1>21. CASE Crash
  BY <1>21, SameScheduler DEF Crash, Gone, Discipline!Restart
<1>22. CASE Settle
  BY <1>22 DEF Settle, Discipline!vars
<1>23. CASE MinerDies
  BY <1>23 DEF MinerDies, Discipline!Die
<1>24. CASE OthersRewriteLogin
  BY <1>24 DEF OthersRewriteLogin, Discipline!RewriteLogin
<1>25. ASSUME NEW e \in Event, Deliver(e) PROVE Discipline!Next \/ UNCHANGED Discipline!vars
  BY <1>25 DEF Deliver, Discipline!vars
<1>26. CASE UNCHANGED vars
  BY <1>26 DEF vars, Discipline!vars
<1>27. QED
  BY <1>1, <1>2, <1>3, <1>4, <1>5, <1>6, <1>7, <1>8, <1>9, <1>10, <1>11, <1>12, <1>13,
     <1>14, <1>15, <1>16, <1>17, <1>18, <1>19, <1>20, <1>21, <1>22, <1>23, <1>24, <1>25, <1>26 DEF Next, Daemon

\* Each step of pasivd's miner task, its miner and its machine is a step of the discipline
\* or touches none of its state: what FeeAudit proves of the discipline holds of pasivd,
\* under the assumption on swaps that FeeAudit makes and where a swap may be refused.
THEOREM FollowsTheDiscipline == ASSUME MayRefuse PROVE Spec => ImplementsDiscipline
<1>1. Init => Discipline!Init
  BY SameScheduler DEF Init, Discipline!Init
<1>2. TypeOK /\ HandInv /\ [Next]_vars => [Discipline!Next]_(Discipline!vars)
  BY StepIsDisciplined, MayRefuse
<1>3. QED
  BY <1>1, <1>2, Invariance, PTL DEF Spec, ImplementsDiscipline, Discipline!Spec
=============================================================================
