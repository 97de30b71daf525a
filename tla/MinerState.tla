---------------------------- MODULE MinerState -----------------------------
(***************************************************************************)
(* The state machine of a miner lane (pasiv-core/src/state.rs): the        *)
(* transition table, the ranks and the rollup the tray shows.              *)
(*                                                                         *)
(* The table is a pure function; what it is for shows only beside the      *)
(* process it speaks about.  The supervisor, the governor and the user     *)
(* live in the desktop application, outside this repository, and are       *)
(* modelled from what the inputs' comments say of them:                    *)
(*   - what a process does (warms up, hashes, loses its pool, exits) is    *)
(*     reported through the lane's queue, so it may be read after a later  *)
(*     press or verdict;                                                   *)
(*   - a process the supervisor ends itself (a stop, a restart, a park,    *)
(*     the fee fail-safe, what a start finds) has nothing more to say: its *)
(*     queued reports are dropped; but it may refuse to go, and then the   *)
(*     supervisor reports BackoffExhausted(stop_failed) instead;           *)
(*   - a lane spawns only in Starting, with no process and no report       *)
(*     pending.                                                            *)
(***************************************************************************)
EXTENDS Sequences, Naturals

CONSTANTS
  Lanes,         \* the miners of the machine
  PauseReasons,  \* Battery, Thermal, Fullscreen: never told apart
  MaxInbox       \* bound on a lane's unread reports

ASSUME LaneAssumption == MaxInbox \in Nat \ {0}

----------------------------------------------------------------------------
(* MinerState and Input *)

WarmPhases == <<"spawning", "connecting", "allocating", "awaiting_share">>
PhaseOrder(p) == CHOOSE k \in 1..4 : WarmPhases[k] = p
Phases      == {WarmPhases[k] : k \in 1..4}
ErrorKinds  == {"miner_crashed", "spawn_failed", "pool_unreachable", "stop_failed"}
IdleReasons == {"fresh", "user_stopped", "gave_up", "failsafe"}

Idle(r)     == [at |-> "idle", why |-> r]
Starting(p) == [at |-> "starting", why |-> p]
Mining      == [at |-> "mining", why |-> "-"]
Stopping    == [at |-> "stopping", why |-> "-"]
Paused(r)   == [at |-> "paused", why |-> r]
Error(k)    == [at |-> "error", why |-> k]

States == {Idle(r) : r \in IdleReasons} \cup {Starting(p) : p \in Phases}
          \cup {Mining, Stopping} \cup {Paused(r) : r \in PauseReasons}
          \cup {Error(k) : k \in ErrorKinds}

In(kind)         == [kind |-> kind, arg |-> "-"]
InWith(kind, a)  == [kind |-> kind, arg |-> a]

None == [at |-> "none", why |-> "-"]

(* The arms of the table in the order of the code; None is an input that   *)
(* is not legal in the state and is ignored.                               *)
Table(s, i) ==
  CASE s.at \in {"idle", "error"} /\ i.kind = "UserStart" -> Starting("spawning")
    [] s.at = "starting" /\ i.kind = "Warm" ->
         IF PhaseOrder(i.arg) > PhaseOrder(s.why) THEN Starting(i.arg) ELSE None
    [] s.at = "starting" /\ i.kind \in {"Hashing", "FirstShare"} -> Mining
    [] s.at \in {"starting", "mining", "paused", "error"} /\ i.kind = "StopRequested" -> Stopping
    [] s.at = "stopping" /\ i.kind = "Exited" -> Idle("user_stopped")
    [] s.at \in {"stopping", "starting", "mining", "paused"} /\ i.kind = "BackoffExhausted" ->
         Error(i.arg)
    [] s.at = "mining" /\ i.kind = "GovernorPause" -> Paused(i.arg)
    [] s.at = "paused" /\ i.kind = "GovernorResume" -> Mining
    [] s.at = "paused" /\ i.kind = "GovernorRelaunch" -> Starting("spawning")
    [] s.at \in {"starting", "mining", "paused"} /\ i.kind = "MinerExitedRetrying" ->
         Starting("spawning")
    [] s.at = "mining" /\ i.kind = "WatchdogRestart" -> Starting("spawning")
    [] s.at \in {"starting", "mining"} /\ i.kind = "PoolUnreachable" -> Error("pool_unreachable")
    [] s.at \in {"idle", "starting", "paused"} /\ i.kind = "SpawnFailed" -> Error("spawn_failed")
    [] s.at \in {"starting", "mining"} /\ i.kind = "FeeFailsafe" -> Idle("failsafe")
    [] s.at = "error" /\ i.kind = "Dismiss" -> Idle("gave_up")
    [] OTHER -> None

(* Slips the properties must notice: a stop that is Idle at once (v1), a   *)
(* stop that waits for Exited only, a paused lane that ignores its exit.   *)
TransitionIdlesAtOnce(s, i) ==
  IF i.kind = "StopRequested" /\ Table(s, i) # None THEN Idle("user_stopped") ELSE Table(s, i)
TransitionWaits(s, i) ==
  IF s.at = "stopping" /\ i.kind = "BackoffExhausted" THEN None ELSE Table(s, i)
TransitionPausedStays(s, i) ==
  IF s.at = "paused" /\ i.kind \in {"MinerExitedRetrying", "BackoffExhausted"}
  THEN None ELSE Table(s, i)

Transition(s, i) == Table(s, i)

Rank(s) ==
  LET order == <<"idle", "error", "paused", "starting", "stopping", "mining">>
  IN  (CHOOSE k \in 1..6 : order[k] = s.at) - 1

(* rollup: from a fresh Idle, the first state of the highest rank.         *)
Rollup(seq) ==
  LET over == {k \in 1..Len(seq) : /\ Rank(seq[k]) > Rank(Idle("fresh"))
                                   /\ \A j \in 1..Len(seq) : Rank(seq[j]) <= Rank(seq[k])
                                   /\ \A j \in 1..(k-1) : Rank(seq[j]) < Rank(seq[k])}
  IN  IF over = {} THEN Idle("fresh") ELSE seq[CHOOSE k \in over : TRUE]

Label(s) ==
  CASE s = Idle("gave_up")  -> <<"stopped", "gave_up">>
    [] s = Idle("failsafe") -> <<"stopped", "failsafe">>
    [] s.at = "idle"        -> <<"idle">>
    [] s.at = "starting"    -> <<"warming up">>
    [] s.at \in {"mining", "stopping"} -> <<s.at>>
    [] s.at \in {"paused", "error"}    -> <<s.at, s.why>>

----------------------------------------------------------------------------
VARIABLES
  st,     \* the state of every lane
  proc,   \* its process: "none", "live", "held" (paused in place), "parked"
          \* (stopped by the governor), "stuck" (even the force-kill failed)
  inbox   \* what its process had to say, oldest first

laneVars == <<st, proc, inbox>>

LaneTypeOK ==
  /\ st \in [Lanes -> States]
  /\ proc \in [Lanes -> {"none", "live", "held", "parked", "stuck"}]
  /\ \A l \in Lanes : Len(inbox[l]) <= MaxInbox

LaneInit ==
  /\ st = [l \in Lanes |-> Idle("fresh")]
  /\ proc = [l \in Lanes |-> "none"]
  /\ inbox = [l \in Lanes |-> <<>>]

(* The caller applies an input and keeps the state when it is not legal.   *)
Apply(l, i) ==
  st' = [st EXCEPT ![l] = IF Transition(@, i) = None THEN @ ELSE Transition(@, i)]
Legal(l, i) == Transition(st[l], i) # None

Running(l)    == proc[l] \in {"live", "held", "stuck"}
SetProc(l, p) == proc' = [proc EXCEPT ![l] = p]
Silence(l)    == inbox' = [inbox EXCEPT ![l] = <<>>]
Tell(l, i)    == /\ Len(inbox[l]) < MaxInbox
                 /\ inbox' = [inbox EXCEPT ![l] = Append(@, i)]

Exits  == {"Exited", "MinerExitedRetrying", "BackoffExhausted"}
Told(l) == \E k \in 1..Len(inbox[l]) : inbox[l][k].kind \in Exits

(* A process is ended: it goes and has nothing more to say, or even the    *)
(* force-kill fails and the supervisor says so.                            *)
End(l) ==
  \/ SetProc(l, "none") /\ Silence(l)
  \/ /\ Running(l) /\ SetProc(l, "stuck")
     /\ inbox' = [inbox EXCEPT ![l] = <<InWith("BackoffExhausted", "stop_failed")>>]

(* The user.  A start ends what an earlier process left behind, a stop has *)
(* the supervisor try again on a process it has said it could not stop.    *)
Press(l, kind) ==
  /\ Legal(l, In(kind))
  /\ Apply(l, In(kind))
  /\ CASE kind = "UserStart" -> End(l)
       [] kind = "StopRequested" ->
            /\ proc' = [proc EXCEPT ![l] = IF @ = "stuck" /\ inbox[l] = <<>> THEN "live" ELSE @]
            /\ UNCHANGED inbox
       [] kind = "Dismiss" -> UNCHANGED <<proc, inbox>>

(* The supervisor: launch, stop, restart, fail-safe.  A launch may be      *)
(* refused before a start is shown, or when a parked lane comes back.      *)
Spawn(l) ==
  /\ proc[l] \in {"none", "parked"} /\ inbox[l] = <<>> /\ UNCHANGED inbox
  /\ \/ st[l].at = "starting" /\ SetProc(l, "live") /\ UNCHANGED st
     \/ Legal(l, In("SpawnFailed")) /\ SetProc(l, "none") /\ Apply(l, In("SpawnFailed"))

StopProcess(l) ==
  /\ st[l] = Stopping /\ proc[l] # "stuck" /\ ~Told(l)
  /\ \/ /\ SetProc(l, "none")
        /\ inbox' = [inbox EXCEPT ![l] = <<In("Exited")>>]
     \/ /\ Running(l) /\ SetProc(l, "stuck")
        /\ inbox' = [inbox EXCEPT ![l] = <<InWith("BackoffExhausted", "stop_failed")>>]
  /\ UNCHANGED st

Restart(l) ==
  Legal(l, In("WatchdogRestart")) /\ Apply(l, In("WatchdogRestart")) /\ End(l)

Failsafe(l) ==
  Legal(l, In("FeeFailsafe")) /\ Apply(l, In("FeeFailsafe")) /\ End(l)

(* The governor holds a process in place, or parks the lane by ending it.  *)
Pause(l, r) ==
  /\ Legal(l, InWith("GovernorPause", r)) /\ Apply(l, InWith("GovernorPause", r))
  /\ \/ proc' = [proc EXCEPT ![l] = IF @ = "live" THEN "held" ELSE @] /\ UNCHANGED inbox
     \/ SetProc(l, "parked") /\ Silence(l)
     \/ End(l) /\ proc'[l] = "stuck"

Resume(l) ==
  /\ st[l].at = "paused"
  /\ IF proc[l] = "parked"
     THEN Apply(l, In("GovernorRelaunch")) /\ UNCHANGED proc
     ELSE /\ Apply(l, In("GovernorResume"))
          /\ proc' = [proc EXCEPT ![l] = IF @ = "held" THEN "live" ELSE @]
  /\ UNCHANGED inbox

(* The process, as its reports tell it.                                    *)
Working(l) ==
  /\ proc[l] = "live"
  /\ \/ \E p \in Phases : Tell(l, InWith("Warm", p))
     \/ \E k \in {"Hashing", "FirstShare", "PoolUnreachable"} : Tell(l, In(k))
  /\ UNCHANGED <<st, proc>>

Dies(l) ==
  /\ proc[l] \in {"live", "held", "stuck"}
  /\ SetProc(l, "none")
  /\ IF st[l].at \in {"stopping", "error", "idle"} THEN Tell(l, In("Exited"))
     ELSE \/ Tell(l, In("MinerExitedRetrying"))
          \/ Tell(l, InWith("BackoffExhausted", "miner_crashed"))
  /\ UNCHANGED st

Deliver(l) ==
  /\ inbox[l] # <<>>
  /\ Apply(l, Head(inbox[l]))
  /\ inbox' = [inbox EXCEPT ![l] = Tail(@)]
  /\ UNCHANGED proc

LaneNext == \E l \in Lanes :
  \/ \E k \in {"UserStart", "StopRequested", "Dismiss"} : Press(l, k)
  \/ Spawn(l) \/ StopProcess(l) \/ Restart(l) \/ Failsafe(l)
  \/ \E r \in PauseReasons : Pause(l, r)
  \/ Resume(l) \/ Working(l) \/ Dies(l) \/ Deliver(l)

LaneSpec == LaneInit /\ [][LaneNext]_laneVars

(* Reports are read and a stop is carried out; nobody has to press, to     *)
(* resume, to launch or to die.                                            *)
LaneFairSpec ==
  LaneSpec /\ \A l \in Lanes : WF_laneVars(Deliver(l)) /\ WF_laneVars(StopProcess(l))

----------------------------------------------------------------------------
(* Properties *)

(* "The state machine never times out into Idle while a sidecar might      *)
(* still be hashing" (state.rs, the stop hop): a lane that says the user   *)
(* stopped it, or that it was never started, has no process, in whatever   *)
(* order presses, verdicts, failed kills and exits came.                   *)
StoppedIsQuiet ==
  \A l \in Lanes :
    st[l].at = "idle" /\ st[l].why \in {"fresh", "user_stopped"} => ~Running(l)

(* What the comment on stop_failed asks of every Idle ("pretending to be   *)
(* Idle while a sidecar still hashes is the one failure mode that costs    *)
(* real money").  The table does not keep it, and no run checks it: the    *)
(* fail-safe is Idle at once, with no stop to be confirmed, and ignores    *)
(* the report of a kill that failed; and an error whose process still      *)
(* runs, stop_failed too, is Idle once it is dismissed.                    *)
IdleIsStopped == \A l \in Lanes : st[l].at = "idle" => ~Running(l)

(* A lane that says Mining has a process that runs, or the report of its   *)
(* exit waits to be read: no order of exits, pauses and resumes leaves a   *)
(* lane "mining" with nothing behind it.                                   *)
MiningIsReal ==
  \A l \in Lanes : st[l] = Mining => proc[l] = "live" \/ Told(l)

(* What the table keeps of the process: type correctness, StoppedIsQuiet   *)
(* and MiningIsReal.                                                       *)
LaneInv == LaneTypeOK /\ StoppedIsQuiet /\ MiningIsReal

(* A stop ends: the process goes, or the lane says that it would not.      *)
StopEnds == \A l \in Lanes : st[l] = Stopping ~> st[l] # Stopping

(* A paused lane whose process died does not stay "paused forever with     *)
(* nothing to resume".                                                     *)
PausedMoves ==
  \A l \in Lanes : st[l].at = "paused" /\ proc[l] = "none"
                    ~> st[l].at # "paused" \/ proc[l] # "none"
=============================================================================
