----------------------------- MODULE CloudLink ------------------------------
(***************************************************************************)
(* The two tasks of a running node (pasivd/src/main.rs, cloud_link and the *)
(* event loop of cmd_run) between the owner's commands and the miner: the  *)
(* link pushes the node's state, receives the pending commands with the    *)
(* answer, runs updates itself and hands the rest to the miner loop, which *)
(* answers each with a completion the link posts back.  One action per     *)
(* await, so that the tasks, the cloud and the owner act in between.       *)
(*                                                                         *)
(* The cloud is outside the repository.  As the node uses it, a command is *)
(* returned by every push until it is completed or has expired.  Until     *)
(* `calm`, requests and answers may be lost (the code ignores the failure  *)
(* of a completion), commands expire, and the daemon may be killed.  Once  *)
(* calm, the owner may still give commands and releases still appear.      *)
(*                                                                         *)
(* Left out: polls and payouts (module Payout), what the updater does with *)
(* its files (SelfUpdate), how the miner follows `want` (NodeLoop).        *)
(***************************************************************************)
EXTENDS Sequences, Naturals, FiniteSets

CONSTANTS
  MaxCmds,      \* commands the owner gives
  MaxReleases,  \* releases that appear
  MaxBacklog    \* bound: no push while more messages wait between the tasks

ASSUME LinkAssumption ==
  MaxCmds \in Nat \ {0} /\ MaxReleases \in Nat /\ MaxBacklog \in Nat

Actions == {"start", "stop", "update", "reboot"}  \* "reboot": unsupported

VARIABLES
  cmds,      \* commands given, by id
  open,      \* the cloud's: ids neither completed nor expired
  acked,     \* the cloud's: ids completed with ok
  shown,     \* the cloud's: the snapshot it shows of the node
  up,        \* the daemon runs
  rate,      \* cloud_link: rate_per_kh is known
  batch,     \* cloud_link: commands of the last answer still to handle
  events,    \* events_tx -> events_rx: command ids and "restart"
  done,      \* done_tx -> done_rx: [id, ok]
  want,      \* want_mining
  stopFlag,  \* the `stopped` file exists
  report,    \* report_tx -> report_rx
  behind,    \* a release newer than the running build exists
  staged,    \* it is staged
  released,  \* releases so far
  calm,
  obeyed,    \* history: ids the miner loop applied
  asked      \* history: the last start or stop given once calm

cloudVars == <<cmds, open, acked, shown, asked>>
nodeVars  == <<want, stopFlag, report, obeyed>>
buildVars == <<behind, staged, released>>
vars == <<cloudVars, up, rate, batch, events, done, nodeVars, buildVars, calm>>

Ids == 1..MaxCmds
NodeStates == {"starting", "mining", "idle"}

TypeOK ==
  /\ cmds \in Seq(Actions) /\ Len(cmds) <= MaxCmds
  /\ open \subseteq DOMAIN cmds /\ acked \subseteq DOMAIN cmds
  /\ obeyed \subseteq DOMAIN cmds
  /\ batch \in Seq(DOMAIN cmds) /\ events \in Seq(DOMAIN cmds \cup {0})
  /\ done \in Seq([id : DOMAIN cmds, ok : BOOLEAN])
  /\ shown \in [state : NodeStates, est : BOOLEAN] /\ rate \in BOOLEAN
  /\ report \in NodeStates
  /\ up \in BOOLEAN /\ want \in BOOLEAN /\ stopFlag \in BOOLEAN
  /\ behind \in BOOLEAN /\ staged \in BOOLEAN /\ calm \in BOOLEAN
  /\ released \in 0..MaxReleases /\ asked \in {"nothing", "start", "stop"}

Restart == 0  \* CloudEvent::RestartInto among the ids of commands

Init ==
  /\ cmds = <<>> /\ open = {} /\ acked = {}
  /\ shown = [state |-> "starting", est |-> FALSE] /\ rate = FALSE
  /\ up = TRUE /\ batch = <<>> /\ events = <<>> /\ done = <<>>
  /\ want = TRUE /\ stopFlag = FALSE /\ report = "starting"
  /\ behind = FALSE /\ staged = FALSE /\ released = 0
  /\ calm = FALSE /\ obeyed = {} /\ asked = "nothing"

----------------------------------------------------------------------------
(* The owner and the cloud.                                                *)
Give(a) ==
  /\ Len(cmds) < MaxCmds
  /\ cmds' = Append(cmds, a) /\ open' = open \cup {Len(cmds) + 1}
  /\ asked' = IF calm /\ a \in {"start", "stop"} THEN a ELSE asked
  /\ UNCHANGED <<acked, shown, up, rate, batch, events, done, nodeVars, buildVars, calm>>

Expire(c) ==
  /\ ~calm /\ c \in open /\ open' = open \ {c}
  /\ UNCHANGED <<cmds, acked, shown, asked, up, rate, batch, events, done, nodeVars, buildVars, calm>>

Release ==
  /\ released < MaxReleases /\ released' = released + 1
  /\ behind' = TRUE /\ staged' = FALSE
  /\ UNCHANGED <<cloudVars, up, rate, batch, events, done, nodeVars, calm>>

----------------------------------------------------------------------------
(* cloud_link: between two requests it is in its select!.                  *)
Selecting == up /\ batch = <<>>

(* api(complete): an answer that does not arrive is ignored, and so is one *)
(* to a command the cloud no longer has.                                   *)
Post(c, ok, arrives) ==
  /\ calm => arrives
  /\ open' = IF arrives THEN open \ {c} ELSE open
  /\ acked' = IF arrives /\ ok /\ c \in open THEN acked \cup {c} ELSE acked

Complete ==
  /\ Selecting /\ done # <<>> /\ done' = Tail(done)
  /\ \E arrives \in BOOLEAN : Post(Head(done).id, Head(done).ok, arrives)
  /\ UNCHANGED <<cmds, shown, asked, up, rate, batch, events, nodeVars, buildVars, calm>>

(* fetch_xmr_rate_per_kh: not on every push; one that fails, or yields no  *)
(* positive price, difficulty and reward, keeps the rate that was known.   *)
Score(found) == found = "positive"
FetchRate    == \E found \in {"nothing", "zero", "positive"} : rate' = (rate \/ Score(found))

(* build_snapshot: no estimate without a rate and a hashrate.              *)
UsdPerDay(hashing, known)   == hashing /\ known
BuildSnapshot(state, known) == [state |-> state, est |-> UsdPerDay(state = "mining", known)]

(* The commands an answer carries, oldest first.                           *)
InOrder(ids) ==
  {b \in [1..Cardinality(ids) -> ids] : \A i, j \in DOMAIN b : i < j => b[i] < b[j]}

(* A push that fails may still have been heard.                            *)
Push ==
  /\ Selecting /\ Len(events) + Len(done) <= MaxBacklog /\ FetchRate
  /\ LET snapshot == BuildSnapshot(report, rate') IN
       \/ shown' = snapshot /\ batch' \in InOrder(open)
       \/ ~calm /\ shown' \in {shown, snapshot} /\ UNCHANGED batch
  /\ UNCHANGED <<cmds, open, acked, asked, up, events, done, nodeVars, buildVars, calm>>

(* Slip: the link completes a command as it hands it on.                   *)
HandOnAndAnswer ==
  /\ up /\ batch # <<>> /\ cmds[Head(batch)] # "update"
  /\ events' = Append(events, Head(batch)) /\ batch' = Tail(batch)
  /\ Post(Head(batch), TRUE, TRUE)
  /\ UNCHANGED <<cmds, shown, asked, up, rate, done, nodeVars, buildVars, calm>>

(* A command the link hands on.                                            *)
HandOn ==
  /\ up /\ batch # <<>> /\ cmds[Head(batch)] # "update"
  /\ events' = Append(events, Head(batch)) /\ batch' = Tail(batch)
  /\ UNCHANGED <<cloudVars, up, rate, done, nodeVars, buildVars, calm>>

(* update::fetch_and_stage: stages what is newer than the running build.   *)
Fetch(ok) == /\ calm => ok
             /\ staged' = (staged \/ (ok /\ behind))

(* An update command: fetched, completed and only then told to the miner.  *)
Update ==
  /\ up /\ batch # <<>> /\ cmds[Head(batch)] = "update" /\ batch' = Tail(batch)
  /\ \E ok \in BOOLEAN, arrives \in BOOLEAN :
       /\ Fetch(ok) /\ Post(Head(batch), ok, arrives)
       /\ events' = IF ok /\ behind THEN Append(events, Restart) ELSE events
  /\ UNCHANGED <<cmds, shown, asked, up, rate, done, nodeVars, behind, released, calm>>

(* The daily check, when there is something to stage.                      *)
DailyCheck ==
  /\ Selecting /\ behind /\ Len(events) + Len(done) <= MaxBacklog
  /\ \E ok \in BOOLEAN : /\ Fetch(ok)
                         /\ events' = IF ok THEN Append(events, Restart) ELSE events
  /\ UNCHANGED <<cloudVars, up, rate, batch, done, nodeVars, behind, released, calm>>

----------------------------------------------------------------------------
(* cmd_run: the drain of the queue, one event at a time, then the report.  *)
Apply ==
  /\ up /\ events # <<>> /\ Head(events) # Restart
  /\ LET c == Head(events)
         known == cmds[c] \in {"start", "stop"}
     IN  /\ want' = IF known THEN cmds[c] = "start" ELSE want
         /\ stopFlag' = IF known THEN cmds[c] = "stop" ELSE stopFlag
         /\ obeyed' = IF known THEN obeyed \cup {c} ELSE obeyed
         /\ done' = Append(done, [id |-> c, ok |-> known])
  /\ events' = Tail(events)
  /\ UNCHANGED <<cloudVars, up, rate, batch, report, buildVars, calm>>

(* Slip: the report is made only while the miner is wanted.                *)
ReportWanted ==
  /\ up /\ events = <<>> /\ want /\ report' = "mining"
  /\ UNCHANGED <<cloudVars, up, rate, batch, events, done, want, stopFlag, obeyed, buildVars, calm>>

Report ==
  /\ up /\ events = <<>>
  /\ report' = IF want THEN "mining" ELSE "idle"
  /\ UNCHANGED <<cloudVars, up, rate, batch, events, done, want, stopFlag, obeyed, buildVars, calm>>

(* The process ends, with whatever its queues still held.                  *)
Ends ==
  /\ up' = FALSE /\ rate' = FALSE /\ batch' = <<>> /\ events' = <<>> /\ done' = <<>>
  /\ UNCHANGED <<cloudVars, nodeVars, buildVars>>

(* restart_for_update                                                      *)
RestartForUpdate == up /\ events # <<>> /\ Head(events) = Restart /\ Ends /\ UNCHANGED calm

Crash == up /\ ~calm /\ Ends /\ UNCHANGED calm

(* Slip: a node that starts again mines, whatever its owner last said.     *)
BootMines ==
  /\ ~up /\ up' = TRUE /\ want' = TRUE /\ report' = "starting"
  /\ behind' = (behind /\ ~staged) /\ staged' = FALSE
  /\ UNCHANGED <<cloudVars, rate, batch, events, done, stopFlag, obeyed, released, calm>>

(* systemd starts it again: the staged build, and the stop that was saved. *)
Boot ==
  /\ ~up /\ up' = TRUE
  /\ want' = ~stopFlag /\ report' = "starting"
  /\ behind' = (behind /\ ~staged) /\ staged' = FALSE
  /\ UNCHANGED <<cloudVars, rate, batch, events, done, stopFlag, obeyed, released, calm>>

Calm == ~calm /\ calm' = TRUE
        /\ UNCHANGED <<cloudVars, up, rate, batch, events, done, nodeVars, buildVars>>

Next ==
  \/ \E a \in Actions : Give(a)
  \/ \E c \in Ids : Expire(c)
  \/ Release \/ Complete \/ Push \/ HandOn \/ Update \/ DailyCheck
  \/ Apply \/ Report \/ RestartForUpdate \/ Crash \/ Boot \/ Calm

Spec == Init /\ [][Next]_vars

(* The miner's tick and the push's interval come round, systemd restarts   *)
(* the daemon; select! picks among ready arms at random, so neither arm of *)
(* it is passed over for ever.                                             *)
FairSpec ==
  /\ Spec /\ WF_vars(HandOn) /\ WF_vars(Update) /\ WF_vars(Apply) /\ WF_vars(Report)
  /\ WF_vars(RestartForUpdate) /\ WF_vars(Boot)
  /\ SF_vars(Complete) /\ SF_vars(Push)

----------------------------------------------------------------------------
(* Properties *)

(* A start or stop the cloud counts as done was applied by the miner loop, *)
(* whatever was lost, repeated, expired or restarted on the way: the link  *)
(* never answers for the miner.                                            *)
AckedWasObeyed ==
  \A c \in acked : cmds[c] \in {"start", "stop"} => c \in obeyed

(* The owner's last start or stop, given once requests arrive, is what the *)
(* node does in the end: commands completed late, delivered twice or lost  *)
(* with the queues of a process that restarts into an update never leave   *)
(* an older one in force.                                                  *)
OwnerWins == <>[](asked # "nothing" => (want <=> asked = "start"))

(* The fleet comes to show what the node does, not a stale row, and no     *)
(* earnings of a node that its owner has stopped.                          *)
FleetSeesIt ==
  <>[](calm => /\ shown.state = IF want THEN "mining" ELSE "idle"
               /\ shown.est => want)
=============================================================================
