------------------------------- MODULE Engine -------------------------------
(***************************************************************************)
(* The CPU engine on a node's disk and at work: ensure_xmrig (fetch, pin,  *)
(* unpack, replace), spawn_xmrig with its runtime config (pasivd/xmrig.rs) *)
(* and the login of a running miner over all its pools                     *)
(* (pasiv-core/xmrig.rs).                                                  *)
(*                                                                         *)
(* Every build of pasivd pins one engine; an update or a rollback changes  *)
(* which build starts.  The daemon may be killed between any two writes    *)
(* until `calm`; downloads and unpacking may fail, the engine's file may   *)
(* vanish, and a machine that loses power loses what was renamed but never *)
(* synced.  The miner switches pools on its own, and others may rewrite    *)
(* the login of one of them.                                               *)
(*                                                                         *)
(* Left out: the bytes of an archive (a download is the pinned one or is   *)
(* refused), and when a swap is asked for (FeeDiscipline, NodeLoop).       *)
(***************************************************************************)
EXTENDS Naturals

CONSTANTS
  Pins,      \* the engines the builds of pasivd pin
  Pools,     \* the pools of the miner's config
  primary    \* pools[0]

ASSUME EngineAssumption == primary \in Pools /\ {"absent", "torn"} \cap Pins = {}

Sides == {"user", "fee"}
Logins == Sides \cup {"other"}

VARIABLES
  pc,      \* "down", "check", "fetch", "unpack", "verify", "retire", "wait", "ready"
  pin,     \* XMRIG_BIN_SHA256 of the build that runs
  bin,     \* <data>/pasiv-rx: a pinned engine, "torn" or "absent"
  partial, \* the file it is unpacked to
  legacy,  \* <data>/xmrig of pasivd 0.1.12 and before is still there
  synced,  \* the renamed engine has reached the disk
  miner,   \* the engine that runs, or "absent"
  file,    \* xmrig-runtime.json: "absent", the http block "open" or "locked"
           \* (read-only), or "whole" (rewritten by xmrig)
  users,   \* the login of every pool
  live,    \* the pool the miner is connected to
  side,    \* the side the last read-back found it on, or "other"
  calm

diskVars  == <<bin, partial, legacy, synced>>
minerVars == <<miner, file, users, live, side>>
vars == <<pc, pin, diskVars, minerVars, calm>>

TypeOK ==
  /\ pc \in {"down", "check", "fetch", "unpack", "verify", "retire", "wait", "ready"}
  /\ pin \in Pins /\ bin \in Pins \cup {"torn", "absent"}
  /\ partial \in Pins \cup {"torn", "absent"}
  /\ legacy \in BOOLEAN /\ synced \in BOOLEAN /\ calm \in BOOLEAN
  /\ miner \in Pins \cup {"torn", "absent"} /\ file \in {"absent", "open", "locked", "whole"}
  /\ users \in [Pools -> Logins] /\ live \in Pools /\ side \in Logins

(* A new node, one that still has the engine of an older version, and one  *)
(* left by a version that unpacked in place.                               *)
Init ==
  /\ pc = "down" /\ pin \in Pins
  /\ bin \in Pins \cup {"torn", "absent"} /\ partial = "absent"
  /\ legacy \in BOOLEAN /\ synced = TRUE
  /\ miner = "absent" /\ file = "absent"
  /\ users = [p \in Pools |-> "user"] /\ live = primary /\ side = "other"
  /\ calm = FALSE

----------------------------------------------------------------------------
(* ensure_xmrig                                                            *)
Boot(p) ==
  /\ pc = "down" /\ pc' = "check" /\ pin' = p
  /\ UNCHANGED <<diskVars, minerVars, calm>>

(* Slip: what exists is trusted (as before the check on every start).      *)
CheckExists ==
  /\ pc = "check" /\ pc' = IF bin # "absent" THEN "retire" ELSE "fetch"
  /\ UNCHANGED <<pin, diskVars, minerVars, calm>>
(* Slip: what fails the pin is deleted first.                              *)
CheckDeletes ==
  /\ pc = "check" /\ pc' = IF bin = pin THEN "retire" ELSE "fetch"
  /\ bin' = IF bin = pin THEN bin ELSE "absent"
  /\ UNCHANGED <<pin, partial, legacy, synced, minerVars, calm>>

Check ==
  /\ pc = "check" /\ pc' = IF bin = pin THEN "retire" ELSE "fetch"
  /\ UNCHANGED <<pin, diskVars, minerVars, calm>>

(* The download and its digest; a leftover partial goes.                   *)
Fetch ==
  /\ pc = "fetch"
  /\ \/ pc' = "unpack" /\ partial' = "absent"
     \/ ~calm /\ pc' = "wait" /\ UNCHANGED partial
  /\ UNCHANGED <<pin, bin, legacy, synced, minerVars, calm>>

Unpack ==
  /\ pc = "unpack"
  /\ \/ partial = "absent" /\ partial' = "torn" /\ UNCHANGED pc
     \/ partial = "torn" /\ partial' = pin /\ pc' = "verify"
     \/ ~calm /\ pc' = "wait" /\ UNCHANGED partial  \* disk full, not in the archive
  /\ UNCHANGED <<pin, bin, legacy, synced, minerVars, calm>>

(* The file is read back and renamed over the old one only if it is right. *)
Verify ==
  /\ pc = "verify" /\ partial' = "absent"
  /\ \/ pc' = "retire" /\ bin' = partial /\ synced' = FALSE
     \/ ~calm /\ pc' = "wait" /\ UNCHANGED <<bin, synced>>
  /\ UNCHANGED <<pin, legacy, minerVars, calm>>

(* retire_legacy_xmrig                                                     *)
Retire ==
  /\ pc = "retire" /\ pc' = "ready" /\ legacy' = FALSE
  /\ UNCHANGED <<pin, bin, partial, synced, minerVars, calm>>

(* Slip: it is asked again only when no file is there at all.              *)
RetryWhenGone ==
  pc = "wait" /\ bin = "absent" /\ pc' = "check" /\ UNCHANGED <<pin, diskVars, minerVars, calm>>

(* The miner loop asks again while it has no binary.                       *)
Retry == pc = "wait" /\ pc' = "check" /\ UNCHANGED <<pin, diskVars, minerVars, calm>>

----------------------------------------------------------------------------
(* xmrig saves its whole configuration when it starts, unless autosave is  *)
(* off, and on every PUT, unless the file is read-only.  Making it so is   *)
(* best effort: the miner starts beside a file that could not be locked.   *)
RuntimeConfig      == [autosave |-> FALSE, watch |-> FALSE, restricted |-> FALSE]
WriteRuntimeConfig == {"locked", "open"}
SaveOnStart(f)     == IF RuntimeConfig.autosave /\ f = "open" THEN "whole" ELSE f
SaveOnPut(f)       == IF f = "open" THEN "whole" ELSE f

(* spawn_xmrig: the config first, then the process.                        *)
Spawn ==
  /\ pc = "ready" /\ miner = "absent" /\ bin # "absent"
  /\ miner' = bin /\ \E f \in WriteRuntimeConfig : file' = SaveOnStart(f)
  /\ users' = [p \in Pools |-> "user"] /\ live' = primary /\ side' = "other"
  /\ UNCHANGED <<pc, pin, diskVars, calm>>

(* Either of them fails; a missing file sends the loop back to ensure_xmrig. *)
SpawnFails ==
  /\ pc = "ready" /\ miner = "absent" /\ (~calm \/ bin = "absent")
  /\ file' \in {file, "absent"} \cup WriteRuntimeConfig
  /\ pc' = IF bin = "absent" THEN "wait" ELSE pc
  /\ UNCHANGED <<pin, diskVars, miner, users, live, side, calm>>

AllPoolsUsePrimary(s) == users[primary] = s  \* slip: the first pool stands for all
AllPoolsUse(s) == \A p \in Pools : users[p] = s

(* config_with_user and the PUT of it.                                     *)
Swap(s) ==
  /\ miner # "absent" /\ users' = [p \in Pools |-> s]
  /\ side' = "other" /\ file' = SaveOnPut(file)
  /\ UNCHANGED <<pc, pin, diskVars, miner, live, calm>>

(* The read-back of the reconcile.                                         *)
ReadBack(s) ==
  /\ miner # "absent" /\ side' = IF AllPoolsUse(s) THEN s ELSE "other"
  /\ UNCHANGED <<pc, pin, diskVars, miner, file, users, live, calm>>

FailOver(p) ==
  /\ miner # "absent" /\ live' = p
  /\ UNCHANGED <<pc, pin, diskVars, miner, file, users, side, calm>>

(* Another client of the API: what was read back holds no longer.          *)
Rewrite(p, l) ==
  /\ ~calm /\ miner # "absent" /\ users' = [users EXCEPT ![p] = l]
  /\ side' = "other" /\ file' = SaveOnPut(file)
  /\ UNCHANGED <<pc, pin, diskVars, miner, live, calm>>

MinerDies ==
  /\ ~calm /\ miner # "absent" /\ miner' = "absent" /\ side' = "other"
  /\ UNCHANGED <<pc, pin, diskVars, file, users, live, calm>>

(* `pasivd doctor`, of the build that runs, on the file.                   *)
DoctorBinary == IF bin = "absent" THEN "WARN" ELSE IF bin = pin THEN "PASS" ELSE "FAIL"

----------------------------------------------------------------------------
(* The daemon ends with its control group.                                 *)
Ends == pc' = "down" /\ miner' = "absent" /\ side' = "other"
        /\ UNCHANGED <<pin, partial, legacy, file, users, live>>

Crash == ~calm /\ pc # "down" /\ Ends /\ UNCHANGED <<bin, synced, calm>>

PowerCut ==
  /\ ~calm /\ pc # "down" /\ Ends /\ synced' = TRUE
  /\ bin' \in (IF synced THEN {bin} ELSE {bin, "torn"})
  /\ UNCHANGED calm

Settle == ~synced /\ synced' = TRUE
          /\ UNCHANGED <<pc, pin, bin, partial, legacy, minerVars, calm>>

(* Someone removes the file, of a miner that runs or between two runs.     *)
Vanish == ~calm /\ pc \in {"ready", "down"} /\ bin # "absent" /\ bin' = "absent" /\ synced' = TRUE
          /\ UNCHANGED <<pc, pin, partial, legacy, minerVars, calm>>

Calm == ~calm /\ calm' = TRUE /\ UNCHANGED <<pc, pin, diskVars, minerVars>>

Ensure == Check \/ Fetch \/ Unpack \/ Verify \/ Retire \/ Retry

Next ==
  \/ \E p \in Pins : Boot(p)
  \/ Ensure \/ Spawn \/ SpawnFails
  \/ \E s \in Sides : Swap(s) \/ ReadBack(s)
  \/ \E p \in Pools : FailOver(p) \/ \E l \in Logins : Rewrite(p, l)
  \/ MinerDies \/ Crash \/ PowerCut \/ Settle \/ Vanish \/ Calm

Spec == Init /\ [][Next]_vars

(* systemd starts the daemon, and its loop runs.                           *)
FairSpec == Spec /\ WF_vars(\E p \in Pins : Boot(p)) /\ WF_vars(Ensure)
            /\ WF_vars(Spawn \/ SpawnFails)

----------------------------------------------------------------------------
(* Properties *)

(* "A binary that fails the pin is NEVER run": the miner that runs is the  *)
(* engine its daemon pins, across updates, rollbacks, torn files and       *)
(* crashes between any two steps; and the doctor of that build does not    *)
(* say of its file that it will be fetched again.                          *)
RunsPinned == miner # "absent" => miner = pin /\ DoctorBinary # "FAIL"

(* No failed fetch, full disk or kill takes away the engine a node has: it *)
(* keeps its old miner until the replacement is proven.  (A power cut just *)
(* after the rename may: the code does not sync what it unpacked.)         *)
HasEngine == bin \in Pins \/ legacy
KeepsAMiner == [][HasEngine => HasEngine' \/ Vanish \/ (PowerCut /\ ~synced)]_vars

(* What a read-back found is what the miner earns for on whichever pool it *)
(* fails over to, until someone rewrites a login.                          *)
PaysOneSide == miner # "absent" /\ side # "other" => users[live] = side

(* Once downloads work and nothing crashes, the node gets its engine and   *)
(* runs it, from whatever was left on its disk.                            *)
EngineComes == calm ~> miner # "absent"

(* The inductive invariant behind the safety properties.                   *)
IInv ==
  /\ TypeOK /\ RunsPinned
  /\ side # "other" => \A p \in Pools : users[p] = side
  /\ pc = "retire" => bin = pin
  /\ pc = "ready" => bin \in {pin, "absent"}
  /\ pc = "verify" => partial = pin
  /\ miner # "absent" => pc = "ready"
=============================================================================
