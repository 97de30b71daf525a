---------------------------- MODULE SelfUpdate -----------------------------
(***************************************************************************)
(* Signed self-update of a headless node (pasivd/src/update.rs, and its    *)
(* callers in main.rs): releases are downloaded, verified and staged next  *)
(* to their signature; at each start the installed binary, as a launcher,  *)
(* verifies the staged build again and execs it if it is newer.  A build   *)
(* that does not check in is given up after MaxPendingBoots starts.        *)
(*                                                                         *)
(* A file's content is the version of the release it holds, NoFile, or     *)
(* Torn (a write cut short); a signature is the version it signs.  Every   *)
(* write to disk is a step of its own, because the service may be killed   *)
(* between any two of them, and because `pasivd update` (the "cli") stages *)
(* into the same files while the service runs or starts.  A write first    *)
(* truncates its file: on a full disk, or when its process dies in it, the *)
(* file is left torn; on a read-only mount it is left as it was.  An       *)
(* ignored error (the count, the removals) goes on, any other ends the     *)
(* staging.  `pasivd update` runs as root: what it creates the service may *)
(* remove but not rewrite, until the command's last step hands it over.    *)
(* (The directory itself is assumed to be the service's, which makes it in *)
(* its first daily check; and what a power cut takes of files that nobody  *)
(* syncs is left out.)                                                     *)
(*                                                                         *)
(* Once `calm`, nothing is published, installed by hand or killed any more *)
(* and the disk works; only broken builds still fail.                      *)
(***************************************************************************)
EXTENDS Integers

CONSTANTS
  MaxVersion,      \* releases are numbered 0..MaxVersion
  Broken,          \* the releases that never check in
  MaxPendingBoots, \* MAX_PENDING_BOOTS
  MaxLost          \* bound: the lost counts in a row that the history tells apart

Version == 0..MaxVersion
NoFile  == -1
Torn    == -2
Content == Version \cup {NoFile, Torn}
Stager  == {"daemon", "cli"}

Owned   == {"sig", "partial", "pending"}   \* files whose owner matters

ASSUME UpdateAssumption ==
  /\ MaxVersion \in Nat /\ MaxPendingBoots \in Nat \ {0} /\ MaxLost \in Nat
  /\ Broken \subseteq Version \ {0}

VARIABLES
  release,    \* the latest published release
  installed,  \* /usr/local/bin/pasivd
  staged,     \* update/pasivd
  sig,        \* update/pasivd.minisig
  partial,    \* update/pasivd.partial
  pending,    \* update/pending-boots: a count (0 also when torn: see PendingBoots), or NoFile
  rootOwned,  \* the files of Owned that exist and belong to root
  pc,         \* the service: "off", "launch", "run"; between a verdict and the run:
              \* "discard", "forget", "uncount", or "bump", "exec"
  own,        \* the version of the launcher's binary
  build,      \* the version of the code that runs
  boots,      \* pending, as the launcher read it
  healthy,    \* this process has checked in
  stage,      \* what each stager is doing: [step, build]
  calm,       \* the environment has become benign for good
  tries,      \* history: launches in a row that did not check in, since the last staging
              \* (capped at MaxTries)
  lost        \* history: those of them whose count did not reach the file (capped at
              \* MaxLost + 1)

files   == <<staged, sig, partial, pending, rootOwned>>
service == <<pc, own, build, boots, healthy>>
history == <<tries, lost>>
vars    == <<release, installed, files, service, stage, calm, history>>

Idle == [step |-> "idle", build |-> NoFile]

Init ==
  /\ release = 0 /\ installed = 0
  /\ staged = NoFile /\ sig = NoFile /\ partial = NoFile /\ pending = NoFile
  /\ rootOwned = {}
  /\ pc = "off" /\ own = 0 /\ build = 0 /\ boots = 0 /\ healthy = FALSE
  /\ stage = [p \in Stager |-> Idle]
  /\ calm = FALSE /\ tries = 0 /\ lost = 0

----------------------------------------------------------------------------
(* Files and their owners.                                                  *)

MayWrite(p, file) == p = "cli" \/ file \notin rootOwned

\* A new file is its writer's.
Owns(p, file, content, content1) ==
  rootOwned' = IF p = "cli" /\ content = NoFile /\ content1 # NoFile
               THEN rootOwned \cup {file} ELSE rootOwned

\* read_pending_boots: what is missing or does not parse is 0.  A count has one digit, so
\* a torn one is empty, and read as if it were 0.
PendingBoots == IF pending = NoFile THEN 0 ELSE pending
TornCount    == 0

\* write_pending_boots ignores every error: the count is written, or stays as it was, or
\* is torn.
WritePending(p, n) ==
  /\ pending' \in IF ~MayWrite(p, "pending") THEN {pending}
                  ELSE IF calm THEN {n} ELSE {n, pending, TornCount}
  /\ Owns(p, "pending", pending, pending')

MaxTries == MaxPendingBoots * (MaxLost + 1) + 1
Afresh   == tries' = 0 /\ lost' = 0

----------------------------------------------------------------------------
(* The world outside.                                                       *)

Settle ==
  /\ ~calm /\ calm' = TRUE
  /\ UNCHANGED <<release, installed, files, service, stage, history>>

Publish ==
  /\ ~calm /\ release < MaxVersion
  /\ release' = release + 1
  /\ UNCHANGED <<installed, files, service, stage, calm, history>>

\* install.sh puts the latest release in place, one that works; nobody runs
\* `pasivd update` meanwhile.
Reinstall ==
  /\ ~calm /\ installed < release /\ release \notin Broken /\ stage["cli"] = Idle
  /\ installed' = release
  /\ UNCHANGED <<release, files, service, stage, calm, history>>

Goto(p, step) == stage' = [stage EXCEPT ![p].step = step]
Stop(p)       == stage' = [stage EXCEPT ![p] = Idle]

\* A write of the partial file or of the signature stops half-way.
Tear(p) ==
  \/ /\ stage[p].step = "fetched" /\ MayWrite(p, "partial")
     /\ partial' = Torn /\ Owns(p, "partial", partial, Torn) /\ UNCHANGED sig
  \/ /\ stage[p].step = "newer" /\ MayWrite(p, "sig")
     /\ sig' = Torn /\ Owns(p, "sig", sig, Torn) /\ UNCHANGED partial

\* A stager that dies leaves a file whole, or torn if it was writing it.
Cut(p) ==
  /\ Stop(p)
  /\ \/ UNCHANGED <<sig, partial, pending, rootOwned, tries, lost>>
     \/ Tear(p) /\ UNCHANGED <<pending, tries, lost>>
     \/ /\ stage[p].step = "renamed" /\ MayWrite(p, "pending")
        /\ pending' = TornCount /\ Owns(p, "pending", pending, TornCount) /\ Afresh
        /\ UNCHANGED <<sig, partial>>

ProcessGone ==
  /\ pc' = "off" /\ own' = 0 /\ build' = 0 /\ boots' = 0 /\ healthy' = FALSE

Crash ==
  /\ pc # "off"
  /\ ~calm \/ (pc = "run" /\ build \in Broken)
  /\ Cut("daemon")
  /\ ProcessGone
  /\ UNCHANGED <<release, installed, staged, calm>>

CliKilled ==
  /\ ~calm /\ stage["cli"] # Idle
  /\ Cut("cli")
  /\ UNCHANGED <<release, installed, staged, service, calm>>

----------------------------------------------------------------------------
(* launch_staged_if_any, at every start of the service.                     *)

\* systemd waits RestartSec=10 first: longer than the local steps of a `pasivd update`.
Start ==
  /\ pc = "off" /\ stage["cli"].step \in {"idle", "fetched"}
  /\ pc' = "launch" /\ own' = installed /\ build' = installed /\ healthy' = FALSE
  /\ UNCHANGED <<release, installed, files, boots, stage, calm, history>>

RunInstalled ==
  /\ pc' = "run" /\ Afresh

NothingStaged ==
  /\ pc = "launch" /\ staged = NoFile
  /\ RunInstalled
  /\ UNCHANGED <<release, installed, files, own, build, boots, healthy, stage, calm>>

Signed == staged \in Version /\ sig = staged

\* Slip: an older build is good enough.
DecideAnySigned(signed, version, mine, starts) ==
  signed /\ starts < MaxPendingBoots

\* decide: exec the staged build?
DecideExec(signed, version, mine, starts) ==
  signed /\ version > mine /\ starts < MaxPendingBoots

Decide ==
  /\ pc = "launch" /\ staged # NoFile
  /\ IF DecideExec(Signed, staged, own, PendingBoots)
     THEN pc' = "bump" /\ boots' = PendingBoots
     ELSE pc' = "discard" /\ UNCHANGED boots
  /\ UNCHANGED <<release, installed, files, own, build, healthy, stage, calm, tries, lost>>

\* discard_staged: the binary goes first, then its signature, then the count; an error
\* of the disk stops none of it.
DiscardBinary ==
  /\ pc = "discard" /\ pc' = "forget"
  /\ staged' = NoFile \/ (~calm /\ UNCHANGED staged)
  /\ UNCHANGED <<release, installed, sig, partial, pending, rootOwned, own, build, boots,
                 healthy, stage, calm, history>>

DiscardSignature ==
  /\ pc = "forget" /\ pc' = "uncount"
  /\ \/ sig' = NoFile /\ rootOwned' = rootOwned \ {"sig"}
     \/ ~calm /\ UNCHANGED <<sig, rootOwned>>
  /\ UNCHANGED <<release, installed, staged, partial, pending, own, build, boots, healthy,
                 stage, calm, history>>

DiscardCount ==
  /\ pc = "uncount"
  /\ WritePending("daemon", 0)
  /\ RunInstalled
  /\ UNCHANGED <<release, installed, staged, sig, partial, own, build, boots, healthy, stage,
                 calm>>

\* A start of the staged build, and whether the file counts it; past the bound, the
\* history no longer tells how many.
OneMoreTry ==
  /\ lost' = IF pending' = boots + 1 \/ lost > MaxLost THEN lost ELSE lost + 1
  /\ tries' = IF lost' <= MaxLost /\ tries < MaxTries THEN tries + 1 ELSE MaxTries

\* Slip: the start is counted only after the exec, which does not return.
CountBootAfterExec ==
  /\ pc = "bump"
  /\ tries' = IF tries < MaxTries THEN tries + 1 ELSE MaxTries
  /\ pc' = "exec" /\ boots' = 0
  /\ UNCHANGED <<release, installed, files, own, build, healthy, stage, calm, lost>>

CountBoot ==
  /\ pc = "bump"
  /\ WritePending("daemon", boots + 1) /\ OneMoreTry
  /\ pc' = "exec" /\ boots' = 0
  /\ UNCHANGED <<release, installed, staged, sig, partial, own, build, healthy, stage,
                 calm>>

\* Whatever the staged file holds by now is what runs.
Exec ==
  /\ pc = "exec" /\ staged # NoFile
  /\ pc' = "run" /\ build' = staged
  /\ UNCHANGED <<release, installed, files, own, boots, healthy, stage, calm, history>>

ExecFails ==
  /\ pc = "exec" /\ ~calm
  /\ RunInstalled
  /\ UNCHANGED <<release, installed, files, own, build, boots, healthy, stage, calm>>

----------------------------------------------------------------------------
(* A running build proves itself: build_checked_in, then mark_healthy.      *)

\* Minutes of hashing, a share, or a longer time up while stopped: what a broken build
\* never comes to.
BuildCheckedIn == build \notin Broken

CheckIn ==
  /\ pc = "run" /\ ~healthy /\ BuildCheckedIn
  /\ healthy' = TRUE
  /\ IF PendingBoots # 0 THEN WritePending("daemon", 0) ELSE UNCHANGED <<pending, rootOwned>>
  /\ Afresh
  /\ UNCHANGED <<release, installed, staged, sig, partial, pc, own, build, boots, stage, calm>>

----------------------------------------------------------------------------
(* fetch_and_stage, by the running service or by `pasivd update`.           *)

\* The version of the code that stages.
OwnOf(p) == IF p = "daemon" THEN build ELSE installed

MayStage(p) == IF p = "daemon" THEN pc = "run" ELSE ~calm

\* Only a verified download gets here; any failure before it leaves no trace.
Fetch(p) ==
  /\ stage[p] = Idle /\ MayStage(p)
  /\ stage' = [stage EXCEPT ![p] = [step |-> "fetched", build |-> release]]
  /\ UNCHANGED <<release, installed, files, service, calm, history>>

WritePartial(p) ==
  /\ stage[p].step = "fetched"
  /\ IF MayWrite(p, "partial")
     THEN /\ partial' = stage[p].build /\ Owns(p, "partial", partial, partial')
          /\ Goto(p, "written")
     ELSE Stop(p) /\ UNCHANGED <<partial, rootOwned>>
  /\ UNCHANGED <<release, installed, staged, sig, pending, service, calm, history>>

\* Slip: the release that runs already counts as newer.
CheckVersionNotOlder(p) ==
  /\ stage[p].step = "written"
  /\ IF partial \in Version /\ partial >= OwnOf(p)
     THEN Goto(p, "newer") /\ UNCHANGED <<partial, rootOwned>>
     ELSE /\ partial' = NoFile /\ rootOwned' = rootOwned \ {"partial"}
          /\ IF p = "cli" /\ partial \in Version THEN Goto(p, "chown") ELSE Stop(p)
  /\ UNCHANGED <<release, installed, staged, sig, pending, service, calm, history>>

\* A partial file that does not run (an error) or is no newer (up to date) is removed.
CheckVersion(p) ==
  /\ stage[p].step = "written"
  /\ IF partial \in Version /\ partial > OwnOf(p)
     THEN Goto(p, "newer") /\ UNCHANGED <<partial, rootOwned>>
     ELSE /\ partial' = NoFile /\ rootOwned' = rootOwned \ {"partial"}
          /\ IF p = "cli" /\ partial \in Version THEN Goto(p, "chown") ELSE Stop(p)
  /\ UNCHANGED <<release, installed, staged, sig, pending, service, calm, history>>

WriteSignature(p) ==
  /\ stage[p].step = "newer"
  /\ IF MayWrite(p, "sig")
     THEN /\ sig' = stage[p].build /\ Owns(p, "sig", sig, sig')
          /\ Goto(p, "signed")
     ELSE Stop(p) /\ UNCHANGED <<sig, rootOwned>>
  /\ UNCHANGED <<release, installed, staged, partial, pending, service, calm, history>>

\* The rename fails when the other stager took the partial file away.
Rename(p) ==
  /\ stage[p].step = "signed"
  /\ IF partial = NoFile
     THEN Stop(p) /\ UNCHANGED <<staged, partial, rootOwned>>
     ELSE /\ Goto(p, "renamed")
          /\ staged' = partial /\ partial' = NoFile /\ rootOwned' = rootOwned \ {"partial"}
  /\ UNCHANGED <<release, installed, sig, pending, service, calm, tries, lost>>

\* A write, or the rename, fails for another reason: the error ends the staging.
WriteFails(p) ==
  /\ ~calm /\ stage[p].step \in {"fetched", "newer", "signed"}
  /\ Stop(p)
  /\ Tear(p) \/ UNCHANGED <<sig, partial, rootOwned>>
  /\ UNCHANGED <<release, installed, staged, pending, service, calm, history>>

ResetPending(p) ==
  /\ stage[p].step = "renamed"
  /\ WritePending(p, 0) /\ Afresh
  /\ Goto(p, IF p = "daemon" THEN "restart" ELSE "chown")
  /\ UNCHANGED <<release, installed, staged, sig, partial, service, calm>>

\* cmd_update hands the directory, the staged build, its signature and the count over.
Chown(p) ==
  /\ stage[p].step = "chown"
  /\ rootOwned' = rootOwned \ {"sig", "pending"}
  /\ Stop(p)
  /\ UNCHANGED <<release, installed, staged, sig, partial, pending, service, calm, history>>

\* CloudEvent::RestartInto reaches the miner loop: restart_for_update.
RestartInto ==
  /\ stage["daemon"].step = "restart"
  /\ Stop("daemon")
  /\ ProcessGone
  /\ UNCHANGED <<release, installed, files, calm, history>>

Staging(p) ==
  \/ Fetch(p) \/ WritePartial(p) \/ CheckVersion(p) \/ WriteSignature(p) \/ Rename(p)
  \/ WriteFails(p) \/ ResetPending(p) \/ Chown(p)

----------------------------------------------------------------------------

Launching ==
  \/ Start \/ NothingStaged \/ Decide \/ DiscardBinary \/ DiscardSignature \/ DiscardCount
  \/ CountBoot \/ Exec \/ ExecFails

Next ==
  \/ Settle \/ Publish \/ Reinstall \/ Crash \/ CliKilled
  \/ Launching \/ CheckIn \/ RestartInto
  \/ \E p \in Stager : Staging(p)

Spec == Init /\ [][Next]_vars

\* systemd restarts the service (Restart=always), the service repeats its daily check, and
\* nobody holds a `pasivd update` half-way for ever.
FairSpec ==
  /\ Spec
  /\ WF_vars(Launching)
  /\ \A p \in Stager : WF_vars(Staging(p))
  /\ WF_vars(RestartInto)

----------------------------------------------------------------------------
(* Properties.                                                              *)

TypeOK ==
  /\ release \in Version /\ installed \in Version
  /\ staged \in Content /\ sig \in Content /\ partial \in Content
  /\ pending \in {NoFile} \cup 0..MaxPendingBoots /\ rootOwned \subseteq Owned
  /\ pc \in {"off", "launch", "discard", "forget", "uncount", "bump", "exec", "run"}
  /\ own \in Version /\ build \in Content /\ boots \in 0..MaxPendingBoots
  /\ healthy \in BOOLEAN /\ calm \in BOOLEAN
  /\ stage \in [Stager -> [step : {"idle", "fetched", "written", "newer", "signed", "renamed",
                                   "chown", "restart"},
                           build : Version \cup {NoFile}]]
  /\ tries \in 0..MaxTries /\ lost \in 0..(MaxLost + 1)

\* "Nothing unsigned is ever executed": what runs is a whole release, and a staged one
\* runs only in place of an older installed one, even when files change under the launcher.
RunsOnlyNewer ==
  pc = "run" => build = own \/ (build \in Version /\ build > own)

\* It, with the types.
UpdateInv == TypeOK /\ RunsOnlyNewer

\* The node spends at most MaxPendingBoots starts in a row on staged builds that do not
\* check in, and as many again for each start whose count did not reach the file (a full
\* disk, a read-only mount, a kill in the write, root's file); then the installed binary
\* gets its turn.
BoundedTries == lost <= MaxLost => tries <= MaxPendingBoots * (lost + 1)

\* Left alone, a node ends up on the latest release, unless that one is broken, or an
\* interrupted `pasivd update` left files behind that the service cannot rewrite.
Converges ==
  <>[]calm =>
    <>[](release \notin Broken /\ rootOwned = {} =>
           pc = "run" /\ build = release)

============================================================================
