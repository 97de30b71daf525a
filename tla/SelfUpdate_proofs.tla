-------------------------- MODULE SelfUpdate_proofs --------------------------
(***************************************************************************)
(* For any number of releases, any of them broken, and any number of       *)
(* granted starts: whatever dies between two writes, and whoever stages    *)
(* into the same files meanwhile, a node runs only whole and newer builds  *)
(* in place of its own, and grants no build more starts than it may have   *)
(* and than were lost with their counts.                                   *)
(***************************************************************************)
EXTENDS SelfUpdate, TLAPS

Starting == {"launch", "discard", "forget", "uncount", "bump", "exec"}

\* Only a running service stages, and until a staged build runs, the code is the
\* launcher's, which is no newer than what is installed by now.
ProcessInv ==
  /\ pc # "run" => stage["daemon"] = Idle
  /\ pc \in Starting => build = own
  /\ own <= installed

\* While the service starts, what a `pasivd update` is about to rename over the staged
\* build is whole and newer than the launcher: it began after the launcher did, and
\* nobody else touches the partial file meanwhile.
RaceInv ==
  pc \in Starting /\ stage["cli"].step \in {"newer", "signed"} =>
    partial \in Version /\ partial > own

\* So what was decided is still what will run.
ChosenInv == pc \in {"bump", "exec"} => staged \in Version /\ staged > own

\* The starts that l lost counts pay for.
Granted(l) == MaxPendingBoots * l

\* The file counts every start that `tries` counts, but those that were lost with what it
\* counted then; so does the count the launcher has in its hands.
CountInv ==
  /\ lost <= MaxLost => tries <= PendingBoots + Granted(lost)
  /\ lost <= MaxLost /\ pc = "bump" => tries <= boots + Granted(lost)
  /\ pc = "bump" => boots < MaxPendingBoots

LaunchInv == ProcessInv /\ RaceInv /\ ChosenInv /\ CountInv

----------------------------------------------------------------------------
(* Types.                                                                  *)

\* What a stager may be doing.
Steps == [step : {"idle", "fetched", "written", "newer", "signed", "renamed", "chown",
                  "restart"},
          build : Version \cup {NoFile}]

\* A stager at rest is a stager.
LEMMA IdleType == Idle \in Steps
  BY DEF Idle, Steps

\* A stager that stops, or goes on, is still a stager.
LEMMA StageTypes ==
  ASSUME TypeOK, NEW p \in Stager
  PROVE  /\ [stage EXCEPT ![p] = Idle] \in [Stager -> Steps]
         /\ \A s \in {"idle", "fetched", "written", "newer", "signed", "renamed", "chown",
                      "restart"} : [stage EXCEPT ![p].step = s] \in [Stager -> Steps]
<1>1. stage \in [Stager -> Steps]
  BY DEF TypeOK, Steps
<1>2. QED
  BY <1>1, IdleType DEF Steps

\* Each lost count pays for MaxPendingBoots starts.
LEMMA GrantedFacts ==
  /\ Granted(0) = 0
  /\ \A l \in Nat : Granted(l) \in Nat /\ Granted(l + 1) = Granted(l) + MaxPendingBoots
  BY UpdateAssumption DEF Granted

\* The history's bound is a number.
LEMMA MaxTriesType == MaxTries \in Nat
  BY UpdateAssumption, GrantedFacts DEF MaxTries, Granted

\* A stager that dies leaves files of their types, however it tears them.
LEMMA CutTypes ==
  ASSUME TypeOK, NEW p \in Stager, Cut(p)
  PROVE  /\ stage' \in [Stager -> Steps]
         /\ sig' \in Content /\ partial' \in Content
         /\ pending' \in {NoFile} \cup 0..MaxPendingBoots /\ rootOwned' \subseteq Owned
         /\ tries' \in 0..MaxTries /\ lost' \in 0..(MaxLost + 1)
<1> USE UpdateAssumption, MaxTriesType DEF TypeOK, Content, Owned, TornCount
<1>1. stage' \in [Stager -> Steps]
  BY StageTypes DEF Cut, Stop
<1>2. sig' \in Content /\ partial' \in Content
  BY DEF Cut, Tear
<1>3. pending' \in {NoFile} \cup 0..MaxPendingBoots
  BY DEF Cut
<1>4. rootOwned' \subseteq Owned
  BY DEF Cut, Tear, Owns
<1>5. tries' \in 0..MaxTries /\ lost' \in 0..(MaxLost + 1)
  BY DEF Cut, Afresh
<1>6. QED
  BY <1>1, <1>2, <1>3, <1>4, <1>5

\* A fresh node is type correct, and nothing is being launched.
LEMMA InitType == Init => TypeOK /\ LaunchInv
<1> SUFFICES ASSUME Init PROVE TypeOK /\ LaunchInv
  OBVIOUS
<1> USE UpdateAssumption, GrantedFacts, MaxTriesType DEF Init, Content, Version, NoFile, Torn
<1>1. stage \in [Stager -> Steps]
  BY IdleType
<1>2. /\ release \in Version /\ installed \in Version /\ own \in Version
      /\ staged \in Content /\ partial \in Content /\ build \in Content
      /\ boots \in 0..MaxPendingBoots /\ tries \in 0..MaxTries /\ lost \in 0..(MaxLost + 1)
  OBVIOUS
<1>3. TypeOK
  BY <1>1, <1>2 DEF TypeOK, Steps, Owned
<1>4. LaunchInv
  BY DEF LaunchInv, ProcessInv, RaceInv, ChosenInv, CountInv, Stager, Idle, Starting,
         PendingBoots
<1>5. QED
  BY <1>3, <1>4

\* Every step keeps the types: the count fits, because CountBoot adds to one below the limit.
LEMMA TypeKeeps == TypeOK /\ LaunchInv /\ [Next]_vars => TypeOK'
<1> SUFFICES ASSUME TypeOK, LaunchInv, [Next]_vars PROVE TypeOK'
  OBVIOUS
<1> USE UpdateAssumption, GrantedFacts, MaxTriesType
    DEF TypeOK, LaunchInv, CountInv, Content, Version, NoFile, Torn, Owned, Stager, Idle,
        files, service, history
<1>1. CASE Settle
  BY <1>1 DEF Settle
<1>2. CASE Publish
  BY <1>2 DEF Publish
<1>3. CASE Reinstall
  BY <1>3 DEF Reinstall
<1>4. CASE Crash
  <2>1. Cut("daemon")
    BY <1>4 DEF Crash
  <2>2. own' \in Version /\ build' \in Content /\ boots' \in 0..MaxPendingBoots
    BY <1>4 DEF Crash, ProcessGone
  <2>3. QED
    BY <1>4, <2>1, <2>2, CutTypes DEF Crash, ProcessGone, Steps
<1>5. CASE CliKilled
  <2>1. Cut("cli")
    BY <1>5 DEF CliKilled
  <2>2. QED
    BY <1>5, <2>1, CutTypes DEF CliKilled, Steps
<1>6. CASE Start
  BY <1>6 DEF Start
<1>7. CASE NothingStaged
  BY <1>7 DEF NothingStaged, RunInstalled, Afresh
<1>8. CASE Decide
  BY <1>8 DEF Decide, DecideExec, Signed, PendingBoots
<1>9. CASE DiscardBinary
  BY <1>9 DEF DiscardBinary
<1>10. CASE DiscardSignature
  BY <1>10 DEF DiscardSignature
<1>11. CASE DiscardCount
  BY <1>11 DEF DiscardCount, RunInstalled, Afresh, WritePending, MayWrite, Owns, TornCount
<1>12. CASE CountBoot
  BY <1>12 DEF CountBoot, WritePending, TornCount, OneMoreTry, MayWrite, Owns, PendingBoots
<1>13. CASE Exec
  BY <1>13 DEF Exec
<1>14. CASE ExecFails
  BY <1>14 DEF ExecFails, RunInstalled, Afresh
<1>15. CASE CheckIn
  <2>1. pending' \in {pending, 0} /\ rootOwned' = rootOwned
    BY <1>15 DEF CheckIn, WritePending, Owns, TornCount
  <2>2. QED
    BY <1>15, <2>1 DEF CheckIn, Afresh
<1>16. CASE RestartInto
  <2>1. stage' \in [Stager -> Steps]
    BY <1>16, StageTypes DEF RestartInto, Stop
  <2>2. own' \in Version /\ build' \in Content /\ boots' \in 0..MaxPendingBoots
    BY <1>16 DEF RestartInto, ProcessGone
  <2>3. QED
    BY <1>16, <2>1, <2>2 DEF RestartInto, ProcessGone, Steps
<1>17. ASSUME NEW p \in Stager, Fetch(p) PROVE TypeOK'
  BY <1>17 DEF Fetch, MayStage
<1>18. ASSUME NEW p \in Stager, WritePartial(p) PROVE TypeOK'
  BY <1>18 DEF WritePartial, MayWrite, Owns, Goto, Stop
<1>19. ASSUME NEW p \in Stager, CheckVersion(p) PROVE TypeOK'
  BY <1>19 DEF CheckVersion, OwnOf, Goto, Stop
<1>20. ASSUME NEW p \in Stager, WriteSignature(p) PROVE TypeOK'
  BY <1>20 DEF WriteSignature, MayWrite, Owns, Goto, Stop
<1>21. ASSUME NEW p \in Stager, Rename(p) PROVE TypeOK'
  <2>1. stage' \in [Stager -> Steps]
    BY <1>21, StageTypes DEF Rename, Goto, Stop
  <2>2. staged' \in Content /\ partial' \in Content /\ rootOwned' \subseteq Owned
    BY <1>21 DEF Rename
  <2>3. QED
    BY <1>21, <2>1, <2>2 DEF Rename, Steps
<1>22. ASSUME NEW p \in Stager, ResetPending(p) PROVE TypeOK'
  BY <1>22 DEF ResetPending, WritePending, Afresh, TornCount, MayWrite, Owns, Goto, PendingBoots
<1>23. ASSUME NEW p \in Stager, Chown(p) PROVE TypeOK'
  BY <1>23 DEF Chown, Stop
<1>24. ASSUME NEW p \in Stager, WriteFails(p) PROVE TypeOK'
  BY <1>24 DEF WriteFails, Stop, Tear, MayWrite, Owns
<1>25. CASE UNCHANGED vars
  BY <1>25 DEF vars
<1>26. QED
  BY <1>1, <1>2, <1>3, <1>4, <1>5, <1>6, <1>7, <1>8, <1>9, <1>10, <1>11, <1>12, <1>13,
     <1>14, <1>15, <1>16, <1>17, <1>18, <1>19, <1>20, <1>21, <1>22, <1>23, <1>24, <1>25
     DEF Next, Launching, Staging

----------------------------------------------------------------------------
(* Launching against staging.                                              *)

\* Launching and staging keep out of each other's way, however their steps mix.
LEMMA LaunchKeeps == TypeOK /\ LaunchInv /\ [Next]_vars => LaunchInv'
<1> SUFFICES ASSUME TypeOK, LaunchInv, [Next]_vars PROVE LaunchInv'
  OBVIOUS
<1> USE UpdateAssumption, GrantedFacts, MaxTriesType
    DEF TypeOK, LaunchInv, ProcessInv, RaceInv, ChosenInv, CountInv, Content, Version,
        NoFile, Torn, Owned, Stager, Idle,
        Starting, PendingBoots, files, service, history
<1>1. CASE Settle
  BY <1>1 DEF Settle
<1>2. CASE Publish
  BY <1>2 DEF Publish
<1>3. CASE Reinstall
  BY <1>3 DEF Reinstall
<1>4. CASE Crash
  BY <1>4 DEF Crash, Cut, Stop, Tear, Afresh, TornCount, ProcessGone, Owns, MayWrite
<1>5. CASE CliKilled
  BY <1>5 DEF CliKilled, Cut, Stop, Tear, Afresh, TornCount, Owns, MayWrite
<1>6. CASE Start
  BY <1>6 DEF Start
<1>7. CASE NothingStaged
  BY <1>7 DEF NothingStaged, RunInstalled, Afresh
<1>8. CASE Decide
  BY <1>8 DEF Decide, DecideExec, Signed, PendingBoots
<1>9. CASE DiscardBinary
  BY <1>9 DEF DiscardBinary
<1>10. CASE DiscardSignature
  BY <1>10 DEF DiscardSignature
<1>11. CASE DiscardCount
  BY <1>11 DEF DiscardCount, RunInstalled, Afresh, WritePending, MayWrite, Owns, TornCount
<1>12. CASE CountBoot
  BY <1>12 DEF CountBoot, WritePending, TornCount, OneMoreTry, MayWrite, Owns, PendingBoots
<1>13. CASE Exec
  BY <1>13 DEF Exec
<1>14. CASE ExecFails
  BY <1>14 DEF ExecFails, RunInstalled, Afresh
<1>15. CASE CheckIn
  BY <1>15 DEF CheckIn, PendingBoots, WritePending, Afresh, TornCount, MayWrite, Owns, BuildCheckedIn
<1>16. CASE RestartInto
  BY <1>16 DEF RestartInto, Stop, ProcessGone
<1>17. ASSUME NEW p \in Stager, Fetch(p) PROVE LaunchInv'
  BY <1>17 DEF Fetch, MayStage
<1>18. ASSUME NEW p \in Stager, WritePartial(p) PROVE LaunchInv'
  BY <1>18 DEF WritePartial, MayWrite, Owns, Goto, Stop
<1>19. ASSUME NEW p \in Stager, CheckVersion(p) PROVE LaunchInv'
  BY <1>19 DEF CheckVersion, OwnOf, Goto, Stop
<1>20. ASSUME NEW p \in Stager, WriteSignature(p) PROVE LaunchInv'
  BY <1>20 DEF WriteSignature, MayWrite, Owns, Goto, Stop
<1>21. ASSUME NEW p \in Stager, Rename(p) PROVE LaunchInv'
  BY <1>21 DEF Rename, Goto, Stop
<1>22. ASSUME NEW p \in Stager, ResetPending(p) PROVE LaunchInv'
  BY <1>22 DEF ResetPending, WritePending, Afresh, TornCount, MayWrite, Owns, Goto, PendingBoots
<1>23. ASSUME NEW p \in Stager, Chown(p) PROVE LaunchInv'
  BY <1>23 DEF Chown, Stop
<1>24. ASSUME NEW p \in Stager, WriteFails(p) PROVE LaunchInv'
  BY <1>24 DEF WriteFails, Stop, Tear, MayWrite, Owns
<1>25. CASE UNCHANGED vars
  BY <1>25 DEF vars
<1>26. QED
  BY <1>1, <1>2, <1>3, <1>4, <1>5, <1>6, <1>7, <1>8, <1>9, <1>10, <1>11, <1>12, <1>13,
     <1>14, <1>15, <1>16, <1>17, <1>18, <1>19, <1>20, <1>21, <1>22, <1>23, <1>24, <1>25
     DEF Next, Launching, Staging

----------------------------------------------------------------------------
(* The theorems.                                                           *)

\* What the others rest on.
THEOREM Invariance == Spec => [](TypeOK /\ LaunchInv)
  BY InitType, TypeKeeps, LaunchKeeps, PTL DEF Spec

\* What runs was decided by the launcher from what was verified, or is the launcher.
LEMMA RunsKeeps == TypeOK /\ LaunchInv /\ RunsOnlyNewer /\ [Next]_vars => RunsOnlyNewer'
<1> SUFFICES ASSUME TypeOK, LaunchInv, RunsOnlyNewer, [Next]_vars PROVE RunsOnlyNewer'
  OBVIOUS
<1> USE DEF LaunchInv, ProcessInv, ChosenInv, Starting, RunsOnlyNewer, files, service, history
<1>1. CASE Settle
  BY <1>1 DEF Settle
<1>2. CASE Publish
  BY <1>2 DEF Publish
<1>3. CASE Reinstall
  BY <1>3 DEF Reinstall
<1>4. CASE Crash
  BY <1>4 DEF Crash, Cut, Stop, Tear, Afresh, TornCount, ProcessGone, Owns, MayWrite
<1>5. CASE CliKilled
  BY <1>5 DEF CliKilled, Cut, Stop, Tear, Afresh, TornCount, Owns, MayWrite
<1>6. CASE Start
  BY <1>6 DEF Start
<1>7. CASE NothingStaged
  BY <1>7 DEF NothingStaged, RunInstalled, Afresh
<1>8. CASE Decide
  BY <1>8 DEF Decide, DecideExec, Signed, PendingBoots
<1>9. CASE DiscardBinary
  BY <1>9 DEF DiscardBinary
<1>10. CASE DiscardSignature
  BY <1>10 DEF DiscardSignature
<1>11. CASE DiscardCount
  BY <1>11 DEF DiscardCount, RunInstalled, Afresh, WritePending, MayWrite, Owns, TornCount
<1>12. CASE CountBoot
  BY <1>12 DEF CountBoot, WritePending, TornCount, OneMoreTry, MayWrite, Owns, PendingBoots
<1>13. CASE Exec
  BY <1>13 DEF Exec
<1>14. CASE ExecFails
  BY <1>14 DEF ExecFails, RunInstalled, Afresh
<1>15. CASE CheckIn
  BY <1>15 DEF CheckIn, PendingBoots, WritePending, Afresh, TornCount, MayWrite, Owns, BuildCheckedIn
<1>16. CASE RestartInto
  BY <1>16 DEF RestartInto, Stop, ProcessGone
<1>17. ASSUME NEW p \in Stager, Fetch(p) PROVE RunsOnlyNewer'
  BY <1>17 DEF Fetch, MayStage
<1>18. ASSUME NEW p \in Stager, WritePartial(p) PROVE RunsOnlyNewer'
  BY <1>18 DEF WritePartial, MayWrite, Owns, Goto, Stop
<1>19. ASSUME NEW p \in Stager, CheckVersion(p) PROVE RunsOnlyNewer'
  BY <1>19 DEF CheckVersion, OwnOf, Goto, Stop
<1>20. ASSUME NEW p \in Stager, WriteSignature(p) PROVE RunsOnlyNewer'
  BY <1>20 DEF WriteSignature, MayWrite, Owns, Goto, Stop
<1>21. ASSUME NEW p \in Stager, Rename(p) PROVE RunsOnlyNewer'
  BY <1>21 DEF Rename, Goto, Stop
<1>22. ASSUME NEW p \in Stager, ResetPending(p) PROVE RunsOnlyNewer'
  BY <1>22 DEF ResetPending, WritePending, Afresh, TornCount, MayWrite, Owns, Goto, PendingBoots
<1>23. ASSUME NEW p \in Stager, Chown(p) PROVE RunsOnlyNewer'
  BY <1>23 DEF Chown, Stop
<1>24. ASSUME NEW p \in Stager, WriteFails(p) PROVE RunsOnlyNewer'
  BY <1>24 DEF WriteFails, Stop, Tear, MayWrite, Owns
<1>25. CASE UNCHANGED vars
  BY <1>25 DEF vars
<1>26. QED
  BY <1>1, <1>2, <1>3, <1>4, <1>5, <1>6, <1>7, <1>8, <1>9, <1>10, <1>11, <1>12, <1>13,
     <1>14, <1>15, <1>16, <1>17, <1>18, <1>19, <1>20, <1>21, <1>22, <1>23, <1>24, <1>25
     DEF Next, Launching, Staging

\* "Nothing unsigned is ever executed" (update.rs): what runs is the installed binary, or
\* a whole release newer than it, also when files change under the launcher.
THEOREM RunsWholeAndNewer == Spec => []UpdateInv
<1>1. Init => RunsOnlyNewer
  BY DEF Init, RunsOnlyNewer
<1>2. TypeOK /\ RunsOnlyNewer => UpdateInv
  BY DEF UpdateInv
<1>3. QED
  BY <1>1, <1>2, RunsKeeps, Invariance, PTL DEF Spec

\* A staged build that does not check in is started MaxPendingBoots times and no more, but
\* for as many again for every start whose count was lost (update.rs ignores the error).
THEOREM GivesUpInTime == Spec => []BoundedTries
<1>1. ASSUME TypeOK, LaunchInv, lost <= MaxLost
      PROVE  tries <= MaxPendingBoots * (lost + 1)
  <2>1. lost \in Nat /\ tries \in Nat /\ PendingBoots \in 0..MaxPendingBoots
    BY <1>1, UpdateAssumption, MaxTriesType DEF TypeOK, PendingBoots, NoFile
  <2>2. tries <= MaxPendingBoots + Granted(lost)
    BY <1>1, <2>1, UpdateAssumption, GrantedFacts DEF LaunchInv, CountInv
  <2>3. MaxPendingBoots * (lost + 1) = Granted(lost + 1)
    BY DEF Granted
  <2>4. Granted(lost + 1) = Granted(lost) + MaxPendingBoots
    BY <2>1, GrantedFacts
  <2>5. Granted(lost) \in Nat
    BY <2>1, GrantedFacts
  <2>6. QED
    BY <2>1, <2>2, <2>3, <2>4, <2>5, UpdateAssumption
<1>2. TypeOK /\ LaunchInv => BoundedTries
  BY <1>1 DEF BoundedTries
<1>3. QED
  BY <1>2, Invariance, PTL
=============================================================================
