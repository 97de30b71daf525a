--------------------------- MODULE Engine_proofs ----------------------------
(***************************************************************************)
(* For any builds of pasivd, any engines they pin and any pools, through   *)
(* failed downloads, kills, power cuts and rewritten logins: what runs is  *)
(* the pinned engine, and what a read-back finds holds for every pool the  *)
(* miner may fail over to.                                                 *)
(***************************************************************************)
EXTENDS Engine, TLAPS

\* The engines are none of the words for a file that is none.
LEMMA PinsAreEngines == "absent" \notin Pins /\ "torn" \notin Pins /\ primary \in Pools
  BY EngineAssumption

LEMMA InitInv == Init => IInv
  BY PinsAreEngines
  DEF Init, IInv, TypeOK, RunsPinned, DoctorBinary, Logins, Sides

\* ensure_xmrig: the file is believed only after it was read back under the pin.
LEMMA EnsureInv == IInv /\ (Ensure \/ \E p \in Pins : Boot(p)) => IInv'
<1> SUFFICES ASSUME IInv, Ensure \/ \E p \in Pins : Boot(p) PROVE IInv'
  OBVIOUS
<1> USE PinsAreEngines DEF IInv, TypeOK, RunsPinned, DoctorBinary, diskVars, minerVars
<1>1. CASE \E p \in Pins : Boot(p)
  BY <1>1 DEF Boot
<1>2. CASE Check
  BY <1>2 DEF Check
<1>3. CASE Fetch
  BY <1>3 DEF Fetch
<1>4. CASE Unpack
  BY <1>4 DEF Unpack
<1>5. CASE Verify
  BY <1>5 DEF Verify
<1>6. CASE Retire \/ Retry
  BY <1>6 DEF Retire, Retry
<1>7. QED
  BY <1>1, <1>2, <1>3, <1>4, <1>5, <1>6 DEF Ensure

\* The miner and its API: a swap names every pool, a read-back asks every pool.
LEMMA MinerInv ==
  ASSUME IInv,
         \/ Spawn \/ SpawnFails \/ MinerDies
         \/ \E s \in Sides : Swap(s) \/ ReadBack(s)
         \/ \E p \in Pools : FailOver(p) \/ \E l \in Logins : Rewrite(p, l)
  PROVE  IInv'
<1> USE PinsAreEngines DEF IInv, TypeOK, RunsPinned, DoctorBinary, diskVars, minerVars
<1>1. CASE Spawn
  BY <1>1 DEF Spawn, SaveOnStart, WriteRuntimeConfig, RuntimeConfig, Logins, Sides
<1>2. CASE MinerDies
  BY <1>2 DEF MinerDies, Logins
<1>3. ASSUME NEW s \in Sides, Swap(s) PROVE IInv'
  BY <1>3 DEF Swap, SaveOnPut, Logins
<1>4. ASSUME NEW s \in Sides, ReadBack(s) PROVE IInv'
  BY <1>4 DEF ReadBack, AllPoolsUse, Logins
<1>5. ASSUME NEW p \in Pools, FailOver(p) PROVE IInv'
  BY <1>5 DEF FailOver
<1>6. ASSUME NEW p \in Pools, NEW l \in Logins, Rewrite(p, l) PROVE IInv'
  BY <1>6 DEF Rewrite, SaveOnPut, Logins
<1>7. CASE SpawnFails
  BY <1>7 DEF SpawnFails, WriteRuntimeConfig
<1>8. QED
  BY <1>1, <1>2, <1>3, <1>4, <1>5, <1>6, <1>7

\* What may happen to the machine.
LEMMA MachineInv == IInv /\ (Crash \/ PowerCut \/ Settle \/ Vanish \/ Calm) => IInv'
<1> SUFFICES ASSUME IInv, Crash \/ PowerCut \/ Settle \/ Vanish \/ Calm PROVE IInv'
  OBVIOUS
<1> USE PinsAreEngines DEF IInv, TypeOK, RunsPinned, DoctorBinary, diskVars, minerVars
<1>1. CASE Crash
  BY <1>1 DEF Crash, Ends, Logins
<1>2. CASE PowerCut
  BY <1>2 DEF PowerCut, Ends, Logins
<1>3. CASE Settle \/ Vanish \/ Calm
  BY <1>3 DEF Settle, Vanish, Calm
<1>4. QED
  BY <1>1, <1>2, <1>3

\* The inductive invariant: an engine past the check is the pinned one or is gone, one
\* to be renamed is the pinned one, and a side read back is the side of every pool.
THEOREM Invariance == Spec => []IInv
<1>1. IInv /\ [Next]_vars => IInv'
  <2> SUFFICES ASSUME IInv, [Next]_vars PROVE IInv'
    OBVIOUS
  <2>1. CASE UNCHANGED vars
    BY <2>1 DEF vars, diskVars, minerVars, IInv, TypeOK, RunsPinned, DoctorBinary
  <2>2. CASE Next
    BY <2>2, EnsureInv, MinerInv, MachineInv DEF Next
  <2>3. QED
    BY <2>1, <2>2
<1>2. QED
  BY InitInv, <1>1, PTL DEF Spec

\* "A binary that fails the pin is NEVER run" (xmrig.rs), by any build.
THEOREM EngineIsPinned == Spec => []RunsPinned
<1>1. IInv => RunsPinned
  BY DEF IInv
<1>2. QED
  BY Invariance, <1>1, PTL

\* A miner found on one side earns for that side wherever it fails over to.
THEOREM PaysWhereItWasFound == Spec => []PaysOneSide
<1>1. IInv => PaysOneSide
  BY DEF IInv, TypeOK, PaysOneSide
<1>2. QED
  BY Invariance, <1>1, PTL

\* No fetch, full disk or kill takes away the engine a node has.
THEOREM KeepsItsEngine == Spec => KeepsAMiner
<1>1. IInv /\ [Next]_vars => [HasEngine => HasEngine' \/ Vanish \/ (PowerCut /\ ~synced)]_vars
  <2> SUFFICES ASSUME IInv, Next, HasEngine
               PROVE  HasEngine' \/ Vanish \/ (PowerCut /\ ~synced)
    OBVIOUS
  <2> USE PinsAreEngines DEF IInv, TypeOK, HasEngine, diskVars, minerVars
  <2>1. CASE \E p \in Pins : Boot(p)
    BY <2>1 DEF Boot
  <2>2. CASE Check \/ Fetch \/ Unpack \/ Retry
    BY <2>2 DEF Check, Fetch, Unpack, Retry
  <2>3. CASE Verify
    BY <2>3 DEF Verify
  <2>4. CASE Retire
    BY <2>4 DEF Retire
  <2>5. CASE Spawn \/ SpawnFails \/ MinerDies
    BY <2>5 DEF Spawn, SpawnFails, MinerDies
  <2>6. CASE \E s \in Sides : Swap(s) \/ ReadBack(s)
    BY <2>6 DEF Swap, ReadBack
  <2>7. CASE \E p \in Pools : FailOver(p) \/ \E l \in Logins : Rewrite(p, l)
    BY <2>7 DEF FailOver, Rewrite
  <2>8. CASE Crash \/ PowerCut
    BY <2>8 DEF Crash, PowerCut, Ends
  <2>9. CASE Settle \/ Vanish \/ Calm
    BY <2>9 DEF Settle, Calm
  <2>10. QED
    BY <2>1, <2>2, <2>3, <2>4, <2>5, <2>6, <2>7, <2>8, <2>9 DEF Next, Ensure
<1>2. QED
  BY Invariance, <1>1, PTL DEF Spec, KeepsAMiner
=============================================================================
