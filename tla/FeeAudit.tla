------------------------------ MODULE FeeAudit ------------------------------
(***************************************************************************)
(* FeeDiscipline with an auditor: history variables that record what the   *)
(* miner really did on the fee login and what the ledger says about it.    *)
(* They restrict no step.                                                  *)
(***************************************************************************)
EXTENDS FeeDiscipline

VARIABLES
  charged,   \* hashing ticks spent on the fee login since the window began
  overstay,  \* reconciles in a row that wanted User and left a live miner on Fee
  paid,      \* ticks on the fee login not yet covered by a ledger line
  disturbed, \* since the last line a swap failed or the login was rewritten
  lost,      \* some ticks on the fee login will never be covered by a line
  line       \* the ledger line the last reconcile wrote, or NoLine

audit     == <<charged, overstay, paid, disturbed, lost, line>>
auditVars == <<vars, audit>>

NoLine == [secs |-> 0, paid |-> 0, exact |-> FALSE]

AuditInit ==
  /\ Init
  /\ charged = 0 /\ overstay = 0 /\ paid = 0
  /\ disturbed = FALSE /\ lost = FALSE /\ line = NoLine

\* The miner is gone, and with it any slice no line was written for.
AuditMinerGone ==
  /\ lost' = (lost \/ paid > 0)
  /\ overstay' = 0 /\ paid' = 0 /\ disturbed' = FALSE /\ line' = NoLine
  /\ UNCHANGED charged

AuditObserve(h) ==
  /\ Observe(h)
  /\ paid' = IF OnFee THEN paid + 1 ELSE paid
  /\ charged' = IF h THEN (IF pos = 0 THEN 0 ELSE charged) + (IF OnFee THEN 1 ELSE 0)
                ELSE charged
  /\ line' = NoLine
  /\ UNCHANGED <<overstay, disturbed, lost>>

\* What a reconcile that wanted the user leaves behind on the fee login.
AuditOverstay ==
  overstay' = IF Want = "User" /\ OnFee' THEN overstay + 1 ELSE 0

AuditBelieve ==
  /\ ReadBack \/ SwapReportedOk
  /\ AuditOverstay
  /\ IF Want = "User"
     THEN /\ line' = IF ClosesSlice(sched, Want)
                     THEN [secs |-> sched.age, paid |-> paid, exact |-> ~disturbed]
                     ELSE NoLine
          /\ lost' = (lost \/ (paid > 0 /\ ~ClosesSlice(sched, Want)))
          /\ paid' = 0 /\ disturbed' = FALSE
     ELSE UNCHANGED <<line, lost, paid, disturbed>>
  /\ UNCHANGED charged

AuditSwapFailed ==
  /\ SwapReportedFailed
  /\ IF held' THEN /\ AuditOverstay
                   /\ disturbed' = TRUE
                   /\ UNCHANGED <<charged, paid, lost, line>>
              ELSE AuditMinerGone

AuditRewriteLogin ==
  /\ RewriteLogin
  /\ disturbed' = TRUE
  /\ UNCHANGED <<charged, overstay, paid, lost, line>>

AuditTick == (\E h \in BOOLEAN : AuditObserve(h)) \/ AuditBelieve \/ AuditSwapFailed

AuditNext ==
  \/ (Spawn \/ Die) /\ UNCHANGED audit
  \/ (Drop \/ Restart) /\ AuditMinerGone
  \/ AuditRewriteLogin
  \/ AuditTick

AuditSpec == AuditInit /\ [][AuditNext]_auditVars

----------------------------------------------------------------------------
(* Properties.                                                              *)

AuditTypeOK ==
  /\ TypeOK
  /\ charged \in Nat /\ overstay \in Nat /\ paid \in Nat
  /\ disturbed \in BOOLEAN /\ lost \in BOOLEAN
  /\ line \in [secs : Nat, paid : Nat, exact : BOOLEAN]

\* A live miner is never left on the fee login by MaxRetries reconciles in a row that
\* wanted it back on the user: the fail-safe stops it first (SliceScheduler::swap_failed).
ReturnBounded == overstay < MaxRetries

\* Over one window of mining time the fee login gets at most the slice, plus what the
\* fail-safe tolerates, whatever crashes, stalls, respawns and lost answers occur.
FeeWithinSchedule == charged <= Slice + (MaxRetries - 1)

\* A ledger line never claims more than a slice whose every tick used up the retries.
LineBounded == line.secs <= Slice * MaxRetries

\* The ledger says where hashes really went: the line of a slice in which no swap failed
\* and nobody else rewrote the login claims exactly the time spent on the fee login.
LedgerExact == line.exact => line.secs = line.paid

\* docs/FEES.md, "Every fee slice, on every surface, is written": no time on the fee login
\* is left out of the ledger.
EverySliceWritten == ~lost

----------------------------------------------------------------------------
(* Why the bounds hold: an inductive invariant, for honest swaps.           *)

SliceStart == Window - Slice

\* The seconds a slice open since SliceStart may have lasted by position `p`: every
\* hashing tick may be followed by MaxRetries - 1 stalled ones.  After the window's end
\* it has used up the whole slice but its last tick.
Allowance(p) == IF p >= SliceStart THEN (p - SliceStart) * MaxRetries
                ELSE (Slice - 1) * MaxRetries

HandleInv ==
  /\ alive => held
  /\ ~held => overstay = 0

\* The fail-safe's counter is at least the auditor's.
OverstayInv == overstay <= sched.failedReturns

\* Before the slice, ticks on the fee login are failed returns; in it, each position adds one.
ChargeInv ==
  /\ pos = 0 => charged <= MaxRetries - 1 + Slice
  /\ pos \in 1..SliceStart => charged <= MaxRetries - 1
  /\ pos > SliceStart => charged <= MaxRetries - 1 + (pos - SliceStart)
  /\ OnFee /\ pos = 0 /\ phase = "observe" => sched.failedReturns >= 1
  /\ OnFee /\ pos \in 1..(SliceStart - 1) =>
       charged + (IF phase = "observe" THEN 1 ELSE 0) <= sched.failedReturns

\* An open slice survives the window's end only by failed returns, never into the next.
SliceInv ==
  /\ sched.onFee <=> sched.age # NoSlice
  /\ sched.onFee /\ phase = "observe" =>
       /\ sched.age <= Allowance(pos) + sched.failedReturns
       /\ pos < SliceStart => pos + 1 <= sched.failedReturns
  /\ sched.onFee /\ phase = "reconcile" =>
       /\ sched.age <= Allowance(pos) + sched.failedReturns + 1
       /\ pos >= SliceStart /\ hashing => sched.age <= Allowance(pos)
       /\ pos < SliceStart => pos <= sched.failedReturns

\* Undisturbed, the scheduler knows where the miner is, and its clock is the auditor's.
LedgerInv ==
  /\ ~held => paid = 0
  /\ held /\ ~disturbed =>
       /\ sched.onFee  => login = "Fee" /\ (alive => sched.age = paid)
       /\ ~sched.onFee => login # "Fee" /\ paid = 0

IInv ==
  /\ AuditTypeOK /\ HandleInv /\ OverstayInv /\ ChargeInv /\ SliceInv /\ LedgerInv
  /\ ChargedOnlyWhileMining /\ LineBounded /\ LedgerExact

============================================================================
