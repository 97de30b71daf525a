----------------------------- MODULE Fee_proofs -----------------------------
(***************************************************************************)
(* The fee, at both grains.  The bounds of FeeAudit hold for every slice   *)
(* shape and return budget, as long as no swap is reported as a success    *)
(* without being one.  A session of any length, cut off anywhere, pays     *)
(* what FeeSession says, for both real slice shapes and every tick that    *)
(* divides the slice.                                                      *)
(***************************************************************************)
EXTENDS FeeAudit, FeeSession, TLAPS

Honest == "lying" \notin PutOutcomes

----------------------------------------------------------------------------
(* Arithmetic of the fee window.                                            *)

\* Positions are their own remainder.
LEMMA PositionMod ==
  ASSUME NEW p \in 0..(Window - 1)
  PROVE  p % Window = p
  BY ShapeAssumption

\* A position advances by one, from the last one to the first.
LEMMA NextPosition ==
  ASSUME NEW p \in 0..(Window - 1)
  PROVE  (p + 1) % Window = IF p = Window - 1 THEN 0 ELSE p + 1
  BY ShapeAssumption

LEMMA SliceStartFacts ==
  SliceStart \in 1..(Window - 1) /\ MaxRetries <= SliceStart /\ Window = SliceStart + Slice
  BY ShapeAssumption, BudgetAssumption DEF SliceStart

LEMMA AllowanceFacts ==
  ASSUME NEW p \in 0..(Window - 1)
  PROVE  /\ Allowance(p) \in Nat
         /\ Allowance(p) <= (Slice - 1) * MaxRetries
         /\ p \in SliceStart..(Window - 2) =>
              Allowance(p + 1) = Allowance(p) + MaxRetries
         /\ p < SliceStart => Allowance(p) = (Slice - 1) * MaxRetries
         /\ p = Window - 1 => Allowance(p) = (Slice - 1) * MaxRetries
         /\ Slice * MaxRetries = (Slice - 1) * MaxRetries + MaxRetries
  BY ShapeAssumption, MaxRetriesAssumption DEF Allowance, SliceStart

\* The wanted side, without the remainder.
LEMMA WantValue ==
  ASSUME TypeOK
  PROVE  Want = IF hashing /\ pos >= SliceStart THEN "Fee" ELSE "User"
  BY PositionMod, ShapeAssumption
     DEF Want, Desired, InSlice, SliceAtWindowEnd, SliceStart, TypeOK

LEMMA FreshSchedulerType == FreshScheduler \in Scheduler
  BY MaxRetriesAssumption DEF FreshScheduler, Scheduler, NoSlice

LEMMA NoLineType == NoLine \in [secs : Nat, paid : Nat, exact : BOOLEAN]
  BY DEF NoLine

----------------------------------------------------------------------------
(* The inductive invariant.                                                 *)

LEMMA AuditInitInv == AuditInit => IInv
  <1> SUFFICES ASSUME AuditInit PROVE IInv
    OBVIOUS
  <1>1. AuditTypeOK
    <2>1. sched \in Scheduler /\ line \in [secs : Nat, paid : Nat, exact : BOOLEAN]
      BY FreshSchedulerType, NoLineType DEF AuditInit, Init
    <2>2. pos \in 0..(Window - 1)
      BY ShapeAssumption DEF AuditInit, Init
    <2> QED BY <2>1, <2>2 DEF AuditInit, Init, AuditTypeOK, TypeOK
  <1> USE DEF AuditInit, Init, FreshScheduler, NoLine, OnFee
  <1>2. HandleInv /\ OverstayInv
    BY DEF HandleInv, OverstayInv
  <1>3. ChargeInv
    BY ShapeAssumption, MaxRetriesAssumption, SliceStartFacts DEF ChargeInv
  <1>4. SliceInv
    BY DEF SliceInv, NoSlice
  <1>5. ChargedOnlyWhileMining
    BY DEF ChargedOnlyWhileMining
  <1>6. LineBounded
    BY ShapeAssumption, MaxRetriesAssumption, AllowanceFacts, SliceStartFacts DEF LineBounded
  <1>7. LedgerInv /\ LedgerExact
    BY DEF LedgerInv, LedgerExact
  <1> QED BY <1>1, <1>2, <1>3, <1>4, <1>5, <1>6, <1>7 DEF IInv

\* A spawn comes up on the user's login with a fresh scheduler.
LEMMA SpawnInv == IInv /\ Spawn /\ UNCHANGED audit => IInv'
  <1> SUFFICES ASSUME IInv, Spawn, UNCHANGED audit PROVE IInv'
    OBVIOUS
  <1> USE DEF Spawn, audit, FreshScheduler, IInv
  <1>1. AuditTypeOK'
    BY MaxRetriesAssumption DEF AuditTypeOK, TypeOK, Scheduler, NoSlice
  <1>2. HandleInv' /\ OverstayInv'
    BY DEF HandleInv, OverstayInv
  <1>3. ChargeInv'
    BY DEF ChargeInv, OnFee
  <1>4. SliceInv'
    BY DEF SliceInv, NoSlice
  <1>5. ChargedOnlyWhileMining'
    BY DEF ChargedOnlyWhileMining, OnFee
  <1>6. LineBounded' /\ LedgerInv' /\ LedgerExact'
    BY DEF LineBounded, LedgerInv, LedgerExact
  <1> QED BY <1>1, <1>2, <1>3, <1>4, <1>5, <1>6

LEMMA DieInv == IInv /\ Die /\ UNCHANGED audit => IInv'
  <1> SUFFICES ASSUME IInv, Die, UNCHANGED audit PROVE IInv'
    OBVIOUS
  <1> USE DEF Die, audit, IInv
  <1>1. AuditTypeOK'
    BY DEF AuditTypeOK, TypeOK
  <1>2. HandleInv' /\ OverstayInv'
    BY DEF HandleInv, OverstayInv
  <1>3. ChargeInv' /\ ChargedOnlyWhileMining'
    BY DEF ChargeInv, ChargedOnlyWhileMining, OnFee
  <1>4. SliceInv' /\ LineBounded'
    BY DEF SliceInv, LineBounded, Allowance
  <1>5. LedgerInv' /\ LedgerExact'
    BY DEF LedgerInv, LedgerExact, HandleInv
  <1> QED BY <1>1, <1>2, <1>3, <1>4, <1>5

\* Nobody else moves the login to the fee side.
LEMMA RewriteLoginInv == IInv /\ AuditRewriteLogin => IInv'
  <1> SUFFICES ASSUME IInv, AuditRewriteLogin PROVE IInv'
    OBVIOUS
  <1> USE DEF AuditRewriteLogin, RewriteLogin, IInv
  <1>1. AuditTypeOK'
    BY DEF AuditTypeOK, TypeOK
  <1>2. HandleInv' /\ OverstayInv'
    BY DEF HandleInv, OverstayInv
  <1>3. ChargeInv' /\ ChargedOnlyWhileMining'
    BY DEF ChargeInv, ChargedOnlyWhileMining, OnFee
  <1>4. SliceInv' /\ LineBounded'
    BY DEF SliceInv, LineBounded, Allowance
  <1>5. LedgerInv' /\ LedgerExact'
    BY DEF LedgerInv, LedgerExact, HandleInv
  <1> QED BY <1>1, <1>2, <1>3, <1>4, <1>5

\* Without a miner nothing is on the fee login; the scheduler of a dropped one is kept.
LEMMA DropInv == IInv /\ Drop /\ AuditMinerGone => IInv'
  <1> SUFFICES ASSUME IInv, Drop, AuditMinerGone PROVE IInv'
    OBVIOUS
  <1> USE DEF Drop, AuditMinerGone, NoLine, IInv
  <1>1. AuditTypeOK'
    BY DEF AuditTypeOK, TypeOK
  <1>2. HandleInv' /\ OverstayInv'
    BY DEF HandleInv, OverstayInv, AuditTypeOK, TypeOK, Scheduler
  <1>3. ChargeInv' /\ ChargedOnlyWhileMining'
    BY DEF ChargeInv, ChargedOnlyWhileMining, OnFee
  <1>4. SliceInv'
    BY DEF SliceInv, Allowance
  <1>5. LineBounded'
    BY AllowanceFacts, SliceStartFacts, ShapeAssumption, MaxRetriesAssumption DEF LineBounded
  <1>6. LedgerInv' /\ LedgerExact'
    BY DEF LedgerInv, LedgerExact
  <1> QED BY <1>1, <1>2, <1>3, <1>4, <1>5, <1>6

LEMMA RestartInv == IInv /\ Restart /\ AuditMinerGone => IInv'
  <1> SUFFICES ASSUME IInv, Restart, AuditMinerGone PROVE IInv'
    OBVIOUS
  <1>1. AuditTypeOK'
    <2>1. sched' \in Scheduler /\ line' \in [secs : Nat, paid : Nat, exact : BOOLEAN]
      BY FreshSchedulerType, NoLineType DEF Restart, AuditMinerGone
    <2>2. pos' \in 0..(Window - 1)
      BY ShapeAssumption DEF Restart
    <2> QED BY <2>1, <2>2 DEF Restart, AuditMinerGone, IInv, AuditTypeOK, TypeOK
  <1> USE DEF Restart, AuditMinerGone, NoLine, FreshScheduler, IInv
  <1>2. HandleInv' /\ OverstayInv'
    BY DEF HandleInv, OverstayInv
  <1>3. ChargeInv'
    <2>1. charged <= MaxRetries - 1 + Slice
      BY SliceStartFacts, ShapeAssumption, MaxRetriesAssumption
         DEF ChargeInv, AuditTypeOK, TypeOK
    <2> QED BY <2>1, SliceStartFacts DEF ChargeInv, OnFee
  <1>4. SliceInv'
    BY DEF SliceInv, NoSlice
  <1>5. ChargedOnlyWhileMining'
    BY DEF ChargedOnlyWhileMining, OnFee
  <1>6. LineBounded'
    BY AllowanceFacts, SliceStartFacts, ShapeAssumption, MaxRetriesAssumption DEF LineBounded
  <1>7. LedgerInv' /\ LedgerExact'
    BY DEF LedgerInv, LedgerExact
  <1> QED BY <1>1, <1>2, <1>3, <1>4, <1>5, <1>6, <1>7

\* The miner works for a tick: on the fee login it is charged, and an open slice ages.
LEMMA ObserveInv == \A h \in BOOLEAN : IInv /\ AuditObserve(h) => IInv'
  <1> SUFFICES ASSUME NEW h \in BOOLEAN, IInv, AuditObserve(h) PROVE IInv'
    OBVIOUS
  <1>1. /\ pos \in 0..(Window - 1) /\ sched \in Scheduler
        /\ sched.failedReturns \in Nat /\ sched.failedReturns <= MaxRetries - 1
        /\ sched.age \in Nat \cup {NoSlice}
        /\ charged \in Nat /\ paid \in Nat /\ MaxRetries \in Nat
    BY MaxRetriesAssumption DEF IInv, AuditTypeOK, TypeOK, Scheduler
  <1>2. pos' = IF h THEN (IF pos = Window - 1 THEN 0 ELSE pos + 1) ELSE pos
    BY <1>1, NextPosition DEF AuditObserve, Observe
  <1>3. pos' \in 0..(Window - 1)
    BY <1>1, <1>2, ShapeAssumption
  <1>4. /\ sched' \in Scheduler
        /\ sched'.onFee = sched.onFee
        /\ sched'.failedReturns = sched.failedReturns
        /\ sched.age = NoSlice => sched'.age = NoSlice
        /\ sched.age # NoSlice => sched'.age = sched.age + 1 /\ sched'.age # NoSlice
    BY <1>1 DEF Elapse, Scheduler, NoSlice, AuditObserve, Observe
  <1>5. phase = "observe" /\ phase' = "reconcile" /\ hashing' = h /\ OnFee' = OnFee
    BY DEF AuditObserve, Observe, OnFee
  <1>6. charged' = IF h THEN (IF pos = 0 THEN 0 ELSE charged) + (IF OnFee THEN 1 ELSE 0)
                   ELSE charged
    BY DEF AuditObserve
  <1>7. AuditTypeOK'
    <2>1. TypeOK'
      BY <1>3, <1>4, <1>5 DEF AuditObserve, Observe, IInv, AuditTypeOK, TypeOK
    <2>2. charged' \in Nat /\ paid' \in Nat
      BY <1>1, <1>6 DEF AuditObserve
    <2> QED BY <2>1, <2>2, NoLineType DEF AuditObserve, IInv, AuditTypeOK
  <1>8. HandleInv' /\ OverstayInv'
    BY <1>4 DEF HandleInv, OverstayInv, AuditObserve, Observe, IInv
  <1>9. ChargeInv'
    <2> USE <1>1, <1>2, <1>4, <1>5, <1>6, SliceStartFacts, MaxRetriesAssumption, ShapeAssumption
        DEF ChargeInv, IInv
    <2>1. CASE ~h
      BY <2>1
    <2>2. CASE h /\ pos = 0
      BY <2>2
    <2>3. CASE h /\ pos # 0 /\ pos < SliceStart
      BY <2>3
    <2>4. CASE h /\ pos # 0 /\ pos >= SliceStart
      BY <2>4
    <2> QED BY <2>1, <2>2, <2>3, <2>4
  <1>10. SliceInv'
    <2>1. sched'.onFee <=> sched'.age # NoSlice
      BY <1>4 DEF SliceInv, IInv
    <2>2. ASSUME sched'.onFee
          PROVE  /\ sched'.age <= Allowance(pos') + sched'.failedReturns + 1
                 /\ pos' >= SliceStart /\ hashing' => sched'.age <= Allowance(pos')
                 /\ pos' < SliceStart => pos' <= sched'.failedReturns
      <3>1. /\ sched.age \in Nat /\ sched'.age = sched.age + 1
            /\ sched.age <= Allowance(pos) + sched.failedReturns
            /\ pos < SliceStart => pos + 1 <= sched.failedReturns
        BY <1>1, <1>4, <1>5, <2>2 DEF SliceInv, IInv
      <3>2. Allowance(pos) \in Nat
        BY <1>1, AllowanceFacts
      <3>3. CASE ~h
        <4>1. pos' = pos /\ ~hashing' /\ Allowance(pos') = Allowance(pos)
          BY <3>3, <1>2, <1>5
        <4> QED BY <4>1, <3>1, <3>2, <1>1, <1>4
      <3>4. CASE h /\ pos = Window - 1
        <4>1. pos' = 0 /\ 0 < SliceStart /\ 0 \in 0..(Window - 1)
          BY <3>4, <1>2, SliceStartFacts, ShapeAssumption
        <4>2. Allowance(pos') = Allowance(pos)
          BY <3>4, <4>1, <1>1, AllowanceFacts
        <4> QED BY <4>1, <4>2, <3>1, <3>2, <1>1, <1>4, SliceStartFacts
      <3>5. CASE h /\ pos < SliceStart /\ pos # Window - 1
        <4>1. pos + 1 < SliceStart /\ pos' = pos + 1
          BY <3>1, <3>5, <1>1, <1>2, SliceStartFacts
        <4>2. Allowance(pos') = Allowance(pos)
          BY <3>5, <4>1, <1>1, SliceStartFacts DEF Allowance
        <4> QED BY <4>1, <4>2, <3>1, <3>2, <3>5, <1>1, <1>4, SliceStartFacts
      <3>6. CASE h /\ pos >= SliceStart /\ pos # Window - 1
        <4>1. pos' = pos + 1 /\ Allowance(pos') = Allowance(pos) + MaxRetries
          BY <3>6, <1>1, <1>2, SliceStartFacts, AllowanceFacts
        <4> QED BY <4>1, <3>1, <3>2, <3>6, <1>1, <1>4, SliceStartFacts
      <3> QED BY <3>3, <3>4, <3>5, <3>6, <1>1, SliceStartFacts
    <2> QED BY <2>1, <2>2, <1>5 DEF SliceInv
  <1>11. ChargedOnlyWhileMining'
    BY <1>5 DEF ChargedOnlyWhileMining
  <1>12. LineBounded'
    BY SliceStartFacts, ShapeAssumption, MaxRetriesAssumption
       DEF LineBounded, NoLine, AuditObserve
  <1>13. LedgerInv' /\ LedgerExact'
    <2>1. /\ paid' = IF OnFee THEN paid + 1 ELSE paid
          /\ UNCHANGED <<held, alive, login, disturbed>> /\ held /\ line' = NoLine
      BY DEF AuditObserve, Observe
    <2>2. sched.onFee <=> sched.age # NoSlice
      BY DEF SliceInv, IInv
    <2> QED BY <1>1, <1>4, <2>1, <2>2 DEF LedgerInv, LedgerExact, OnFee, NoLine, IInv
  <1> QED BY <1>7, <1>8, <1>9, <1>10, <1>11, <1>12, <1>13 DEF IInv

\* The driver takes the miner to be on the wanted side, and honest swaps make it so.
LEMMA BelieveInv == Honest /\ IInv /\ AuditBelieve => IInv'
  <1> SUFFICES ASSUME Honest, IInv, AuditBelieve PROVE IInv'
    OBVIOUS
  <1>1. /\ pos \in 0..(Window - 1) /\ sched \in Scheduler
        /\ sched.failedReturns \in Nat /\ sched.failedReturns <= MaxRetries - 1
        /\ sched.age \in Nat \cup {NoSlice}
        /\ charged \in Nat /\ paid \in Nat /\ MaxRetries \in Nat
    BY MaxRetriesAssumption DEF IInv, AuditTypeOK, TypeOK, Scheduler
  <1>2. Want = IF hashing /\ pos >= SliceStart THEN "Fee" ELSE "User"
    BY WantValue DEF IInv, AuditTypeOK
  <1>3. /\ phase = "reconcile" /\ phase' = "observe"
        /\ alive /\ login' = Want /\ sched' = Confirmed(sched, Want)
        /\ UNCHANGED <<held, alive, pos, hashing, charged>>
    BY DEF AuditBelieve, ReadBack, SwapReportedOk, Believe, Honest
  <1>4. OnFee' <=> hashing /\ pos >= SliceStart
    BY <1>2, <1>3 DEF OnFee
  <1>5. /\ sched'.onFee <=> Want = "Fee"
        /\ sched'.age = IF Want = "User" THEN NoSlice ELSE IF sched.onFee THEN sched.age ELSE 0
        /\ sched'.failedReturns = 0
    BY <1>3 DEF Confirmed
  <1>6. SliceInv'
    <2>1. sched'.onFee <=> sched'.age # NoSlice
      BY <1>2, <1>5 DEF SliceInv, IInv, NoSlice
    <2>2. ASSUME sched'.onFee
          PROVE  /\ pos >= SliceStart
                 /\ sched'.age <= Allowance(pos)
      <3>1. hashing /\ pos >= SliceStart /\ Want = "Fee"
        BY <2>2, <1>2, <1>5
      <3>2. sched.onFee => sched.age <= Allowance(pos)
        BY <3>1, <1>3 DEF SliceInv, IInv
      <3> QED BY <3>1, <3>2, <1>1, <1>5, AllowanceFacts
    <2> QED BY <2>1, <2>2, <1>1, <1>3, <1>5, SliceStartFacts DEF SliceInv, Allowance
  <1>7. sched' \in Scheduler
    BY <1>1, <1>2, <1>3, MaxRetriesAssumption DEF Confirmed, Scheduler, NoSlice
  <1>8. overstay' = 0
    BY <1>2, <1>4 DEF AuditBelieve, AuditOverstay
  <1>9. line' \in {line, NoLine, [secs |-> sched.age, paid |-> paid, exact |-> ~disturbed]}
    BY DEF AuditBelieve
  <1>10. line'.secs # line.secs /\ line' # NoLine => sched.onFee /\ line'.secs = sched.age
    BY DEF AuditBelieve, ClosesSlice
  <1>11. LineBounded'
    <2>1. line.secs <= Slice * MaxRetries
      BY DEF IInv, LineBounded
    <2>2. 0 <= Slice * MaxRetries
      BY ShapeAssumption, MaxRetriesAssumption
    <2>3. ASSUME sched.onFee PROVE sched.age <= Slice * MaxRetries
      <3>1. sched.age <= Allowance(pos) + sched.failedReturns + 1
        BY <2>3, <1>3 DEF SliceInv, IInv
      <3>2. /\ Allowance(pos) \in Nat /\ Allowance(pos) <= (Slice - 1) * MaxRetries
            /\ Slice * MaxRetries = (Slice - 1) * MaxRetries + MaxRetries
        BY <1>1, AllowanceFacts
      <3>3. (Slice - 1) * MaxRetries \in Int
        BY ShapeAssumption, MaxRetriesAssumption
      <3> DEFINE bound == (Slice - 1) * MaxRetries
      <3> HIDE DEF bound
      <3>4. Slice * MaxRetries = bound + MaxRetries /\ Allowance(pos) <= bound /\ bound \in Int
        BY <3>2, <3>3 DEF bound
      <3>5. sched.age \in Int
        BY <1>1 DEF NoSlice
      <3> QED BY <3>1, <3>2, <3>4, <3>5, <1>1
    <2> QED BY <1>10, <2>1, <2>2, <2>3 DEF LineBounded, NoLine
  <1>12. AuditTypeOK'
    <2>1. line' \in [secs : Nat, paid : Nat, exact : BOOLEAN]
      <3>1. CASE ClosesSlice(sched, Want) /\ Want = "User"
        <4>1. sched.age \in Nat
          BY <3>1, <1>1 DEF ClosesSlice, NoSlice
        <4>2. line' = [secs |-> sched.age, paid |-> paid, exact |-> ~disturbed]
          BY <3>1 DEF AuditBelieve
        <4> QED BY <4>1, <4>2, <1>1
      <3>2. CASE ~(ClosesSlice(sched, Want) /\ Want = "User")
        BY <3>2, NoLineType DEF AuditBelieve, IInv, AuditTypeOK
      <3> QED BY <3>1, <3>2
    <2>2. TypeOK'
      BY <1>2, <1>3, <1>7 DEF IInv, AuditTypeOK, TypeOK
    <2>3. charged' \in Nat /\ overstay' \in Nat /\ paid' \in Nat
      BY <1>1, <1>3, <1>8 DEF AuditBelieve
    <2>4. disturbed' \in BOOLEAN /\ lost' \in BOOLEAN
      BY DEF AuditBelieve, IInv, AuditTypeOK
    <2> QED BY <2>1, <2>2, <2>3, <2>4 DEF AuditTypeOK
  <1>13. HandleInv' /\ OverstayInv'
    BY <1>1, <1>3, <1>5, <1>8 DEF HandleInv, OverstayInv, IInv
  <1>14. ChargeInv'
    BY <1>1, <1>3, <1>4, SliceStartFacts DEF ChargeInv, IInv
  <1>15. ChargedOnlyWhileMining'
    BY <1>3, <1>4 DEF ChargedOnlyWhileMining, SliceStart
  <1>16. LedgerExact'
    <2>1. sched.onFee /\ ~disturbed => sched.age = paid
      BY <1>3 DEF LedgerInv, HandleInv, IInv
    <2>2. CASE ClosesSlice(sched, Want)
      <3>1. line' = [secs |-> sched.age, paid |-> paid, exact |-> ~disturbed] /\ sched.onFee
        BY <2>2 DEF AuditBelieve, ClosesSlice
      <3> QED BY <3>1, <2>1 DEF LedgerExact
    <2>3. CASE ~ClosesSlice(sched, Want)
      <3>1. line' \in {line, NoLine}
        BY <2>3 DEF AuditBelieve
      <3> QED BY <3>1 DEF LedgerExact, NoLine, IInv
    <2> QED BY <2>2, <2>3
  <1>17. LedgerInv'
    <2>1. held
      BY <1>3 DEF HandleInv, IInv
    <2>2. CASE Want = "User"
      BY <1>3, <1>5, <2>1, <2>2 DEF AuditBelieve, LedgerInv
    <2>3. CASE Want = "Fee"
      BY <1>3, <1>5, <2>1, <2>3 DEF AuditBelieve, LedgerInv, IInv
    <2> QED BY <2>2, <2>3, <1>2
  <1> QED BY <1>6, <1>11, <1>12, <1>13, <1>14, <1>15, <1>16, <1>17 DEF IInv

\* A failed swap: the return is counted, and the last tolerated one stops the miner.
LEMMA SwapFailedInv == IInv /\ AuditSwapFailed => IInv'
  <1> SUFFICES ASSUME IInv, AuditSwapFailed PROVE IInv'
    OBVIOUS
  <1>1. /\ pos \in 0..(Window - 1) /\ sched \in Scheduler
        /\ sched.failedReturns \in Nat /\ sched.failedReturns <= MaxRetries - 1
        /\ sched.age \in Nat \cup {NoSlice}
        /\ charged \in Nat /\ overstay \in Nat /\ MaxRetries \in Nat
    BY MaxRetriesAssumption DEF IInv, AuditTypeOK, TypeOK, Scheduler
  <1>2. Want = IF hashing /\ pos >= SliceStart THEN "Fee" ELSE "User"
    BY WantValue DEF IInv, AuditTypeOK
  <1>3. /\ phase = "reconcile" /\ phase' = "observe" /\ held
        /\ login' \in {login, Want} /\ sched' = SwapFailed(sched, Want)
        /\ pos' = pos /\ charged' = charged
    BY DEF AuditSwapFailed, SwapReportedFailed, AuditMinerGone
  <1>4. LineBounded'
    <2>1. line' \in {line, NoLine}
      BY DEF AuditSwapFailed, AuditMinerGone
    <2>2. 0 <= Slice * MaxRetries
      BY ShapeAssumption, MaxRetriesAssumption
    <2> QED BY <2>1, <2>2 DEF LineBounded, IInv, NoLine
  <1>5. /\ line' \in [secs : Nat, paid : Nat, exact : BOOLEAN]
        /\ disturbed' \in BOOLEAN /\ lost' \in BOOLEAN /\ paid' \in Nat
    <2>1. line' \in {line, NoLine} /\ paid' \in {paid, 0}
      BY DEF AuditSwapFailed, AuditMinerGone
    <2>2. disturbed' \in BOOLEAN /\ lost' \in BOOLEAN
      BY DEF AuditSwapFailed, AuditMinerGone, IInv, AuditTypeOK
    <2> QED BY <2>1, <2>2, NoLineType DEF IInv, AuditTypeOK
  <1>6. CASE MustStop(sched, Want)
    <2>1. /\ ~held' /\ ~alive' /\ ~hashing' /\ overstay' = 0 /\ sched' = FreshScheduler
          /\ held' \in BOOLEAN /\ alive' \in BOOLEAN /\ hashing' \in BOOLEAN
      BY <1>6, <1>3 DEF AuditSwapFailed, SwapReportedFailed, AuditMinerGone, SwapFailed
    <2>2. AuditTypeOK'
      BY <1>1, <1>2, <1>3, <1>5, <2>1, FreshSchedulerType DEF IInv, AuditTypeOK, TypeOK
    <2>3. HandleInv' /\ OverstayInv' /\ ChargedOnlyWhileMining'
      BY <2>1 DEF HandleInv, OverstayInv, ChargedOnlyWhileMining, OnFee, FreshScheduler
    <2>4. ChargeInv'
      BY <1>3, <2>1 DEF ChargeInv, IInv, OnFee
    <2>5. SliceInv'
      BY <2>1 DEF SliceInv, FreshScheduler, NoSlice
    <2>6. LedgerInv' /\ LedgerExact'
      BY <1>3, <2>1 DEF AuditSwapFailed, AuditMinerGone, LedgerInv, LedgerExact, NoLine
    <2> QED BY <1>4, <2>2, <2>3, <2>4, <2>5, <2>6 DEF IInv
  <1>7. CASE ~MustStop(sched, Want)
    <2>1. UNCHANGED <<held, alive, hashing>> /\ AuditOverstay
      BY <1>7, <1>3 DEF AuditSwapFailed, SwapReportedFailed
    <2>2. /\ sched' \in Scheduler /\ sched'.onFee = sched.onFee /\ sched'.age = sched.age
          /\ sched'.failedReturns =
               IF Want = "User" THEN sched.failedReturns + 1 ELSE sched.failedReturns
      BY <1>7, <1>1, <1>3 DEF SwapFailed, MustStop, Scheduler
    <2>3. Want = "User" /\ OnFee' => OnFee
      BY <1>3, <2>1 DEF OnFee
    <2>4. overstay' = IF Want = "User" /\ OnFee' THEN overstay + 1 ELSE 0
      BY <2>1 DEF AuditOverstay
    <2>5. AuditTypeOK'
      <3>1. TypeOK'
        BY <1>2, <1>3, <2>1, <2>2 DEF IInv, AuditTypeOK, TypeOK
      <3>2. charged' \in Nat /\ overstay' \in Nat
        BY <1>1, <1>3, <2>4
      <3> QED BY <3>1, <3>2, <1>5 DEF AuditTypeOK
    <2>6. HandleInv'
      BY <1>3, <2>1 DEF HandleInv, IInv
    <2>7. OverstayInv'
      BY <1>1, <2>2, <2>4 DEF OverstayInv, IInv
    <2>8. ChargeInv'
      <3>1. Want = "Fee" => pos >= SliceStart
        BY <1>2
      <3> QED BY <1>1, <1>2, <1>3, <2>2, <2>3, <3>1, SliceStartFacts DEF ChargeInv, IInv
    <2>9. SliceInv'
      <3>1. sched.onFee => sched.age \in Nat
        BY <1>1 DEF SliceInv, IInv
      <3>2. Allowance(pos) \in Nat /\ Allowance(pos') = Allowance(pos)
        BY <1>1, <1>3, AllowanceFacts
      <3>3. CASE Want = "User"
        BY <3>1, <3>2, <3>3, <1>1, <1>3, <2>2, SliceStartFacts DEF SliceInv, IInv
      <3>4. CASE Want = "Fee"
        BY <3>1, <3>2, <3>4, <1>1, <1>2, <1>3, <2>2, SliceStartFacts DEF SliceInv, IInv
      <3> QED BY <3>3, <3>4, <1>2
    <2>10. ChargedOnlyWhileMining'
      BY <1>1, <1>2, <1>3, <2>1, <2>2 DEF ChargedOnlyWhileMining, OnFee, SliceStart
    <2>11. LedgerInv' /\ LedgerExact'
      BY <1>3, <2>1 DEF AuditSwapFailed, LedgerInv, LedgerExact, IInv
    <2> QED BY <1>4, <2>5, <2>6, <2>7, <2>8, <2>9, <2>10, <2>11 DEF IInv
  <1> QED BY <1>6, <1>7

LEMMA StepInv == Honest /\ IInv /\ [AuditNext]_auditVars => IInv'
  <1> SUFFICES ASSUME Honest, IInv, [AuditNext]_auditVars PROVE IInv'
    OBVIOUS
  <1>1. CASE Spawn /\ UNCHANGED audit
    BY <1>1, SpawnInv
  <1>2. CASE Die /\ UNCHANGED audit
    BY <1>2, DieInv
  <1>3. CASE Drop /\ AuditMinerGone
    BY <1>3, DropInv
  <1>4. CASE Restart /\ AuditMinerGone
    BY <1>4, RestartInv
  <1>5. CASE AuditRewriteLogin
    BY <1>5, RewriteLoginInv
  <1>6. CASE \E h \in BOOLEAN : AuditObserve(h)
    BY <1>6, ObserveInv
  <1>7. CASE AuditBelieve
    BY <1>7, BelieveInv
  <1>8. CASE AuditSwapFailed
    BY <1>8, SwapFailedInv
  <1>9. CASE UNCHANGED auditVars
    BY <1>9 DEF auditVars, vars, audit, IInv, AuditTypeOK, TypeOK, HandleInv, OverstayInv,
                ChargeInv, SliceInv, ChargedOnlyWhileMining, LineBounded, LedgerInv, LedgerExact, OnFee,
                Allowance
  <1> QED BY <1>1, <1>2, <1>3, <1>4, <1>5, <1>6, <1>7, <1>8, <1>9 DEF AuditNext, AuditTick

----------------------------------------------------------------------------
(* The theorems.                                                            *)

\* The invariant holds in every reachable state, for every slice shape and budget.
THEOREM Invariance == ASSUME Honest PROVE AuditSpec => []IInv
  <1>1. IInv /\ [AuditNext]_auditVars => IInv'
    BY StepInv
  <1> QED BY <1>1, AuditInitInv, PTL DEF AuditSpec

\* The state of the engine and of its audit keeps its type.
THEOREM TypeCorrect == ASSUME Honest PROVE AuditSpec => []AuditTypeOK
  <1>1. IInv => AuditTypeOK
    BY DEF IInv
  <1> QED BY <1>1, Invariance, PTL

\* The fail-safe bound: never MaxRetries failed returns in a row with the miner on Fee.
THEOREM ReturnIsBounded == ASSUME Honest PROVE AuditSpec => []ReturnBounded
  <1>1. IInv => ReturnBounded
    <2> SUFFICES ASSUME IInv PROVE ReturnBounded
      OBVIOUS
    <2>1. sched.failedReturns \in 0..(MaxRetries - 1) /\ overstay \in Nat
      BY DEF IInv, AuditTypeOK, TypeOK, Scheduler
    <2> QED BY <2>1, MaxRetriesAssumption DEF IInv, OverstayInv, ReturnBounded
  <1> QED BY <1>1, Invariance, PTL

\* Outside its slice a user is charged only for ticks in which a return has failed.
THEOREM PausedIsFree == ASSUME Honest PROVE AuditSpec => []ChargedOnlyWhileMining
  <1>1. IInv => ChargedOnlyWhileMining
    BY DEF IInv
  <1> QED BY <1>1, Invariance, PTL

\* A window of mining time pays at most its slice and the tolerated failed returns.
THEOREM FeeStaysWithinSchedule == ASSUME Honest PROVE AuditSpec => []FeeWithinSchedule
  <1>1. IInv => FeeWithinSchedule
    <2> SUFFICES ASSUME IInv PROVE FeeWithinSchedule
      OBVIOUS
    <2>1. pos \in 0..(Window - 1) /\ charged \in Nat /\ ChargeInv
      BY DEF IInv, AuditTypeOK, TypeOK
    <2> QED BY <2>1, SliceStartFacts, ShapeAssumption, MaxRetriesAssumption
            DEF ChargeInv, FeeWithinSchedule
  <1> QED BY <1>1, Invariance, PTL

\* No ledger line claims more than Slice * MaxRetries ticks.
THEOREM LinesAreBounded == ASSUME Honest PROVE AuditSpec => []LineBounded
  <1>1. IInv => LineBounded
    BY DEF IInv
  <1> QED BY <1>1, Invariance, PTL

\* An undisturbed slice is recorded to the tick.
THEOREM LedgerIsExact == ASSUME Honest PROVE AuditSpec => []LedgerExact
  <1>1. IInv => LedgerExact
    BY DEF IInv
  <1> QED BY <1>1, Invariance, PTL

\* The audit only watches: an audited behaviour is one of the discipline.
THEOREM AuditRefinesDiscipline == AuditSpec => Spec
  <1>1. AuditInit => Init
    BY DEF AuditInit
  <1>2. [AuditNext]_auditVars => [Next]_vars
    BY DEF AuditNext, AuditTick, AuditObserve, AuditBelieve, AuditSwapFailed,
           AuditRewriteLogin, Next, Reconcile, auditVars
  <1> QED BY <1>1, <1>2, PTL DEF AuditSpec, Spec

-----------------------------------------------------------------------------
(* One session, with the real slice shapes (FeeSession).                   *)

----------------------------------------------------------------------------
(* Arithmetic of the real slice shapes.                                     *)

LEMMA Shapes ==
  ASSUME kind \in SwitchKind
  PROVE  (SessionWindow = 500 /\ SessionSlice = 20) \/ (SessionWindow = 15000 /\ SessionSlice = 600)
  BY DEF SwitchKind, SessionWindow, SessionSlice, SliceShape

\* x is q times w and r more.
Splits(x, w, q, r) == q \in Nat /\ r \in 0..(w - 1) /\ x = w * q + r

Divisors == {4, 500, 15000}

\* Quotient and remainder split a number, and nothing else does.
LEMMA Division ==
  ASSUME NEW x \in Nat, NEW w \in Divisors
  PROVE  Splits(x, w, x \div w, x % w)
  <1>1. CASE w = 4     BY <1>1 DEF Splits
  <1>2. CASE w = 500   BY <1>2 DEF Splits
  <1>3. CASE w = 15000 BY <1>3 DEF Splits
  <1> QED BY <1>1, <1>2, <1>3 DEF Divisors

LEMMA DivisionUnique ==
  ASSUME NEW x \in Nat, NEW w \in Divisors, NEW q, NEW r, Splits(x, w, q, r)
  PROVE  x \div w = q /\ x % w = r
  <1>1. CASE w = 4     BY <1>1 DEF Splits
  <1>2. CASE w = 500   BY <1>2 DEF Splits
  <1>3. CASE w = 15000
    <2>1. q \in Nat /\ r \in 0..14999 /\ x = 15000 * q + r
      BY <1>3 DEF Splits
    <2>2. x \div 15000 = q /\ x % 15000 = r
      BY <2>1, SMTT(60)
    <2> QED BY <1>3, <2>2
  <1> QED BY <1>1, <1>2, <1>3 DEF Divisors

\* A whole number of ticks below a boundary leaves room for one more.
LEMMA TickFits ==
  ASSUME NEW x \in Nat, x % Tick = 0, NEW w \in {500, 15000}, NEW b \in {480, 500, 14400, 15000},
         x % w < b
  PROVE  (x % w) + Tick <= b
  <1> DEFINE q == x \div w
             r == x % w
  <1>1. q \in Nat /\ r \in Nat /\ x = w * q + r
    <2>1. CASE w = 500   BY <2>1
    <2>2. CASE w = 15000 BY <2>2
    <2> QED BY <2>1, <2>2
  <1>2. r % Tick = 0
    <2>1. CASE w = 500   BY <1>1, <2>1, TickAssumption
    <2>2. CASE w = 15000 BY <1>1, <2>2, TickAssumption
    <2> QED BY <2>1, <2>2
  <1>3. b % Tick = 0
    BY TickAssumption
  <1> QED BY <1>1, <1>2, <1>3, TickAssumption

\* One tick further in the session.
LEMMA NextTick ==
  ASSUME kind \in SwitchKind, m \in Nat, m % Tick = 0
  PROVE  /\ m \div SessionWindow \in Nat /\ m % SessionWindow \in 0..(SessionWindow - 1)
         /\ m % SessionWindow < SessionWindow - SessionSlice => (m % SessionWindow) + Tick <= SessionWindow - SessionSlice
         /\ (m + Tick) % Tick = 0
         /\ \/ /\ (m % SessionWindow) + Tick < SessionWindow
               /\ (m + Tick) \div SessionWindow = m \div SessionWindow
               /\ (m + Tick) % SessionWindow = (m % SessionWindow) + Tick
            \/ /\ (m % SessionWindow) + Tick = SessionWindow
               /\ (m + Tick) \div SessionWindow = m \div SessionWindow + 1
               /\ (m + Tick) % SessionWindow = 0
  <1> DEFINE n == m \div SessionWindow
             p == m % SessionWindow
  <1>1. SessionWindow \in {500, 15000} /\ SessionSlice \in {20, 600} /\ SessionWindow - SessionSlice \in {480, 14400}
    BY Shapes
  <1>2. n \in Nat /\ p \in 0..(SessionWindow - 1) /\ m = SessionWindow * n + p
    <2>1. CASE SessionWindow = 500   BY <2>1
    <2>2. CASE SessionWindow = 15000 BY <2>2
    <2> QED BY <1>1, <2>1, <2>2
  <1>3. p + Tick <= SessionWindow
    <2>1. SessionWindow \in {480, 500, 14400, 15000} /\ p < SessionWindow
      BY <1>1, <1>2
    <2> QED BY <1>1, <2>1, TickFits
  <1>4. p < SessionWindow - SessionSlice => p + Tick <= SessionWindow - SessionSlice
    <2>1. SessionWindow - SessionSlice \in {480, 500, 14400, 15000}
      BY <1>1
    <2> QED BY <1>1, <2>1, TickFits
  <1>5. (m + Tick) % Tick = 0
    BY TickAssumption
  <1>6. CASE p + Tick < SessionWindow
    <2>1. p + Tick \in 0..(SessionWindow - 1) /\ m + Tick \in Nat
      BY <1>1, <1>2, <1>6, TickAssumption
    <2>2. Splits(m + Tick, SessionWindow, n, p + Tick)
      <3>1. CASE SessionWindow = 500   BY <1>2, <1>6, <3>1, TickAssumption DEF Splits
      <3>2. CASE SessionWindow = 15000 BY <1>2, <1>6, <3>2, TickAssumption DEF Splits
      <3> QED BY <1>1, <3>1, <3>2
    <2>3. (m + Tick) \div SessionWindow = n /\ (m + Tick) % SessionWindow = p + Tick
      <3>1. SessionWindow \in Divisors
        BY <1>1 DEF Divisors
      <3> HIDE DEF n, p
      <3> QED BY <2>1, <2>2, <3>1, DivisionUnique
    <2> QED BY <1>2, <1>4, <1>5, <1>6, <2>3
  <1>7. CASE p + Tick = SessionWindow
    <2>1. n + 1 \in Nat /\ m + Tick \in Nat /\ 0 \in 0..(SessionWindow - 1)
      BY <1>1, <1>2, TickAssumption
    <2>2. Splits(m + Tick, SessionWindow, n + 1, 0)
      <3>1. CASE SessionWindow = 500   BY <1>2, <1>7, <3>1, TickAssumption DEF Splits
      <3>2. CASE SessionWindow = 15000 BY <1>2, <1>7, <3>2, TickAssumption DEF Splits
      <3> QED BY <1>1, <3>1, <3>2
    <2>3. (m + Tick) \div SessionWindow = n + 1 /\ (m + Tick) % SessionWindow = 0
      <3>1. SessionWindow \in Divisors
        BY <1>1 DEF Divisors
      <3> HIDE DEF n, p
      <3> QED BY <2>1, <2>2, <3>1, DivisionUnique
    <2> QED BY <1>2, <1>4, <1>5, <1>7, <2>3
  <1> QED BY <1>1, <1>2, <1>3, <1>6, <1>7, TickAssumption

\* One window further in its group of 4.
LEMMA NextWindow ==
  ASSUME NEW n \in Nat
  PROVE  /\ n \div 4 \in Nat /\ n % 4 \in 0..3
         /\ \/ /\ n % 4 < 3
               /\ (n + 1) \div 4 = n \div 4
               /\ (n + 1) % 4 = (n % 4) + 1
            \/ /\ n % 4 = 3
               /\ (n + 1) \div 4 = n \div 4 + 1
               /\ (n + 1) % 4 = 0
  OBVIOUS

----------------------------------------------------------------------------
(* What a tick adds to what is due.                                         *)

LEMMA FeeDueStep ==
  ASSUME SessionInv, Mine
  PROVE  /\ FeeDue \in Nat
         /\ FeeDue' = IF InFeeSlice(kind, m) THEN FeeDue + Tick ELSE FeeDue
  <1> DEFINE n == m \div SessionWindow
             p == m % SessionWindow
  <1>1. /\ kind \in SwitchKind /\ m \in Nat /\ m % Tick = 0
        /\ kind' = kind /\ m' = m + Tick
    BY DEF SessionInv, Mine
  <1>2. SessionWindow' = SessionWindow /\ SessionSlice' = SessionSlice
    BY <1>1 DEF SessionWindow, SessionSlice
  <1>3. /\ n \in Nat /\ p \in 0..(SessionWindow - 1)
        /\ p < SessionWindow - SessionSlice => p + Tick <= SessionWindow - SessionSlice
        /\ \/ p + Tick < SessionWindow /\ n' = n /\ p' = p + Tick
           \/ p + Tick = SessionWindow /\ n' = n + 1 /\ p' = 0
    BY <1>1, <1>2, NextTick
  <1>4. InFeeSlice(kind, m) <=> p >= SessionWindow - SessionSlice
    BY DEF InFeeSlice, SliceAtWindowEnd, SessionWindow, SessionSlice
  <1>5. /\ FeeDue = SessionSlice * n + Past(p, SessionWindow - SessionSlice)
        /\ FeeDue' = SessionSlice * n' + Past(p', SessionWindow - SessionSlice)
    BY <1>2 DEF FeeDue, FeeOfWindow, Past
  <1> HIDE DEF n, p
  <1>6. CASE SessionWindow = 500 /\ SessionSlice = 20
    BY <1>3, <1>4, <1>5, <1>6, TickAssumption DEF Past
  <1>7. CASE SessionWindow = 15000 /\ SessionSlice = 600
    BY <1>3, <1>4, <1>5, <1>7, TickAssumption DEF Past
  <1> QED BY <1>1, <1>6, <1>7, Shapes

LEMMA AffiliateDueStep ==
  ASSUME SessionInv, Mine, NEW share \in {1, 2}
  PROVE  /\ AffiliateDue(share) \in Nat
         /\ AffiliateDue(share)' =
              IF InFeeSlice(kind, m) /\ (m \div SessionWindow) % 4 >= 4 - share
              THEN AffiliateDue(share) + Tick ELSE AffiliateDue(share)
  <1> DEFINE n == m \div SessionWindow
             p == m % SessionWindow
             g == n \div 4
             c == n % 4
  <1>1. /\ kind \in SwitchKind /\ m \in Nat /\ m % Tick = 0
        /\ kind' = kind /\ m' = m + Tick
    BY DEF SessionInv, Mine
  <1>2. SessionWindow' = SessionWindow /\ SessionSlice' = SessionSlice
    BY <1>1 DEF SessionWindow, SessionSlice
  <1>3. /\ n \in Nat /\ p \in 0..(SessionWindow - 1)
        /\ p < SessionWindow - SessionSlice => p + Tick <= SessionWindow - SessionSlice
        /\ \/ p + Tick < SessionWindow /\ n' = n /\ p' = p + Tick
           \/ p + Tick = SessionWindow /\ n' = n + 1 /\ p' = 0
    BY <1>1, <1>2, NextTick
  <1>4. InFeeSlice(kind, m) <=> p >= SessionWindow - SessionSlice
    BY DEF InFeeSlice, SliceAtWindowEnd, SessionWindow, SessionSlice
  <1>5. /\ g \in Nat /\ c \in 0..3
        /\ \/ n' = n /\ g' = g /\ c' = c
           \/ n' = n + 1 /\ c < 3 /\ g' = g /\ c' = c + 1
           \/ n' = n + 1 /\ c = 3 /\ g' = g + 1 /\ c' = 0
    <2>1. g' = n' \div 4 /\ c' = n' % 4
      OBVIOUS
    <2> HIDE DEF n
    <2> QED BY <1>3, <2>1, NextWindow
  <1>6. /\ AffiliateDue(share) =
             SessionSlice * (share * g + Past(c, 4 - share))
               + (IF c >= 4 - share THEN Past(p, SessionWindow - SessionSlice) ELSE 0)
        /\ AffiliateDue(share)' =
             SessionSlice * (share * g' + Past(c', 4 - share))
               + (IF c' >= 4 - share THEN Past(p', SessionWindow - SessionSlice) ELSE 0)
    BY <1>2 DEF AffiliateDue, FeeOfWindow, Past
  <1> HIDE DEF n, p, g, c
  <1> DEFINE Goal == /\ AffiliateDue(share) \in Nat
                     /\ AffiliateDue(share)' =
                          IF p >= SessionWindow - SessionSlice /\ c >= 4 - share
                          THEN AffiliateDue(share) + Tick ELSE AffiliateDue(share)
  <1>7. ASSUME SessionWindow = 500, SessionSlice = 20 PROVE Goal
    <2>1. ASSUME share = 1 PROVE Goal
      BY <1>3, <1>5, <1>6, <1>7, <2>1, TickAssumption DEF Past
    <2>2. ASSUME share = 2 PROVE Goal
      <3>1. /\ AffiliateDue(2) = SessionSlice * (2 * g + Past(c, 2))
                  + (IF c >= 2 THEN Past(p, SessionWindow - SessionSlice) ELSE 0)
            /\ AffiliateDue(2)' = SessionSlice * (2 * g' + Past(c', 2))
                  + (IF c' >= 2 THEN Past(p', SessionWindow - SessionSlice) ELSE 0)
        BY <1>6, <2>2
      <3>2. CASE n' = n /\ g' = g /\ c' = c
        BY <1>3, <1>5, <1>7, <2>2, <3>1, <3>2, TickAssumption DEF Past
      <3>3. CASE n' = n + 1 /\ c < 3 /\ g' = g /\ c' = c + 1
        BY <1>3, <1>5, <1>7, <2>2, <3>1, <3>3, TickAssumption DEF Past
      <3>4. CASE n' = n + 1 /\ c = 3 /\ g' = g + 1 /\ c' = 0
        BY <1>3, <1>5, <1>7, <2>2, <3>1, <3>4, TickAssumption DEF Past
      <3> QED BY <1>5, <3>2, <3>3, <3>4
    <2> QED BY <2>1, <2>2
  <1>8. ASSUME SessionWindow = 15000, SessionSlice = 600 PROVE Goal
    <2>1. ASSUME share = 1 PROVE Goal
      BY <1>3, <1>5, <1>6, <1>8, <2>1, TickAssumption DEF Past
    <2>2. ASSUME share = 2 PROVE Goal
      <3>1. /\ AffiliateDue(2) = SessionSlice * (2 * g + Past(c, 2))
                  + (IF c >= 2 THEN Past(p, SessionWindow - SessionSlice) ELSE 0)
            /\ AffiliateDue(2)' = SessionSlice * (2 * g' + Past(c', 2))
                  + (IF c' >= 2 THEN Past(p', SessionWindow - SessionSlice) ELSE 0)
        BY <1>6, <2>2
      <3>2. CASE n' = n /\ g' = g /\ c' = c
        BY <1>3, <1>5, <1>8, <2>2, <3>1, <3>2, TickAssumption DEF Past
      <3>3. CASE n' = n + 1 /\ c < 3 /\ g' = g /\ c' = c + 1
        BY <1>3, <1>5, <1>8, <2>2, <3>1, <3>3, TickAssumption DEF Past
      <3>4. CASE n' = n + 1 /\ c = 3 /\ g' = g + 1 /\ c' = 0
        BY <1>3, <1>5, <1>8, <2>2, <3>1, <3>4, TickAssumption DEF Past
      <3> QED BY <1>5, <3>2, <3>3, <3>4
    <2> QED BY <2>1, <2>2
  <1>9. Goal
    BY <1>1, <1>7, <1>8, Shapes
  <1> QED BY <1>4, <1>9 DEF c, n

----------------------------------------------------------------------------
(* The inductive invariant.                                                 *)

LEMMA SessionInitInv == SessionInit => SessionInv
  <1> SUFFICES ASSUME SessionInit PROVE SessionInv
    OBVIOUS
  <1>1. kind \in SwitchKind /\ m = 0 /\ fee = 0 /\ shared = 0 /\ now = 0 /\ affiliate \in Pins
    BY DEF SessionInit
  <1>2. FeeDue = 0
    BY <1>1, Shapes DEF FeeDue, FeeOfWindow, Past
  <1>3. ASSUME NEW share \in {1, 2} PROVE AffiliateDue(share) = 0
    BY <1>1, Shapes DEF AffiliateDue, FeeOfWindow, Past
  <1>4. \A a \in affiliate : AffiliateIsValid(a) => a.shareOf4 \in {1, 2}
    BY DEF AffiliateIsValid
  <1>5. m % Tick = 0
    BY <1>1, TickAssumption
  <1> QED BY <1>1, <1>2, <1>3, <1>4, <1>5 DEF SessionInv, SessionInit

\* A pin that pays at all pays one or two windows of each 4.
LEMMA PinFacts ==
  ASSUME NEW pin \in Pins, NEW a \in pin
  PROVE  /\ pin = {a} /\ a.until = 1
         /\ AffiliateIsValid(a) => a.shareOf4 \in {1, 2}
  <1>1. PICK x \in {Pin(TRUE, 1), Pin(TRUE, 2), Pin(TRUE, 3), Pin(FALSE, 2)} : pin = {x}
    <2> HIDE DEF Pin
    <2> QED BY DEF Pins
  <1>2. a = x
    BY <1>1
  <1>3. x.until = 1
    BY DEF Pin
  <1> QED BY <1>1, <1>2, <1>3 DEF AffiliateIsValid

\* When the affiliate gets the slice.
LEMMA DestinationIs ==
  ASSUME affiliate \in Pins, m \in Nat, kind \in SwitchKind
  PROVE  /\ FeeDestination(kind, m, affiliate, now) = "Affiliate" =>
              (m \div SessionWindow) % 4 >= 2
         /\ now = 0 => \A a \in affiliate : AffiliateIsValid(a) =>
              (FeeDestination(kind, m, affiliate, now) = "Affiliate"
                 <=> (m \div SessionWindow) % 4 >= 4 - a.shareOf4)
  <1> DEFINE n == m \div SessionWindow
             c == n % 4
  <1>1. n \in Nat
    BY Shapes
  <1>0. c \in 0..3
    <2> HIDE DEF n
    <2> QED BY <1>1, NextWindow
  <1>2. FeeDestination(kind, m, affiliate, now) = "Affiliate" <=>
          \E a \in affiliate : AffiliateIsValid(a) /\ now < a.until /\ c >= 4 - a.shareOf4
    BY DEF FeeDestination, SessionWindow
  <1> HIDE DEF n, c
  <1>3. ASSUME FeeDestination(kind, m, affiliate, now) = "Affiliate" PROVE c >= 2
    <2>1. PICK a \in affiliate : AffiliateIsValid(a) /\ c >= 4 - a.shareOf4
      BY <1>2, <1>3
    <2>2. a.shareOf4 \in {1, 2}
      BY <2>1 DEF AffiliateIsValid
    <2> QED BY <1>0, <2>1, <2>2
  <1>4. ASSUME now = 0, NEW a \in affiliate, AffiliateIsValid(a)
        PROVE  FeeDestination(kind, m, affiliate, now) = "Affiliate" <=> c >= 4 - a.shareOf4
    <2>1. affiliate = {a} /\ a.until = 1
      BY <1>4, PinFacts, Zenon
    <2>2. now < a.until
      BY <1>4, <2>1
    <2> QED BY <1>2, <1>4, <2>1, <2>2
  <1> QED BY <1>3, <1>4 DEF c, n

LEMMA SessionStepInv == SessionInv /\ [SessionNext]_sessionVars => SessionInv'
  <1> SUFFICES ASSUME SessionInv, [SessionNext]_sessionVars PROVE SessionInv'
    OBVIOUS
  <1>1. CASE Mine
    <2>1. /\ kind \in SwitchKind /\ m \in Nat /\ affiliate \in Pins /\ now \in {0, 1}
          /\ kind' = kind /\ m' = m + Tick
          /\ affiliate' = affiliate /\ now' = now /\ steady' = steady
          /\ fee \in Nat /\ shared \in Nat /\ m % Tick = 0
      BY <1>1 DEF SessionInv, Mine
    <2>2. m' \in Nat /\ m' % Tick = 0
      BY <2>1, NextTick, TickAssumption
    <2>3. fee' = FeeDue' /\ fee' \in Nat
      BY <1>1, <2>1, FeeDueStep, TickAssumption DEF SessionInv, Mine
    <2> DEFINE c == (m \div SessionWindow) % 4
               slice == InFeeSlice(kind, m)
               mine == FeeDestination(kind, m, affiliate, now) = "Affiliate"
    <2>4. shared' = IF slice /\ mine THEN shared + Tick ELSE shared
      BY <1>1 DEF Mine
    <2>5. shared' \in Nat
      BY <2>1, <2>4, TickAssumption
    <2>6. shared' <= AffiliateDue(2)'
      <3>1. /\ AffiliateDue(2) \in Nat
            /\ AffiliateDue(2)' =
                 IF slice /\ c >= 2 THEN AffiliateDue(2) + Tick ELSE AffiliateDue(2)
        BY <1>1, AffiliateDueStep
      <3>2. mine => c >= 2
        BY <2>1, DestinationIs
      <3>3. shared <= AffiliateDue(2)
        BY DEF SessionInv
      <3> HIDE DEF c, slice, mine
      <3> QED BY <2>1, <2>4, <3>1, <3>2, <3>3, TickAssumption
    <2>7. ASSUME steady', NEW a \in affiliate', AffiliateIsValid(a)
          PROVE  shared' = AffiliateDue(a.shareOf4)'
      <3>1. a \in affiliate /\ now = 0 /\ shared = AffiliateDue(a.shareOf4)
        BY <2>1, <2>7 DEF SessionInv
      <3>2. a.shareOf4 \in {1, 2}
        BY <2>1, <2>7, <3>1, PinFacts
      <3>3. ASSUME NEW share \in {1, 2}
            PROVE  AffiliateDue(share)' =
                     IF slice /\ c >= 4 - share
                     THEN AffiliateDue(share) + Tick ELSE AffiliateDue(share)
        BY <1>1, AffiliateDueStep
      <3>4. mine <=> c >= 4 - a.shareOf4
        BY <2>1, <2>7, <3>1, DestinationIs
      <3>5. CASE a.shareOf4 = 1
        BY <2>4, <3>1, <3>3, <3>4, <3>5
      <3>6. CASE a.shareOf4 = 2
        BY <2>4, <3>1, <3>3, <3>4, <3>6
      <3> QED BY <3>2, <3>5, <3>6
    <2>8. steady' => now' = 0
      BY <2>1 DEF SessionInv
    <2> QED BY <2>1, <2>2, <2>3, <2>5, <2>6, <2>7, <2>8 DEF SessionInv
  <1>2. CASE Repin \/ Expire \/ UNCHANGED sessionVars
    <2>1. /\ kind' = kind /\ m' = m /\ fee' = fee /\ shared' = shared
          /\ affiliate' \in Pins /\ now' \in {0, 1} /\ steady' \in BOOLEAN
          /\ \/ ~steady'
             \/ steady' = steady /\ affiliate' = affiliate /\ now' = now
      <3>1. CASE Repin  BY <3>1 DEF Repin, SessionInv
      <3>2. CASE Expire BY <3>2 DEF Expire, SessionInv
      <3>3. CASE UNCHANGED sessionVars BY <3>3 DEF sessionVars, SessionInv
      <3> QED BY <1>2, <3>1, <3>2, <3>3
    <2>2. SessionWindow' = SessionWindow /\ SessionSlice' = SessionSlice
      BY <2>1 DEF SessionWindow, SessionSlice
    <2>3. FeeDue' = FeeDue /\ \A share \in {1, 2} : AffiliateDue(share)' = AffiliateDue(share)
      BY <2>1, <2>2 DEF FeeDue, AffiliateDue, FeeOfWindow, Past
    <2>4. ASSUME steady', NEW a \in affiliate', AffiliateIsValid(a)
          PROVE  shared' = AffiliateDue(a.shareOf4)'
      <3>1. a \in affiliate /\ shared = AffiliateDue(a.shareOf4)
        BY <2>1, <2>4 DEF SessionInv
      <3>2. a.shareOf4 \in {1, 2}
        BY <2>4 DEF AffiliateIsValid
      <3>3. CASE a.shareOf4 = 1
        BY <2>1, <2>3, <3>1, <3>3
      <3>4. CASE a.shareOf4 = 2
        BY <2>1, <2>3, <3>1, <3>4
      <3> QED BY <3>2, <3>3, <3>4
    <2> QED BY <2>1, <2>3, <2>4 DEF SessionInv
  <1> QED BY <1>1, <1>2 DEF SessionNext

THEOREM SessionInvariance == SessionSpec => []SessionInv
  <1> QED BY SessionInitInv, SessionStepInv, PTL DEF SessionSpec

----------------------------------------------------------------------------
(* What it means for the user and for the affiliate.                        *)

\* What is due, in terms of whole windows and groups of 4.
LEMMA DueFacts ==
  ASSUME SessionInv
  PROVE  /\ 25 * FeeDue <= m
         /\ m % SessionWindow = 0 => 25 * FeeDue = m
         /\ 2 * AffiliateDue(2) <= FeeDue
         /\ m % (4 * SessionWindow) = 0 =>
              \A share \in {1, 2} : 4 * AffiliateDue(share) = share * FeeDue
  <1> DEFINE n == m \div SessionWindow
             p == m % SessionWindow
             g == n \div 4
             c == n % 4
  <1>1. kind \in SwitchKind /\ m \in Nat /\ m % Tick = 0
    BY DEF SessionInv
  <1>2. n \in Nat /\ p \in 0..(SessionWindow - 1) /\ m = SessionWindow * n + p
    <2>1. CASE SessionWindow = 500   BY <1>1, <2>1
    <2>2. CASE SessionWindow = 15000 BY <1>1, <2>2
    <2> QED BY <1>1, <2>1, <2>2, Shapes
  <1>3. g \in Nat /\ c \in 0..3 /\ n = 4 * g + c
    <2> HIDE DEF n
    <2> QED BY <1>2
  <1>4. FeeDue = SessionSlice * n + Past(p, SessionWindow - SessionSlice)
    BY DEF FeeDue, FeeOfWindow
  <1>5. ASSUME NEW share \in {1, 2}
        PROVE  AffiliateDue(share) =
                 SessionSlice * (share * g + Past(c, 4 - share))
                   + (IF c >= 4 - share THEN Past(p, SessionWindow - SessionSlice) ELSE 0)
    BY DEF AffiliateDue, FeeOfWindow
  <1>6. m % (4 * SessionWindow) = 0 => c = 0 /\ p = 0
    <2>1. CASE SessionWindow = 500   BY <1>1, <2>1
    <2>2. CASE SessionWindow = 15000 BY <1>1, <2>2
    <2> QED BY <1>1, <2>1, <2>2, Shapes
  <1> HIDE DEF n, g, c
  <1>7. 25 * FeeDue <= m /\ (p = 0 => 25 * FeeDue = m)
    <2> HIDE DEF p
    <2>1. CASE SessionWindow = 500 /\ SessionSlice = 20
      BY <1>2, <1>4, <2>1 DEF Past
    <2>2. CASE SessionWindow = 15000 /\ SessionSlice = 600
      BY <1>2, <1>4, <2>2 DEF Past
    <2> QED BY <1>1, <2>1, <2>2, Shapes
  <1>8. 2 * AffiliateDue(2) <= FeeDue
    <2> HIDE DEF p
    <2>1. CASE SessionWindow = 500 /\ SessionSlice = 20
      BY <1>2, <1>3, <1>4, <1>5, <2>1 DEF Past
    <2>2. CASE SessionWindow = 15000 /\ SessionSlice = 600
      BY <1>2, <1>3, <1>4, <1>5, <2>2 DEF Past
    <2> QED BY <1>1, <2>1, <2>2, Shapes
  <1>9. ASSUME m % (4 * SessionWindow) = 0, NEW share \in {1, 2}
        PROVE  4 * AffiliateDue(share) = share * FeeDue
    <2>1. c = 0 /\ p = 0
      BY <1>6, <1>9
    <2> HIDE DEF p
    <2>2. CASE share = 1
      BY <1>1, <1>2, <1>3, <1>4, <1>5, <2>1, <2>2, Shapes DEF Past
    <2>3. CASE share = 2
      BY <1>1, <1>2, <1>3, <1>4, <1>5, <2>1, <2>3, Shapes DEF Past
    <2> QED BY <2>2, <2>3
  <1> QED BY <1>7, <1>8, <1>9

LEMMA DueIsNat ==
  ASSUME SessionInv
  PROVE  AffiliateDue(2) \in Nat
  <1> DEFINE n == m \div SessionWindow
             p == m % SessionWindow
  <1>1. kind \in SwitchKind /\ m \in Nat
    BY DEF SessionInv
  <1>2. n \in Nat /\ p \in Nat
    BY <1>1, Shapes
  <1>3. n \div 4 \in Nat /\ n % 4 \in 0..3
    <2> HIDE DEF n
    <2> QED BY <1>2, NextWindow
  <1>4. AffiliateDue(2) = SessionSlice * (2 * (n \div 4) + Past(n % 4, 2))
                            + (IF n % 4 >= 2 THEN Past(p, SessionWindow - SessionSlice) ELSE 0)
    BY DEF AffiliateDue, FeeOfWindow
  <1> HIDE DEF n, p
  <1> QED BY <1>1, <1>2, <1>3, <1>4, Shapes DEF Past

\* However short a session, and wherever it ends, at most 4% of it went to the fee side.
THEOREM SessionPaysAtMostFourPercent == SessionSpec => []AtMostFourPercent
  <1>1. SessionInv => AtMostFourPercent
    BY DueFacts DEF SessionInv, AtMostFourPercent
  <1> QED BY <1>1, SessionInvariance, PTL

\* Whole windows pay exactly 4%.
THEOREM WindowsPayFourPercent == SessionSpec => []ExactlyFourPercent
  <1>1. SessionInv => ExactlyFourPercent
    BY DueFacts DEF SessionInv, ExactlyFourPercent
  <1> QED BY <1>1, SessionInvariance, PTL

\* No change of the pin in mid-session gives the affiliate more than half of the fee.
THEOREM AffiliateIsBounded == SessionSpec => []AffiliateAtMostHalf
  <1>1. SessionInv => AffiliateAtMostHalf
    <2> SUFFICES ASSUME SessionInv PROVE AffiliateAtMostHalf
      OBVIOUS
    <2>1. AffiliateDue(2) \in Nat
      BY DueIsNat
    <2> QED BY <2>1, DueFacts DEF SessionInv, AffiliateAtMostHalf
  <1> QED BY <1>1, SessionInvariance, PTL

\* An unchanged pin is paid its windows exactly.
THEOREM AffiliateIsPaidExactly == SessionSpec => []AffiliateExact
  <1>1. SessionInv => AffiliateExact
    <2> SUFFICES ASSUME SessionInv, steady, m % (4 * SessionWindow) = 0,
                        NEW a \in affiliate, AffiliateIsValid(a)
                 PROVE  4 * shared = a.shareOf4 * fee
      BY DEF AffiliateExact
    <2>1. shared = AffiliateDue(a.shareOf4) /\ fee = FeeDue
      BY DEF SessionInv
    <2>2. a.shareOf4 \in {1, 2}
      BY DEF AffiliateIsValid
    <2> QED BY <2>1, <2>2, DueFacts
  <1> QED BY <1>1, SessionInvariance, PTL

=============================================================================
