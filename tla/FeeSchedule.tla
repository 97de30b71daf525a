---------------------------- MODULE FeeSchedule ----------------------------
(***************************************************************************)
(* The pure part of the fee engine (crates/pasiv-core/src/fee.rs): when a  *)
(* fee slice is due, whom it pays, and the bookkeeping of SliceScheduler,  *)
(* the record both consumers (the desktop supervisor and pasivd) drive.    *)
(*                                                                         *)
(* Times are natural numbers in the unit of the caller.  Wall-clock time   *)
(* is relative: instead of slice_started_at the scheduler keeps the age of *)
(* the open slice, the only thing the code derives from it                 *)
(* (ended_at - started_at).  NoSlice stands for None.                      *)
(***************************************************************************)
EXTENDS Integers

CONSTANT MaxRetries   \* FEE_RETURN_MAX_RETRIES

ASSUME MaxRetriesAssumption == MaxRetries \in Nat \ {0}

SwitchKind == {"HotSwap", "Restart"}
PayoutSide == {"User", "Fee"}
NoSlice    == -1

SliceShape ==
  [k \in SwitchKind |->
     IF k = "HotSwap" THEN [window |-> 500,   slice |-> 20]
                      ELSE [window |-> 15000, slice |-> 600]]

\* Slip: the window's last slice + 1 units.
SliceOneWider(m, window, slice) == m % window >= window - slice - 1

\* Slips: the slice opens the window, as it once did; its first tick is lost.
SliceAtWindowStart(m, window, slice) == m % window < slice
SlicePastStart(m, window, slice)     == m % window > window - slice

\* The slice is the LAST `slice` units of every window of mining time.
SliceAtWindowEnd(m, window, slice) == m % window >= window - slice

InFeeSlice(kind, m) ==
  SliceAtWindowEnd(m, SliceShape[kind].window, SliceShape[kind].slice)

\* Slip: the schedule alone decides, whether hashes are produced or not.
DesiredBySchedule(hashing, inSlice) == IF inSlice THEN "Fee" ELSE "User"

\* The side the login belongs on: the fee side only in a slice, only while hashing.
Desired(hashing, inSlice) == IF hashing /\ inSlice THEN "Fee" ELSE "User"

----------------------------------------------------------------------------
(* Share and earn.  An affiliate is absent ({}) or one confirmed pin.       *)

AffiliateIsValid(a) == a.addressOk /\ a.shareOf4 \in {1, 2}

\* Slips: the affiliate gets the first windows of each 4; one window too few.
DestinationFirst(kind, m, affiliate, now) ==
  IF \E a \in affiliate :
       /\ AffiliateIsValid(a)
       /\ now < a.until
       /\ (m \div SliceShape[kind].window) % 4 < a.shareOf4
  THEN "Affiliate"
  ELSE "Treasury"
DestinationOneFewer(kind, m, affiliate, now) ==
  IF \E a \in affiliate :
       /\ AffiliateIsValid(a)
       /\ now < a.until
       /\ (m \div SliceShape[kind].window) % 4 > 4 - a.shareOf4
  THEN "Affiliate"
  ELSE "Treasury"

\* The LAST shareOf4 windows of each 4 pay the affiliate, while the pin is valid.
FeeDestination(kind, m, affiliate, now) ==
  IF \E a \in affiliate :
       /\ AffiliateIsValid(a)
       /\ now < a.until
       /\ (m \div SliceShape[kind].window) % 4 >= 4 - a.shareOf4
  THEN "Affiliate"
  ELSE "Treasury"

----------------------------------------------------------------------------
(* SliceScheduler.                                                          *)

Scheduler ==
  [onFee : BOOLEAN, age : Nat \cup {NoSlice}, failedReturns : 0..(MaxRetries - 1)]

FreshScheduler == [onFee |-> FALSE, age |-> NoSlice, failedReturns |-> 0]

\* Slip: every confirmation on the fee side opens a slice.
ConfirmedReopens(s, side) ==
  [onFee |-> side = "Fee", age |-> IF side = "User" THEN NoSlice ELSE 0, failedReturns |-> 0]

\* The miner is confirmed on `side`: the scheduler afterwards.
Confirmed(s, side) ==
  [onFee         |-> side = "Fee",
   age           |-> IF side = "User" THEN NoSlice
                     ELSE IF s.onFee THEN s.age ELSE 0,
   failedReturns |-> 0]

\* ... and whether that confirmation yields the slice's ledger line.
ClosesSlice(s, side) == s.onFee /\ side = "User" /\ s.age # NoSlice

\* Slip: one return too many is tolerated.
MustStopOneLate(s, wanted) == wanted = "User" /\ s.failedReturns + 1 > MaxRetries

\* A swap toward `wanted` failed: is the return budget exhausted?
MustStop(s, wanted) == wanted = "User" /\ s.failedReturns + 1 >= MaxRetries

\* Slip: a failed swap toward the fee side counts as a failed return.
SwapFailedBothWays(s, wanted) ==
  IF MustStop(s, wanted) THEN FreshScheduler ELSE [s EXCEPT !.failedReturns = @ + 1]

SwapFailed(s, wanted) ==
  IF MustStop(s, wanted) THEN FreshScheduler
  ELSE IF wanted = "User" THEN [s EXCEPT !.failedReturns = @ + 1]
  ELSE s

\* Wall-clock time passes for the open slice.
Elapse(s) == IF s.age = NoSlice THEN s ELSE [s EXCEPT !.age = @ + 1]

============================================================================
