----------------------------- MODULE FeeSession -----------------------------
(***************************************************************************)
(* What one mining session pays, with the real slice shapes (fee.rs): the  *)
(* schedule is asked once a tick, and the tick's seconds go to the side it *)
(* names; a fee second goes to the treasury or to the affiliate.  Mining   *)
(* time starts from zero with the session.  The affiliate pin may be       *)
(* confirmed, changed by its daily re-check, removed or expire at any      *)
(* moment of the session.                                                  *)
(***************************************************************************)
EXTENDS FeeSchedule

CONSTANTS
  Tick,        \* seconds between two decisions (5 in pasivd)
  MaxWindows   \* bound on the length of a session

ASSUME TickAssumption ==
  /\ Tick \in {1, 2, 4, 5, 10, 20}   \* the divisors of the shorter slice
  /\ MaxWindows \in Nat

VARIABLES
  kind,       \* how this lane's miner is switched
  m,          \* mining_secs
  affiliate,  \* the pin: {} or one record
  now,        \* 0 before the pin's until_unix, 1 from then on
  fee,        \* seconds this session gave to the fee side
  shared,     \* ... of which to the affiliate
  steady      \* history: the pin has not changed since the session began

sessionVars == <<kind, m, affiliate, now, fee, shared, steady>>

Pin(ok, share) == [addressOk |-> ok, shareOf4 |-> share, until |-> 1]
Pins == {{}, {Pin(TRUE, 1)}, {Pin(TRUE, 2)}, {Pin(TRUE, 3)}, {Pin(FALSE, 2)}}

SessionWindow == SliceShape[kind].window
SessionSlice  == SliceShape[kind].slice

SessionInit ==
  /\ kind \in SwitchKind /\ affiliate \in Pins /\ now = 0
  /\ m = 0 /\ fee = 0 /\ shared = 0 /\ steady = TRUE

\* One tick of mining time, on the side the schedule names for it.
Mine ==
  /\ m < MaxWindows * SessionWindow
  /\ m' = m + Tick
  /\ fee' = IF InFeeSlice(kind, m) THEN fee + Tick ELSE fee
  /\ shared' = IF InFeeSlice(kind, m)
                  /\ FeeDestination(kind, m, affiliate, now) = "Affiliate"
               THEN shared + Tick ELSE shared
  /\ UNCHANGED <<kind, affiliate, now, steady>>

Repin ==
  /\ affiliate' \in Pins \ {affiliate}
  /\ steady' = FALSE
  /\ UNCHANGED <<kind, m, now, fee, shared>>

Expire ==
  /\ now = 0
  /\ now' = 1 /\ steady' = FALSE
  /\ UNCHANGED <<kind, m, affiliate, fee, shared>>

SessionNext == Mine \/ Repin \/ Expire

SessionSpec == SessionInit /\ [][SessionNext]_sessionVars

----------------------------------------------------------------------------
(* Properties.                                                              *)

\* "Any session pays at most 4%" (fee.rs): however short, wherever it ends.
AtMostFourPercent == 25 * fee <= m

\* "... and over a long run exactly 4%": at the end of every window.
ExactlyFourPercent == m % SessionWindow = 0 => 25 * fee = m

\* However its pin changes in mid-session, the affiliate never has more than half of what
\* the session has paid so far ("a short session favours the treasury", fee.rs).
AffiliateAtMostHalf == 2 * shared <= fee

\* "Over any 4 consecutive windows exactly share_of_4 go to the affiliate" (fee.rs), for a
\* pin that stays as it is.
AffiliateExact ==
  steady /\ m % (4 * SessionWindow) = 0 =>
    \A a \in affiliate : AffiliateIsValid(a) => 4 * shared = a.shareOf4 * fee

----------------------------------------------------------------------------
(* The inductive invariant: what the session has paid so far is a function  *)
(* of its mining time.                                                      *)

\* How far `x` is past `start`.
Past(x, start) == IF x <= start THEN 0 ELSE x - start

\* Fee seconds of the window the session is in, and of the whole session.
FeeOfWindow == Past(m % SessionWindow, SessionWindow - SessionSlice)
FeeDue      == SessionSlice * (m \div SessionWindow) + FeeOfWindow

\* Of these, what an affiliate with the last `share` windows of each 4 is due.
AffiliateDue(share) ==
  LET n == m \div SessionWindow
  IN SessionSlice * (share * (n \div 4) + Past(n % 4, 4 - share))
       + (IF n % 4 >= 4 - share THEN FeeOfWindow ELSE 0)

SessionInv ==
  /\ kind \in SwitchKind /\ affiliate \in Pins /\ now \in {0, 1} /\ steady \in BOOLEAN
  /\ m \in Nat /\ fee \in Nat /\ shared \in Nat
  /\ m % Tick = 0
  /\ fee = FeeDue
  /\ shared <= AffiliateDue(2)
  /\ steady => now = 0
  /\ steady => \A a \in affiliate : AffiliateIsValid(a) => shared = AffiliateDue(a.shareOf4)

============================================================================
