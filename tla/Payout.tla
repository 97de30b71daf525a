------------------------------- MODULE Payout -------------------------------
(***************************************************************************)
(* Whose address a headless node mines to (pasivd/src/main.rs): the cloud  *)
(* answers polls with the payout of the account a device is bound to; the  *)
(* node keeps the last one it heard in payout.json, so that it can start   *)
(* without the cloud; `pasivd claim` binds the node to an account again,   *)
(* under a new device id.                                                  *)
(*                                                                         *)
(* The i-th claim creates device i, approved by owner[i].  A payout is     *)
(* what an account holds: an account-wide address (USDT or BTC, `usdt`)    *)
(* and a Monero address; either may be missing or malformed.               *)
(* Once settled, accounts, claims and devices stay as they are, nothing    *)
(* crashes, and the cloud is up for good or down for good.                 *)
(***************************************************************************)
EXTENDS Integers, Sequences, Unmineable

CONSTANTS
  Owners,        \* accounts
  Holdings,      \* owner -> the payouts its account may hold
  NoFile,        \* payout.json is not there
  MaxClaims,     \* bound on the claims
  StopsService   \* does the owner stop the service around a re-claim?

Payouts   == UNION {Holdings[o] : o \in Owners}
Addresses == (UNION {{p.usdt, p.xmr} : p \in Payouts}) \ {None}
NoTarget  == [account |-> FALSE, addr |-> None]

ASSUME PayoutAssumption ==
  /\ MaxClaims \in Nat \ {0} /\ StopsService \in BOOLEAN
  /\ \A o \in Owners : Holdings[o] # {}
  /\ NoFile \notin Payouts

VARIABLES
  account,    \* owner -> payout, at the cloud
  owner,      \* device -> the owner who approved it
  revoked,    \* devices the owner removed again
  settled,    \* "no", or for good with the cloud "up" or "down"
  config,     \* /etc/pasivd.json: [device, payout, readable]
  cache,      \* payout.json, or NoFile
  step,       \* a `pasivd claim` at work: "idle", "written", "handed"
  whole,      \* history: did the claim that wrote `config` run to its end?
  pc,         \* the service: "down", "startup" (startup_target), "run"
  device,     \* cfg.device_id, as the service read it
  payout,     \* payout: the last one the service heard
  tgt,        \* tgt
  autoAddr,   \* unmineable_usdt: the address the cloud link keeps auto pay on for
  inbox,      \* payouts on their way from the cloud link to the miner loop
  mined,      \* account-wide addresses that have an id at unMineable: they have mined
  autoPay     \* addresses whose auto pay is on, at unMineable

cloud   == <<account, owner, revoked, settled>>
claim   == <<step, whole>>
service == <<pc, device, payout, tgt, autoAddr, inbox>>
pool    == <<mined, autoPay>>
vars    == <<cloud, config, cache, claim, service, pool>>

\* target: an account-wide address that is valid wins over the Monero one.
Target(p) ==
  IF p.usdt # None /\ Infer(Trim(p.usdt)) # None
  THEN [account |-> TRUE, addr |-> Login(Infer(Trim(p.usdt)), p.usdt).addr]
  ELSE IF p.xmr # None /\ Login(NativeFor("xmr"), p.xmr) # None
  THEN [account |-> FALSE, addr |-> Trim(p.xmr)]
  ELSE NoTarget

HasTarget(p) == Target(p) # NoTarget

\* cached_payout: the cache when it exists, else what the claim wrote.
CachedPayout == IF cache # NoFile THEN cache ELSE config.payout

\* save_payout_cache: best effort.
Save(fresh) == cache' \in {cache, fresh}

\* poll_payout, for a device: what it hears when it is claimed, and can it
\* hear anything else ("not claimed", or an error)?
Answer(d)      == account[owner[d]]
CanHear(d)     == d \notin revoked /\ settled # "down"
CanHearNone(d) == d \in revoked \/ settled # "up"

-----------------------------------------------------------------------------
(* The owner and the cloud.                                                *)

ChangePayout ==
  /\ settled = "no"
  /\ \E o \in Owners : \E p \in Holdings[o] : account' = [account EXCEPT ![o] = p]
  /\ UNCHANGED <<owner, revoked, settled, config, cache, claim, service, pool>>

Revoke ==
  /\ settled = "no"
  /\ \E d \in 1..Len(owner) : revoked' = revoked \union {d}
  /\ UNCHANGED <<account, owner, settled, config, cache, claim, service, pool>>

Settle ==
  /\ settled = "no" /\ settled' \in {"up", "down"}
  /\ UNCHANGED <<account, owner, revoked, config, cache, claim, service, pool>>

-----------------------------------------------------------------------------
(* cmd_claim, as root, beside the service or with the service stopped.     *)

ClaimWrite ==                        \* approved: the config is replaced
  /\ settled = "no" /\ step = "idle" /\ Len(owner) < MaxClaims
  /\ StopsService => pc = "down"
  /\ \E o \in Owners :
       /\ owner' = Append(owner, o)
       /\ config' = [device |-> Len(owner) + 1, payout |-> account[o], readable |-> FALSE]
  /\ step' = "written" /\ whole' = FALSE
  /\ UNCHANGED <<account, revoked, settled, cache, service, pool>>

ClaimHand ==                         \* hand_to_service_user
  /\ step = "written" /\ step' = "handed"
  /\ config' = [config EXCEPT !.readable = TRUE]
  /\ UNCHANGED <<cloud, cache, whole, service, pool>>

ClaimKeepsCache ==                   \* slip: the config wins only by being newer
  /\ step = "handed" /\ step' = "idle" /\ whole' = TRUE
  /\ UNCHANGED <<cloud, config, cache, service, pool>>

ClaimRemoveCache ==
  /\ step = "handed" /\ step' = "idle" /\ whole' = TRUE
  /\ cache' = NoFile
  /\ UNCHANGED <<cloud, config, service, pool>>

ClaimDies ==
  /\ settled = "no" /\ step # "idle" /\ step' = "idle"
  /\ UNCHANGED <<cloud, config, cache, whole, service, pool>>

-----------------------------------------------------------------------------
(* The service.                                                            *)

StartFails ==                        \* it cannot read its config, and exits
  /\ pc = "down" /\ step = "idle" /\ ~config.readable
  /\ UNCHANGED vars

Start ==
  /\ pc = "down" /\ step = "idle" /\ config.readable
  /\ pc' = "startup" /\ device' = config.device /\ payout' = CachedPayout
  /\ tgt' = NoTarget /\ autoAddr' = None /\ inbox' = <<>>
  /\ UNCHANGED <<cloud, config, cache, claim, pool>>

\* startup_target returns the target of p to cmd_run, which gives the cloud
\* link, for good, the address to keep auto pay on for.
Run(p) ==
  /\ pc' = "run" /\ tgt' = Target(p)
  /\ autoAddr' = IF Target(p).account THEN p.usdt ELSE None

Wait == UNCHANGED <<pc, tgt, autoAddr>>

StartupClaimed ==
  /\ pc = "startup" /\ CanHear(device)
  /\ payout' = Answer(device)
  /\ IF payout' = payout THEN UNCHANGED cache ELSE Save(payout')
  /\ IF HasTarget(payout') THEN Run(payout') ELSE Wait
  /\ UNCHANGED <<cloud, config, claim, device, inbox, pool>>

StartupExits ==                      \* slip: the process fails with the poll
  /\ pc = "startup" /\ CanHearNone(device)
  /\ pc' = "down"
  /\ UNCHANGED <<cloud, config, cache, claim, device, payout, tgt, autoAddr, inbox, pool>>

StartupUnheard ==
  /\ pc = "startup" /\ CanHearNone(device)
  /\ IF HasTarget(payout) THEN Run(payout) ELSE Wait
  /\ UNCHANGED <<cloud, config, cache, claim, device, payout, inbox, pool>>

LinkPoll ==                          \* "not claimed" and errors change nothing
  /\ pc = "run" /\ inbox = <<>>
  /\ \/ CanHear(device) /\ inbox' = <<Answer(device)>>
     \/ CanHearNone(device) /\ UNCHANGED inbox
  /\ UNCHANGED <<cloud, config, cache, claim, pc, device, payout, tgt, autoAddr, pool>>

TakeSaved ==                         \* slip: taken only once it is saved
  /\ pc = "run" /\ inbox # <<>> /\ inbox' = <<>>
  /\ LET fresh == Head(inbox) IN
       /\ Save(fresh)
       /\ IF fresh # payout /\ HasTarget(fresh) /\ cache' = fresh
          THEN payout' = fresh /\ tgt' = Target(fresh)
          ELSE UNCHANGED <<payout, tgt>>
  /\ UNCHANGED <<cloud, config, claim, pc, device, autoAddr, pool>>

\* CloudEvent::Payout.  A payout removed from the account is not followed.
TakePayout ==
  /\ pc = "run" /\ inbox # <<>> /\ inbox' = <<>>
  /\ LET fresh == Head(inbox) IN
       IF fresh # payout /\ HasTarget(fresh)
       THEN Save(fresh) /\ payout' = fresh /\ tgt' = Target(fresh)
       ELSE UNCHANGED <<cache, payout, tgt>>
  /\ UNCHANGED <<cloud, config, claim, pc, device, autoAddr, pool>>

\* unMineable, which does not depend on the cloud, knows an address that mines.
Mine ==
  /\ pc = "run" /\ tgt.account /\ tgt.addr \notin mined
  /\ mined' = mined \union {tgt.addr}
  /\ UNCHANGED <<cloud, config, cache, claim, service, autoPay>>

\* ensure_auto_pay, daily: nothing for an address that is not an asset's as it is written,
\* that has no id yet, or whose auto pay is on.
AutoPay ==
  /\ pc = "run" /\ autoAddr # None /\ Infer(autoAddr) # None
  /\ autoAddr \in mined \ autoPay
  /\ autoPay' = autoPay \union {autoAddr}
  /\ UNCHANGED <<cloud, config, cache, claim, service, mined>>

Crash ==                             \* or a stop of the unit
  /\ settled = "no" /\ pc # "down" /\ pc' = "down" /\ inbox' = <<>>
  /\ UNCHANGED <<cloud, config, cache, claim, device, payout, tgt, autoAddr, pool>>

-----------------------------------------------------------------------------
Init ==
  /\ account \in {a \in [Owners -> Payouts] : \A o \in Owners : a[o] \in Holdings[o]}
  /\ owner \in {<<o>> : o \in Owners}
  /\ revoked = {} /\ settled = "no"
  /\ config = [device |-> 1, payout |-> Answer(1), readable |-> TRUE] /\ cache = NoFile
  /\ step = "idle" /\ whole = TRUE
  /\ pc = "down" /\ device = 1 /\ payout = config.payout /\ tgt = NoTarget /\ autoAddr = None
  /\ inbox = <<>> /\ mined = {} /\ autoPay = {}

Next ==
  \/ ChangePayout \/ Revoke \/ Settle
  \/ ClaimWrite \/ ClaimHand \/ ClaimRemoveCache \/ ClaimDies
  \/ StartFails \/ Start \/ StartupClaimed \/ StartupUnheard
  \/ LinkPoll \/ TakePayout \/ Mine \/ AutoPay \/ Crash

Spec == Init /\ [][Next]_vars

\* systemd restarts the service (Restart=always), its two tasks keep polling,
\* draining and checking, unMineable hears of what is mined and answers them
\* now and then, and a claim that is not killed finishes.
FairSpec ==
  /\ Spec
  /\ WF_vars(Settle)
  /\ WF_vars(ClaimHand) /\ WF_vars(ClaimRemoveCache)
  /\ WF_vars(Start) /\ WF_vars(StartupClaimed) /\ WF_vars(StartupUnheard)
  /\ WF_vars(LinkPoll) /\ WF_vars(TakePayout) /\ WF_vars(Mine) /\ WF_vars(AutoPay)

-----------------------------------------------------------------------------
(* What the payout handling promises.                                      *)

\* Every variable has its type; a running node has a target, that of the
\* payout in its hand.
TypeOK ==
  /\ \A o \in Owners : account[o] \in Holdings[o]
  /\ owner \in Seq(Owners) /\ Len(owner) \in 1..MaxClaims
  /\ revoked \subseteq DOMAIN owner /\ settled \in {"no", "up", "down"}
  /\ config \in [device : DOMAIN owner, payout : Payouts, readable : BOOLEAN]
  /\ cache \in Payouts \union {NoFile}
  /\ step \in {"idle", "written", "handed"} /\ whole \in BOOLEAN
  /\ pc \in {"down", "startup", "run"} /\ device \in DOMAIN owner
  /\ payout \in Payouts
  /\ autoAddr \in Addresses \union {None}
  /\ mined \subseteq {Trim(x) : x \in Addresses} /\ autoPay \subseteq Addresses \intersect mined
  /\ Len(inbox) <= 1 /\ \A i \in DOMAIN inbox : inbox[i] \in Payouts
  /\ pc = "run" => HasTarget(payout) /\ tgt = Target(payout)

\* A node never mines, under the device of the last completed claim, to an
\* address that was never of the account that approved it: "a payout cached
\* from the previous owner must not outlive" the re-claim (main.rs:478).
PaysWhoClaimed ==
  (pc = "run" /\ whole /\ device = config.device) =>
     \E p \in Holdings[owner[device]] : tgt = Target(p)

\* Both, for the run that stops the service around a claim.
PayoutInv == TypeOK /\ PaysWhoClaimed

\* A node that knows a payout mines though the cloud is down, or denies the
\* device (main.rs:745: "consulted, never obeyed into silence"), and if that
\* is an account-wide address, its auto pay comes on all the same.  (It never
\* does for an address that is written with spaces: ensure_auto_pay takes it
\* as it is, where target trims it.)
InUse == IF pc = "down" THEN config.device ELSE device
Known == IF pc = "down" THEN CachedPayout ELSE payout
KeepsMining ==
  ( /\ settled # "no" /\ step = "idle" /\ config.readable
    /\ InUse \in revoked \/ settled = "down"
    /\ HasTarget(Known) ) ~> (pc = "run" /\ (tgt.addr = autoAddr => autoAddr \in autoPay))

\* Once things are quiet and the cloud up, a claimed node comes to mine, for
\* good, to what the account holds; an account that holds nothing is not
\* followed.
Quiet(d) ==
  /\ settled = "up" /\ step = "idle" /\ config.readable
  /\ InUse = d /\ d \notin revoked /\ HasTarget(Answer(d))
FollowsAccount ==
  \A d \in 1..MaxClaims :
    [](Quiet(d) => <>[](InUse = d /\ pc = "run" /\ tgt = Target(Answer(d))))
=============================================================================
