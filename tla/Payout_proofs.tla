--------------------------- MODULE Payout_proofs ---------------------------
(***************************************************************************)
(* Whom a node pays, for every set of accounts, every payout they may hold *)
(* and any number of claims, when the owner stops the service around a     *)
(* re-claim.  Without that, the types still hold.                          *)
(***************************************************************************)
EXTENDS Payout, SequenceTheorems, TLAPS

\* The owner keeps the service stopped while `pasivd claim` binds the node again.
Stops == StopsService

-----------------------------------------------------------------------------
(* The inductive invariant.                                                *)

\* The types, with the two functions whose domain TypeOK leaves open.
Types == TypeOK /\ account \in [Owners -> Payouts] /\ inbox \in Seq(Payouts)

\* What the owner of device d holds, or once held.
Held(d) == Holdings[owner[d]]

\* A claim has the node for itself, and is whole only once it is over.
ClaimInv ==
  /\ step # "idle" => pc = "down" /\ ~whole
  /\ pc # "down" => device = config.device

\* No file and no message names the payout of anyone but the owner of the
\* device; the cache may do so as long as the last claim has not removed it.
FileInv ==
  /\ config.payout \in Held(config.device)
  /\ whole => cache \in Held(config.device) \union {NoFile}
  /\ whole /\ pc # "down" => payout \in Held(device)
  /\ pc # "down" => \A i \in DOMAIN inbox : inbox[i] \in Held(device)

OwnerInv == ClaimInv /\ FileInv
IInv == Types /\ OwnerInv

\* The steps by who takes them.
ClaimStep   == ClaimWrite \/ ClaimHand \/ ClaimRemoveCache \/ ClaimDies
ServiceStep == \/ Start \/ StartupClaimed \/ StartupUnheard
               \/ LinkPoll \/ TakePayout \/ Mine \/ AutoPay \/ Crash

-----------------------------------------------------------------------------
(* Payouts, addresses and targets.                                          *)

\* Whatever an account may hold is a payout.
LEMMA HeldIsPayout ==
  ASSUME NEW o \in Owners, NEW p \in Holdings[o]
  PROVE  p \in Payouts
  BY DEF Payouts

\* What a device hears is a payout that its owner's account may hold.
LEMMA AnswerIsHeld ==
  ASSUME Types, NEW d \in DOMAIN owner
  PROVE  owner[d] \in Owners /\ Answer(d) \in Held(d) /\ Answer(d) \in Payouts
  <1>1. owner[d] \in Owners
    BY DEF Types, TypeOK
  <1> QED BY <1>1, HeldIsPayout DEF Types, TypeOK, Answer, Held

\* Auto pay is for an account-wide address of the payout in hand.
LEMMA AutoPayAddress ==
  ASSUME NEW p \in Payouts, Target(p).account
  PROVE  p.usdt \in Addresses
  <1>1. p.usdt # None
    BY DEF Target, NoTarget
  <1> QED BY <1>1 DEF Addresses

\* A node that mines to an account-wide address mines to one of the addresses, trimmed.
LEMMA MinedAddress ==
  ASSUME NEW p \in Payouts, Target(p).account
  PROVE  Target(p).addr \in {Trim(x) : x \in Addresses}
  <1>1. p.usdt # None /\ Infer(Trim(p.usdt)) # None
    BY DEF Target, NoTarget
  <1>2. Validate(Infer(Trim(p.usdt)), Trim(p.usdt))
    BY <1>1 DEF Infer, UsdtFor, Validate
  <1>3. Target(p).addr = Trim(p.usdt)
    BY <1>1, <1>2 DEF Target, Login
  <1> QED BY <1>3, AutoPayAddress

\* A new claim leaves the devices and owners of the earlier ones as they are.
LEMMA ClaimsAppend ==
  ASSUME owner \in Seq(Owners), NEW o \in Owners, owner' = Append(owner, o)
  PROVE  /\ owner' \in Seq(Owners) /\ Len(owner') = Len(owner) + 1
         /\ DOMAIN owner' = DOMAIN owner \union {Len(owner) + 1}
         /\ owner'[Len(owner) + 1] = o
         /\ \A d \in DOMAIN owner : owner'[d] = owner[d]
  BY AppendProperties

-----------------------------------------------------------------------------
(* Types.                                                                   *)

LEMMA InitTypes == Init => Types
  <1> SUFFICES ASSUME Init PROVE Types
    OBVIOUS
  <1>1. owner \in Seq(Owners) /\ Len(owner) = 1 /\ DOMAIN owner = {1} /\ owner[1] \in Owners
    <2>1. PICK o \in Owners : owner = <<o>>
      BY DEF Init
    <2> QED BY <2>1
  <1>2. Answer(1) \in Payouts
    BY <1>1, HeldIsPayout DEF Init, Answer
  <1>3. 1 \in 1..MaxClaims
    BY PayoutAssumption
  <1>4. inbox \in Seq(Payouts) /\ Len(inbox) = 0 /\ DOMAIN inbox = {}
    BY DEF Init
  <1> QED BY <1>1, <1>2, <1>3, <1>4 DEF Init, Types, TypeOK

\* The service comes to run with a payout in hand.
LEMMA RunTypes ==
  ASSUME NEW p \in Payouts, HasTarget(p), Run(p), autoAddr \in Addresses \union {None}
  PROVE  pc' = "run" /\ tgt' = Target(p) /\ autoAddr' \in Addresses \union {None}
  BY AutoPayAddress DEF Run

\* The saved cache is a payout or as it was.
LEMMA SaveTypes ==
  ASSUME NEW p \in Payouts, cache \in Payouts \union {NoFile}, Save(p) \/ UNCHANGED cache
  PROVE  cache' \in Payouts \union {NoFile}
  BY DEF Save

LEMMA ClaimTypes ==
  ASSUME Types, ClaimStep
  PROVE  Types'
  <1> USE DEF Types, TypeOK
  <1>1. CASE ClaimWrite
    <2>1. PICK o \in Owners :
            /\ owner' = Append(owner, o)
            /\ config' = [device |-> Len(owner) + 1, payout |-> account[o], readable |-> FALSE]
      BY <1>1 DEF ClaimWrite
    <2>2. /\ owner' \in Seq(Owners) /\ Len(owner') = Len(owner) + 1
          /\ DOMAIN owner' = DOMAIN owner \union {Len(owner) + 1}
      BY <2>1, ClaimsAppend
    <2>3. Len(owner') \in 1..MaxClaims
      BY <1>1, <2>2, PayoutAssumption DEF ClaimWrite
    <2>4. config' \in [device : DOMAIN owner', payout : Payouts, readable : BOOLEAN]
      BY <2>1, <2>2
    <2>5. step' = "written" /\ whole' = FALSE
      BY <1>1 DEF ClaimWrite
    <2>6. UNCHANGED <<account, revoked, settled, cache, service, pool>>
      BY <1>1 DEF ClaimWrite
    <2> QED BY <2>2, <2>3, <2>4, <2>5, <2>6 DEF service, pool
  <1>2. CASE ClaimHand
    BY <1>2 DEF ClaimHand, cloud, service, pool
  <1>3. CASE ClaimRemoveCache
    BY <1>3 DEF ClaimRemoveCache, cloud, service, pool
  <1>4. CASE ClaimDies
    BY <1>4 DEF ClaimDies, cloud, service, pool
  <1> QED BY <1>1, <1>2, <1>3, <1>4 DEF ClaimStep

LEMMA ServiceTypes ==
  ASSUME Types, ServiceStep
  PROVE  Types'
  <1>1. CASE Start
    <2>1. CachedPayout \in Payouts
      BY DEF Types, TypeOK, CachedPayout
    <2> QED BY <1>1, <2>1 DEF Start, Types, TypeOK, cloud, claim, pool
  <1>2. CASE StartupClaimed
    <2>1. Answer(device) \in Payouts
      BY AnswerIsHeld DEF Types, TypeOK
    <2>2. payout' = Answer(device) /\ cache' \in Payouts \union {NoFile}
      BY <1>2, <2>1, SaveTypes DEF StartupClaimed, Types, TypeOK
    <2>3. /\ pc' \in {"startup", "run"} /\ autoAddr' \in Addresses \union {None}
          /\ pc' = "run" => HasTarget(payout') /\ tgt' = Target(payout')
      <3>1. CASE HasTarget(payout') /\ Run(payout')
        BY <2>1, <2>2, <3>1, RunTypes DEF Types, TypeOK
      <3>2. CASE Wait
        BY <1>2, <3>2 DEF StartupClaimed, Wait, Types, TypeOK
      <3> QED BY <1>2, <3>1, <3>2 DEF StartupClaimed
    <2> QED BY <1>2, <2>1, <2>2, <2>3 DEF StartupClaimed, Types, TypeOK, cloud, claim, pool
  <1>3. CASE StartupUnheard
    <2>1. /\ pc' \in {"startup", "run"} /\ autoAddr' \in Addresses \union {None}
          /\ pc' = "run" => HasTarget(payout) /\ tgt' = Target(payout)
      <3>1. CASE HasTarget(payout) /\ Run(payout)
        BY <3>1, RunTypes DEF Types, TypeOK
      <3>2. CASE Wait
        BY <1>3, <3>2 DEF StartupUnheard, Wait, Types, TypeOK
      <3> QED BY <1>3, <3>1, <3>2 DEF StartupUnheard
    <2> QED BY <1>3, <2>1 DEF StartupUnheard, Types, TypeOK, cloud, claim, pool
  <1>4. CASE LinkPoll
    <2>1. Answer(device) \in Payouts
      BY AnswerIsHeld DEF Types, TypeOK
    <2>2. inbox' \in Seq(Payouts) /\ Len(inbox') <= 1
      <3>1. CASE inbox' = <<Answer(device)>>
        BY <2>1, <3>1
      <3>2. CASE inbox' = inbox
        BY <3>2 DEF Types, TypeOK
      <3> QED BY <1>4, <3>1, <3>2 DEF LinkPoll
    <2>3. \A i \in DOMAIN inbox' : inbox'[i] \in Payouts
      BY <2>2
    <2> QED BY <1>4, <2>2, <2>3 DEF LinkPoll, Types, TypeOK, cloud, claim, pool
  <1>5. CASE TakePayout
    <2> DEFINE fresh == Head(inbox)
    <2>1. fresh \in Payouts
      BY <1>5 DEF TakePayout, Types, TypeOK
    <2>2. inbox' \in Seq(Payouts) /\ Len(inbox') = 0 /\ DOMAIN inbox' = {}
      BY <1>5 DEF TakePayout
    <2>3. cache' \in Payouts \union {NoFile}
      BY <1>5, <2>1, SaveTypes DEF TakePayout, Types, TypeOK
    <2>4. payout' \in Payouts /\ HasTarget(payout') /\ tgt' = Target(payout')
      <3>1. pc = "run" /\ HasTarget(payout) /\ tgt = Target(payout)
        BY <1>5 DEF TakePayout, Types, TypeOK
      <3> QED BY <1>5, <2>1, <3>1 DEF TakePayout, Types, TypeOK
    <2> QED BY <1>5, <2>2, <2>3, <2>4 DEF TakePayout, Types, TypeOK, cloud, claim, pool
  <1>6. CASE Mine
    <2>1. tgt = Target(payout) /\ payout \in Payouts
      BY <1>6 DEF Mine, Types, TypeOK
    <2>2. tgt.addr \in {Trim(x) : x \in Addresses}
      BY <1>6, <2>1, MinedAddress DEF Mine
    <2>3. /\ mined' \subseteq {Trim(x) : x \in Addresses}
          /\ autoPay' \subseteq Addresses \intersect mined'
      BY <1>6, <2>2 DEF Mine, Types, TypeOK
    <2> QED BY <1>6, <2>3 DEF Mine, Types, TypeOK, cloud, claim, service
  <1>7. CASE AutoPay
    <2>1. autoPay' \subseteq Addresses \intersect mined
      BY <1>7 DEF AutoPay, Types, TypeOK
    <2> QED BY <1>7, <2>1 DEF AutoPay, Types, TypeOK, cloud, claim, service
  <1>8. CASE Crash
    <2>1. inbox' \in Seq(Payouts) /\ Len(inbox') = 0 /\ DOMAIN inbox' = {}
      BY <1>8 DEF Crash
    <2> QED BY <1>8, <2>1 DEF Crash, Types, TypeOK, cloud, claim, pool
  <1> QED BY <1>1, <1>2, <1>3, <1>4, <1>5, <1>6, <1>7, <1>8 DEF ServiceStep

LEMMA StepTypes == Types /\ [Next]_vars => Types'
  <1> SUFFICES ASSUME Types, [Next]_vars PROVE Types'
    OBVIOUS
  <1>1. CASE ChangePayout
    <2>1. PICK o \in Owners : \E p \in Holdings[o] : account' = [account EXCEPT ![o] = p]
      BY <1>1 DEF ChangePayout
    <2>2. account' \in [Owners -> Payouts] /\ \A q \in Owners : account'[q] \in Holdings[q]
      BY <2>1, HeldIsPayout DEF Types, TypeOK
    <2> QED BY <1>1, <2>2 DEF ChangePayout, Types, TypeOK, claim, service, pool
  <1>2. CASE Revoke
    BY <1>2 DEF Revoke, Types, TypeOK, claim, service, pool
  <1>3. CASE Settle
    BY <1>3 DEF Settle, Types, TypeOK, claim, service, pool
  <1>4. CASE ClaimStep
    BY <1>4, ClaimTypes
  <1>5. CASE ServiceStep
    BY <1>5, ServiceTypes
  <1>6. CASE UNCHANGED vars
    BY <1>6 DEF vars, cloud, claim, service, pool, Types, TypeOK
  <1>7. CASE StartFails
    BY <1>6, <1>7 DEF StartFails
  <1> QED BY <1>1, <1>2, <1>3, <1>4, <1>5, <1>6, <1>7 DEF Next, ClaimStep, ServiceStep

-----------------------------------------------------------------------------
(* Owners.                                                                  *)

LEMMA InitOwner == Init => OwnerInv
  <1> SUFFICES ASSUME Init PROVE OwnerInv
    OBVIOUS
  <1>1. owner[1] \in Owners /\ Answer(1) = account[owner[1]]
    BY DEF Init, Answer
  <1>2. Answer(1) \in Held(1)
    BY <1>1 DEF Init, Held
  <1> QED BY <1>2 DEF Init, OwnerInv, ClaimInv, FileInv

\* A claim works on a stopped service, and removes the cache before it is whole.
LEMMA ClaimOwner ==
  ASSUME Stops, IInv, ClaimStep
  PROVE  OwnerInv'
  <1> USE DEF IInv, OwnerInv, ClaimInv, FileInv, Held
  <1>1. CASE ClaimWrite
    <2>1. PICK o \in Owners :
            /\ owner' = Append(owner, o)
            /\ config' = [device |-> Len(owner) + 1, payout |-> account[o], readable |-> FALSE]
      BY <1>1 DEF ClaimWrite
    <2>2. owner'[config'.device] = o /\ config'.payout \in Holdings[o]
      BY <2>1, ClaimsAppend DEF Types, TypeOK
    <2>3. pc' = "down" /\ whole' = FALSE
      BY <1>1 DEF ClaimWrite, Stops, service
    <2> QED BY <2>2, <2>3
  <1>2. CASE ClaimHand
    BY <1>2 DEF ClaimHand, cloud, service, pool, Types, TypeOK
  <1>3. CASE ClaimRemoveCache
    BY <1>3 DEF ClaimRemoveCache, cloud, service, pool
  <1>4. CASE ClaimDies
    BY <1>4 DEF ClaimDies, cloud, service, pool
  <1> QED BY <1>1, <1>2, <1>3, <1>4 DEF ClaimStep

\* The service asks for the device of its config, and saves and follows nothing
\* but what it hears for that device, or found of its owner's.
LEMMA ServiceOwner ==
  ASSUME IInv, ServiceStep
  PROVE  OwnerInv'
  <1> USE DEF IInv, OwnerInv, ClaimInv, FileInv
  <1>1. Answer(device) \in Held(device)
    BY AnswerIsHeld DEF Types, TypeOK
  <1>2. CASE Start
    BY <1>2 DEF Start, CachedPayout, Held, cloud, claim, pool
  <1>3. CASE StartupClaimed
    <2>1. device' = config.device /\ device' = device /\ payout' \in Held(device) /\ pc' # "down"
      BY <1>1, <1>3 DEF StartupClaimed, Run, Wait
    <2>2. cache' \in {cache, payout'}
      BY <1>3 DEF StartupClaimed, Save
    <2> QED BY <1>3, <2>1, <2>2 DEF StartupClaimed, Held, cloud, claim, pool
  <1>4. CASE StartupUnheard
    <2>1. pc' # "down" /\ pc # "down"
      BY <1>4 DEF StartupUnheard, Run, Wait
    <2> QED BY <1>4, <2>1 DEF StartupUnheard, Held, cloud, claim, pool
  <1>5. CASE LinkPoll
    <2>1. \A i \in DOMAIN inbox' : inbox'[i] \in Held(device)
      <3>1. CASE inbox' = <<Answer(device)>>
        BY <1>1, <3>1
      <3>2. CASE inbox' = inbox
        BY <1>5, <3>2 DEF LinkPoll
      <3> QED BY <1>5, <3>1, <3>2 DEF LinkPoll
    <2> QED BY <1>5, <2>1 DEF LinkPoll, Held, cloud, claim, pool
  <1>6. CASE TakePayout
    <2> DEFINE fresh == Head(inbox)
    <2>1. fresh \in Held(device) /\ DOMAIN inbox' = {}
      <3>1. inbox \in Seq(Payouts) /\ inbox # <<>> /\ inbox' = <<>>
        BY <1>6 DEF TakePayout, Types
      <3>2. fresh = inbox[1] /\ 1 \in DOMAIN inbox
        BY <3>1
      <3> QED BY <1>6, <3>1, <3>2 DEF TakePayout
    <2>2. payout' \in {payout, fresh} /\ cache' \in {cache, fresh}
      BY <1>6 DEF TakePayout, Save
    <2> QED BY <1>6, <2>1, <2>2 DEF TakePayout, Held, cloud, claim, pool
  <1>7. CASE AutoPay
    BY <1>7 DEF AutoPay, Held, cloud, claim, service, pool
  <1>8. CASE Crash
    BY <1>8 DEF Crash, Held, cloud, claim, pool
  <1>9. CASE Mine
    BY <1>9 DEF Mine, Held, cloud, claim, service
  <1> QED BY <1>2, <1>3, <1>4, <1>5, <1>6, <1>7, <1>8, <1>9 DEF ServiceStep

LEMMA StepOwner == Stops /\ IInv /\ [Next]_vars => OwnerInv'
  <1> SUFFICES ASSUME Stops, IInv, [Next]_vars PROVE OwnerInv'
    OBVIOUS
  <1> USE DEF IInv, OwnerInv, ClaimInv, FileInv, Held
  <1>1. CASE ChangePayout \/ Revoke \/ Settle
    BY <1>1 DEF ChangePayout, Revoke, Settle, claim, service
  <1>2. CASE ClaimStep
    BY <1>2, ClaimOwner
  <1>3. CASE ServiceStep
    BY <1>3, ServiceOwner
  <1>4. CASE UNCHANGED vars
    BY <1>4 DEF vars, cloud, claim, service, pool
  <1>5. CASE StartFails
    BY <1>4, <1>5 DEF StartFails
  <1> QED BY <1>1, <1>2, <1>3, <1>4, <1>5 DEF Next, ClaimStep, ServiceStep

-----------------------------------------------------------------------------
(* Theorems.                                                                *)

\* Every variable of the payout handling has its type, whether or not the owner
\* stops the service around a re-claim; and a node that runs has a target, that
\* of the payout in its hand (startup_target leaves its loop with nothing less).
THEOREM TypeCorrect == Spec => []TypeOK
  <1>1. Types => TypeOK
    BY DEF Types
  <1> QED BY <1>1, InitTypes, StepTypes, PTL DEF Spec

\* What the claim and the service write stays the owner's: the config, the cache
\* once a claim is whole, the payout in hand and the one on its way.
THEOREM Invariance == ASSUME Stops PROVE Spec => []IInv
  <1>1. Init => IInv
    BY InitTypes, InitOwner DEF IInv
  <1>2. IInv /\ [Next]_vars => IInv'
    BY Stops, StepTypes, StepOwner DEF IInv
  <1> QED BY <1>1, <1>2, PTL DEF Spec

\* When the owner stops the service around a re-claim, the node never mines under
\* the new claim to an address that was never its owner's: "a payout cached from
\* the previous owner must not outlive" the claim (cmd_claim), for any accounts
\* and any number of claims, killed at any step or not.
THEOREM PaysItsOwner == ASSUME Stops PROVE Spec => []PayoutInv
  <1>1. IInv => PayoutInv
    <2> SUFFICES ASSUME IInv PROVE PayoutInv
      OBVIOUS
    <2>1. ASSUME pc = "run", whole PROVE payout \in Held(device) /\ tgt = Target(payout)
      BY <2>1 DEF IInv, OwnerInv, FileInv, Types, TypeOK
    <2>2. PaysWhoClaimed
      BY <2>1 DEF PaysWhoClaimed, Held
    <2> QED BY <2>2 DEF PayoutInv, IInv, Types
  <1> QED BY <1>1, Stops, Invariance, PTL

=============================================================================
