------------------------------- MODULE Doctor -------------------------------
(***************************************************************************)
(* What `pasivd doctor` (pasivd/src/doctor.rs) says of the config, the     *)
(* payout and the cloud, beside the service it speaks about.  Run as root, *)
(* it reads every file; it changes nothing.                                *)
(*                                                                         *)
(* Left out: a config that is missing or does not parse, its permissions,  *)
(* and the checks of the machine (pool, huge pages, MSR, ledger); the      *)
(* engine on disk is in module Engine.                                     *)
(***************************************************************************)
EXTENDS Payout

\* config.owner: can the service user read the file?
OwnerVerdict == IF config.readable THEN "PASS" ELSE "FAIL"

DoctorReadsConfig == config.payout  \* slip: the file in /etc, not the cache
DoctorReads == CachedPayout

\* payout: the address every share pays to.
PayoutVerdict ==
  LET p == DoctorReads
  IN  CASE p.usdt # None -> IF Infer(p.usdt) # None THEN "PASS" ELSE "FAIL"
        [] p.usdt = None /\ p.xmr # None ->
             IF Validate("xmr", p.xmr) THEN "PASS" ELSE "FAIL"
        [] OTHER -> "WARN"
PayoutNamed == IF DoctorReads.usdt # None THEN DoctorReads.usdt ELSE DoctorReads.xmr

\* cloud: any answer to a poll passes for "claimed and linked", also the one
\* to a device that was removed.  Here: once things are quiet.
CloudVerdict == IF settled = "down" THEN "WARN" ELSE "PASS"

-----------------------------------------------------------------------------
\* What the doctor passes is what happens: a node whose payout and owner
\* pass while it is down and the cloud does not answer comes to mine to the
\* very address ("the one the node would start on with the cloud down").
Foretold == /\ pc = "down" /\ step = "idle" /\ CloudVerdict = "WARN"
            /\ OwnerVerdict = "PASS" /\ PayoutVerdict = "PASS"
DoctorForetells == Foretold ~> (pc = "run" /\ tgt.addr = PayoutNamed)
=============================================================================
