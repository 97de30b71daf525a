----------------------------- MODULE MCNodeLoop -----------------------------
(* Two payouts, one queued event at a time; a reported success is a success. *)
EXTENDS NodeLoop

CONSTANTS t1, t2
TwoTargets == {t1, t2}
HonestPuts == {"ok", "late", "refused"}
============================================================================
