----------------------------- MODULE MCFeeAudit -----------------------------
(* Swaps may fail and answers may be lost, but a reported success is one.    *)
EXTENDS FeeAudit

HonestPuts == {"ok", "late", "refused"}
============================================================================
