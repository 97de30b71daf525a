---------------------------- MODULE MCSelfUpdate ----------------------------
(* Two releases after the installed one; the first of them never checks in.  *)
EXTENDS SelfUpdate

FirstIsBroken == {1}
============================================================================
