------------------------------ MODULE MCEngine ------------------------------
(* Two builds that pin different engines; a miner with a backup pool. *)
EXTENDS Engine

CONSTANTS old, new, p1, p2
TwoPins   == {old, new}
TwoPools  == {p1, p2}
FirstPool == p1
=============================================================================
