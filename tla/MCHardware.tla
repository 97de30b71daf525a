----------------------------- MODULE MCHardware -----------------------------
(* Two callers on a machine with both vendors' tools, one real core of     *)
(* two, and a last-level cache of one scratchpad beside a smaller cache.   *)
EXTENDS Hardware, TLC

CONSTANTS ui, setup, rtx, radeon, core
TwoCallers == {ui, setup}
Names      == (rtx :> "RTX") @@ (radeon :> "RX 6")
Sizes      == (rtx :> 8192) @@ (radeon :> 12288)
BothCards  == [h \in Halves |-> IF h = "nvidia" THEN {rtx} ELSE {radeon}]
OneCore    == {core}
TwoCaches  == {[level |-> 2, fits |-> 1], [level |-> 3, fits |-> 1]}
=============================================================================
