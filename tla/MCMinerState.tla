---------------------------- MODULE MCMinerState ---------------------------
(* One lane for the table against a process: the lanes share no state.     *)
EXTENDS MinerState

CONSTANT cpu
OneLane == {cpu}

(* What the tray makes of two lanes: the one that works, whatever the      *)
(* order they are named in; but of lanes that are all idle it keeps no     *)
(* reason, so a fail-safe of every lane reads like a fresh start.          *)
Work(l) == [at |-> l.at]
ASSUME RollupOfTwo ==
  \A s, t \in States :
    /\ Rank(Rollup(<<s, t>>)) = IF Rank(s) > Rank(t) THEN Rank(s) ELSE Rank(t)
    /\ Work(Rollup(<<s, t>>)) = Work(Rollup(<<t, s>>))
    /\ s.at = "idle" /\ t.at = "idle" => Label(Rollup(<<s, t>>)) = Label(Idle("fresh"))
=============================================================================
