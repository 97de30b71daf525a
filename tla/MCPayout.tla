------------------------------ MODULE MCPayout ------------------------------
(* Owner a may hold an account-wide address, nothing, or a Monero address  *)
(* beside a malformed account-wide one; owner b has one, written with a   *)
(* space.                                                                  *)
EXTENDS Doctor

CONSTANTS a, b
AAndB == {a, b}
usdtA == Address("a1", "tron")
xmrA  == Address("a2", "xmr")
btcB  == [Address("b1", "btc") EXCEPT !.spaced = TRUE]
MayHold == [o \in Owners |->
  IF o = b THEN {[usdt |-> btcB, xmr |-> None]}
  ELSE {[usdt |-> usdtA, xmr |-> None], [usdt |-> None, xmr |-> None],
        [usdt |-> Address("a3", "bad"), xmr |-> xmrA]}]
=============================================================================
