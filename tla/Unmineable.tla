----------------------------- MODULE Unmineable -----------------------------
(***************************************************************************)
(* Payout addresses and stratum logins (pasiv-core: address.rs and         *)
(* unmineable.rs).  An address is abstracted to what its text identifies,  *)
(* the one chain whose checksum and shape it passes ("bad": none does),    *)
(* and whether it is written with spaces around it.  The shapes of the     *)
(* chains are disjoint, so an address has one kind.                        *)
(***************************************************************************)
Kinds == {"bsc", "tron", "btc", "prl", "xmr", "bad"}

CONSTANT None  \* no address, no asset

Address(id, kind) == [id |-> id, kind |-> kind, spaced |-> FALSE]
Trim(a) == IF a = None THEN None ELSE [a EXCEPT !.spaced = FALSE]

\* is_valid_*_address: the validators take the text as it is.
Validate(asset, a) == ~a.spaced /\ a.kind = asset

UsdtFor(a) == IF ~a.spaced /\ a.kind \in {"bsc", "tron"} THEN a.kind ELSE None

\* infer: an account-wide asset; a native address is never taken for one.
Infer(a) == IF UsdtFor(a) # None THEN UsdtFor(a)
            ELSE IF Validate("btc", a) THEN "btc" ELSE None

NativeFor(coin) == CASE coin = "prl" -> "prl"
                     [] coin \in {"xmr", "zeph", "sal"} -> "xmr"
                     [] OTHER -> None

\* login: who is paid, in which asset; None for an address the asset rejects.
Login(asset, a) ==
  IF Validate(asset, Trim(a)) THEN [asset |-> asset, addr |-> Trim(a)] ELSE None
=============================================================================
