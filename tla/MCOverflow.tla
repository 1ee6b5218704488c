----------------------------- MODULE MCOverflow -----------------------------
(* A small instance of Overflow for TLC: a miner that is ours until the     *)
(* tables forget it and, beside it, another of the same identity or one     *)
(* with a name no pool can pay.                                             *)
EXTENDS Overflow

CONSTANTS c1, c2, a

MCNames == {(c1 :> a) @@ (c2 :> a), (c1 :> a) @@ (c2 :> Unpayable)}
=============================================================================
