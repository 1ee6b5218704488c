---------------------------- MODULE MCSplitRounds ----------------------------
(***************************************************************************)
(* SplitRounds for TLC: three miners, and room for two outputs (one, if    *)
(* it is the first miner's), so that someone is left out of every block.   *)
(***************************************************************************)
EXTENDS SplitRounds, TLC

SomeLonger(i) == IF i = 1 THEN 2 ELSE 1

AllWorks == {[sw |-> 0, gw |-> 0, dw |-> 0], [sw |-> 0, gw |-> 0, dw |-> 5],
             [sw |-> 0, gw |-> 0, dw |-> 1], [sw |-> 1, gw |-> 1, dw |-> 0]}
=============================================================================
