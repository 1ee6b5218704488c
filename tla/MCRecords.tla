----------------------------- MODULE MCRecords ------------------------------
(***************************************************************************)
(* The records of found blocks, the snapshot replies are priced off while  *)
(* blocks are booked (CoinbaserBase), and the intake of shares.  They      *)
(* share no state: in each behaviour one of the three moves.               *)
(***************************************************************************)
EXTENDS BlockRecords, ShareIntake, CoinbaserBase, TLC

VARIABLE moving

B(h, b) == [height |-> h, branch |-> b]
S(p, bits, earns, block) ==
  [height |-> p.height + 1, prev |-> p, bits |-> bits, earns |-> earns, block |-> block]

\* Heights below 3 have one target, heights from 3 on another.
SomeBits == <<1, 1, 2, 2, 2>>
Strangers == {B(2, "b")}
SomeShares == {S(B(0, "a"), 1, "window", TRUE), S(B(2, "b"), 9, "solo", TRUE)}

MCInit == Init /\ RecordsInit /\ BaseInit /\ moving \in {"records", "base", "shares"}

MCNext ==
  /\ \/ moving = "shares" /\ Next /\ UNCHANGED <<recordVars, baseVars>>
     \/ moving = "records" /\ RecordsNext /\ UNCHANGED <<vars, baseVars>>
     \/ moving = "base" /\ BaseNext /\ UNCHANGED <<vars, recordVars>>
  /\ UNCHANGED moving

MCSpec == MCInit /\ [][MCNext]_<<vars, recordVars, baseVars, moving>>

\* Bound: one submit task at a time is at work.
OneSubmit == Cardinality({b \in Candidate : sub[b] \notin {"none", "done"}}) <= 1

Symmetric == Permutations(Session) \cup Permutations(Conn) \cup Permutations(Candidate)
=============================================================================
