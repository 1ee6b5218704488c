-------------------------------- MODULE Split --------------------------------
(***************************************************************************)
(* tides::split: turning a window into coinbase outputs.  A miner is       *)
(*   [sw, gw, dw]  its work at the stratum fee, inside its grace, DATUM    *)
(*   carry         earlier earnings no coinbase has placed                 *)
(*   script        whether its identity is a payout address                *)
(*   stale         no work in the window for stale_after seconds           *)
(* and `ms' below is a function from miners to such records.  Miners are   *)
(* numbers, in the order of their names.                                   *)
(***************************************************************************)
EXTENDS Integers, Sequences, SequencesExt, Functions

CONSTANTS Miner,
          FeeBps, StratumBps, RebateBps, GraceBps, GraceRebateBps,
          MinPayout, StaleMinPayout,
          MaxOutputs, StaleMaxOutputs,
          Size(_), ByteBudget    \* bytes of a miner's output, and room for them

ASSUME SplitAssumption ==
  /\ Miner \subseteq Nat
  /\ {FeeBps, StratumBps, RebateBps, GraceBps, GraceRebateBps} \subseteq 0 .. 10000
  /\ {MinPayout, StaleMinPayout, MaxOutputs, StaleMaxOutputs, ByteBudget} \subseteq Nat

Smaller(x, y) == IF x < y THEN x ELSE y
Sum(f) == SumFunction(f)

WorkIn(m) == m.sw + m.gw + m.dw
TotalWork(ms) == Sum([i \in Miner |-> WorkIn(ms[i])])

\* A fee of 0 for stratum means the DATUM fee.
stratum_bps == IF StratumBps = 0 THEN FeeBps ELSE StratumBps

rebate_bps == Smaller(RebateBps, stratum_bps)
grace_rebate_bps == Smaller(GraceRebateBps, GraceBps)

\* One miner's share of the block.
Earned(ms, value, i) ==
  LET m == ms[i]
      keep == m.sw * (10000 - stratum_bps) + m.gw * (10000 - GraceBps)
                + m.dw * (10000 - FeeBps)
  IN  IF WorkIn(m) = 0 THEN 0 ELSE ((value * keep) \div TotalWork(ms)) \div 10000

stratum_rebate(ms, value, sw, bps) ==
  IF TotalWork(ms) = 0 \/ bps = 0 THEN 0
  ELSE ((value * sw * bps) \div TotalWork(ms)) \div 10000

\* The part of this block's stratum fees that goes to DATUM work.
from_fee(ms, value) ==
  stratum_rebate(ms, value, Sum([i \in Miner |-> ms[i].sw]), rebate_bps)
    + stratum_rebate(ms, value, Sum([i \in Miner |-> ms[i].gw]), grace_rebate_bps)

\* A pot shared over payable DATUM work, pro rata, floored.
rebate_credits(ms, pot) ==
  LET dw == [i \in Miner |-> IF ms[i].script THEN ms[i].dw ELSE 0]
      all == Sum(dw)
  IN  [i \in Miner |-> IF all = 0 THEN 0 ELSE (pot * dw[i]) \div all]

\* No rebate is handed out where none is configured.
rebates_on(ms) ==
  rebate_bps > 0 \/ (grace_rebate_bps > 0 /\ \E i \in Miner : ms[i].gw > 0)

floor_for(m) == IF m.stale THEN Smaller(StaleMinPayout, MinPayout) ELSE MinPayout

-----------------------------------------------------------------------------
\* `e' from here on is what each miner earned in this block.
\* Mutation: the window's order, by work alone.
Before_by_work(ms, e, i, j) ==
  IF WorkIn(ms[i]) # WorkIn(ms[j]) THEN WorkIn(ms[i]) > WorkIn(ms[j]) ELSE i < j

\* The order miners are placed in: by what each is owed in all, largest first;
\* ties keep the order of Window::miners.
Before(ms, e, i, j) ==
  LET a == <<e[i] + ms[i].carry, WorkIn(ms[i])>>
      b == <<e[j] + ms[j].carry, WorkIn(ms[j])>>
  IN  IF a[1] # b[1] THEN a[1] > b[1]
      ELSE IF a[2] # b[2] THEN a[2] > b[2]
      ELSE IF ms[i].carry # ms[j].carry THEN ms[i].carry > ms[j].carry
      ELSE i < j

queue(ms, e) ==
  SetToSortSeq({i \in Miner : e[i] + ms[i].carry > 0}, LAMBDA i, j : Before(ms, e, i, j))

\* First pass: who gets an output at all.  Who does not leaves its share with
\* the pool, where carry is paid from; without a script it was never in it.
place(ms, e, acc, i) ==
  LET m == ms[i]
      left(why) == [acc EXCEPT !.reason[i] = why, !.room = @ + e[i]]
  IN  IF ~m.script THEN [acc EXCEPT !.reason[i] = "NoScript"]
      ELSE IF e[i] + m.carry < floor_for(m) THEN left("BelowMinimum")
      ELSE IF \/ Len(acc.placed) >= MaxOutputs
              \/ acc.bytes + Size(i) > ByteBudget
              \/ m.stale /\ acc.stale >= StaleMaxOutputs
           THEN left("OverBudget")
      ELSE [acc EXCEPT !.placed = Append(@, i), !.bytes = @ + Size(i),
                       !.stale = IF m.stale THEN @ + 1 ELSE @]

carry_fits(ms, acc, i) == Smaller(ms[i].carry, acc.room)

\* Second pass: how much carry each output takes along.
pay(ms, e, acc, i) ==
  LET m == ms[i]
      carry == carry_fits(ms, acc, i)
      sats == e[i] + carry
  IN  IF sats < floor_for(m) \/ (m.stale /\ carry < m.carry)
      THEN [acc EXCEPT !.reason[i] = "OverBudget", !.room = @ + e[i]]
      ELSE [acc EXCEPT !.reason[i] = "Paid", !.room = @ - carry,
                       !.sats[i] = sats, !.carry[i] = carry]

compute(ms, value, rebate_owed) ==
  LET e == [i \in Miner |-> Earned(ms, value, i)]
      payable == Sum([i \in Miner |-> IF ms[i].script THEN e[i] ELSE 0])
      start == [room |-> IF payable < value THEN value - payable ELSE 0,
                placed |-> <<>>, bytes |-> 0, stale |-> 0,
                reason |-> [i \in Miner |-> "None"],
                sats |-> [i \in Miner |-> 0], carry |-> [i \in Miner |-> 0]]
      first == FoldLeft(LAMBDA a, i : place(ms, e, a, i), start, queue(ms, e))
      done == FoldLeft(LAMBDA a, i : pay(ms, e, a, i), first, first.placed)
      fees == from_fee(ms, value)
      credits == IF rebates_on(ms) THEN rebate_credits(ms, fees + rebate_owed)
                 ELSE [i \in Miner |-> 0]
      nobody == \A i \in Miner : credits[i] = 0
      paid == Sum(done.sats)
  IN  [value |-> value, earned |-> e,
       sats |-> done.sats, carry |-> done.carry, reason |-> done.reason,
       pool |-> IF paid < value THEN value - paid ELSE 0,
       rebate_credits |-> credits,
       rebate_owed_credited |-> IF nobody THEN 0 ELSE rebate_owed,
       rebate_deferred |-> IF nobody THEN fees ELSE 0]

\* Mutations: carry that was paid stays on the books; only those under the floor
\* keep what they earned.
carry_delta_keeps_paid(s) ==
  [i \in Miner |->
     (IF s.reason[i] \in {"BelowMinimum", "OverBudget"} THEN s.earned[i] ELSE 0)
       + s.rebate_credits[i]]
carry_delta_below_only(s) ==
  [i \in Miner |->
     (IF s.reason[i] = "BelowMinimum" THEN s.earned[i] ELSE 0)
       + s.rebate_credits[i] - s.carry[i]]

\* What a block paying this split moves of each carry, and of the owed rebate.
carry_delta(s) ==
  [i \in Miner |->
     (IF s.reason[i] \in {"BelowMinimum", "OverBudget"} THEN s.earned[i] ELSE 0)
       + s.rebate_credits[i] - s.carry[i]]

rebate_delta(s) == s.rebate_deferred - s.rebate_owed_credited
=============================================================================
