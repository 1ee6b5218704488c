----------------------------- MODULE SplitRounds -----------------------------
(***************************************************************************)
(* Block after block split by tides::split, with the carry each leaves     *)
(* booked before the next: what the pool holds and owes over time, and who *)
(* is kept waiting.  Blocks are confirmed one at a time here; what happens *)
(* when they are not is TidesLedger's business.                            *)
(***************************************************************************)
EXTENDS Split

CONSTANTS Works,      \* what a miner's work in the window may be: [sw, gw, dw]
          Value,      \* what a block is worth
          MaxCarry,   \* bound: carry in all past which no block is found
          MaxOwed,    \* bound: rebate nobody could be credited, likewise
          MaxChanges  \* bound: changes of the window

ASSUME RoundsAssumption == Value \in Nat /\ MaxCarry \in Nat /\ MaxOwed \in Nat /\ MaxChanges \in Nat

VARIABLES ms,       \* miner -> its record of the window
          owed,     \* rebate_owed
          last,     \* the split of the last block
          parity,   \* of the number of blocks found
          changes, frozen   \* the window's changes, and whether they are over

vars == <<ms, owed, last, parity, changes, frozen>>

Idle == [sw |-> 0, gw |-> 0, dw |-> 0]
NoSplit == [value |-> 0, earned |-> [i \in Miner |-> 0], sats |-> [i \in Miner |-> 0],
            carry |-> [i \in Miner |-> 0], reason |-> [i \in Miner |-> "None"], pool |-> 0,
            rebate_credits |-> [i \in Miner |-> 0], rebate_owed_credited |-> 0,
            rebate_deferred |-> 0]

Init ==
  /\ \E w \in [Miner -> Works], sc \in [Miner -> BOOLEAN] :
       ms = [i \in Miner |-> [sw |-> w[i].sw, gw |-> w[i].gw, dw |-> w[i].dw,
                              carry |-> 0, script |-> sc[i], stale |-> FALSE]]
  /\ owed = 0 /\ last = NoSplit /\ parity = 0
  /\ changes = 0 /\ frozen = FALSE

\* A block is found on the split of this window, and is confirmed.
FindBlock ==
  LET s == compute(ms, Value, owed)
  IN  /\ Sum([i \in Miner |-> ms[i].carry]) <= MaxCarry /\ owed <= MaxOwed
      /\ ms' = [i \in Miner |-> [ms[i] EXCEPT !.carry = @ + carry_delta(s)[i]]]
      /\ owed' = owed + rebate_delta(s)
      /\ last' = s /\ parity' = 1 - parity
      /\ UNCHANGED <<changes, frozen>>

\* Shares come in and age out.
WindowMoves(i) ==
  /\ ~frozen /\ changes < MaxChanges
  /\ \E w \in Works :
       /\ w # [sw |-> ms[i].sw, gw |-> ms[i].gw, dw |-> ms[i].dw]
       /\ ms' = [ms EXCEPT ![i] = [sw |-> w.sw, gw |-> w.gw, dw |-> w.dw, carry |-> @.carry,
                                   script |-> @.script, stale |-> FALSE]]
  /\ changes' = changes + 1
  /\ UNCHANGED <<owed, last, parity, frozen>>

\* stale_after seconds pass without a share of this miner's.
GoesStale(i) ==
  /\ ~frozen /\ WorkIn(ms[i]) = 0 /\ ~ms[i].stale
  /\ ms' = [ms EXCEPT ![i].stale = TRUE]
  /\ UNCHANGED <<owed, last, parity, changes, frozen>>

\* From here on the window stays as it is.
Freeze ==
  /\ ~frozen /\ frozen' = TRUE
  /\ UNCHANGED <<ms, owed, last, parity, changes>>

Next ==
  \/ FindBlock
  \/ \E i \in Miner : WindowMoves(i)
  \/ \E i \in Miner : GoesStale(i)
  \/ Freeze

\* The pool goes on finding blocks.
Spec == Init /\ [][Next]_vars /\ []<><<parity' # parity>>_vars
-----------------------------------------------------------------------------
Carried == Sum([i \in Miner |-> ms[i].carry])

\* Balances are never negative: no block takes more carry than there is.
TypeOK ==
  /\ \A i \in Miner : ms[i].carry \in Nat
  /\ \A i \in Miner : ms[i].stale => WorkIn(ms[i]) = 0
  /\ owed \in Nat
  /\ parity \in {0, 1} /\ changes \in 0 .. MaxChanges

\* Over a block nothing is made or lost, however earlier blocks were split: the
\* outputs sum to the block's value; what the block adds to what the pool owes
\* (carry, and rebate nobody could be credited) it also pays to the pool's own
\* output; and a payable miner's output plus the change of its carry is what it
\* earned and was credited (`TIDES does not forfeit what a block could not place').
EverySatAccounted ==
  [][parity' # parity =>
       /\ TypeOK'
       /\ Sum(last'.sats) + last'.pool = last'.value
       /\ Sum(carry_delta(last')) + rebate_delta(last') <= last'.pool
       /\ \A i \in Miner : ms[i].script =>
            last'.sats[i] + ms'[i].carry =
              ms[i].carry + last'.earned[i] + last'.rebate_credits[i]]_vars

\* `A backlog larger than the room is paid down over the following blocks': what
\* is carried stays below a bound that no number of blocks passes.
BacklogBounded == Carried <= MaxCarry

\* `Whoever is kept waiting climbs each block until they are in': once the window
\* stands still, everyone earning in it is paid again and again.
NobodyWaitsForever ==
  \A i \in Miner :
    (frozen /\ ms[i].script /\ Earned(ms, Value, i) > 0) ~> (last.reason[i] = "Paid")

\* `It cannot take a slot from anyone mining': where someone mining is over the
\* floor and gets no output for want of one, no stale balance got one.
StaleTakesNoSlot ==
  [][parity' # parity =>
       \A i, j \in Miner :
         ~ /\ WorkIn(ms[i]) > 0 /\ last'.reason[i] = "OverBudget"
           /\ ms[j].stale /\ last'.reason[j] = "Paid"]_vars
=============================================================================
