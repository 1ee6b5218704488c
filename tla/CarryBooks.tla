----------------------------- MODULE CarryBooks -----------------------------
(***************************************************************************)
(* One identity's account on the TIDES ledger: the carry the pool holds    *)
(* for it (earnings no coinbase has placed yet) and its double-pay debt    *)
(* (carry a coinbase paid that the books did not hold).  The operators are *)
(* the primitive moves of tides::Window; every larger operation of the     *)
(* ledger is a composition of them.                                        *)
(*                                                                         *)
(* Amounts are natural numbers.  The code saturates additions at 2^64,     *)
(* far above the 2.1 * 10^15 sats that can ever exist.                     *)
(***************************************************************************)
EXTENDS Integers

Account == [carry : Nat, debt : Nat]

Lesser(x, y) == IF x < y THEN x ELSE y

\* Move carry by delta, stopping at zero.
adjust_carry(a, delta) ==
  [carry |-> IF a.carry + delta > 0 THEN a.carry + delta ELSE 0, debt |-> a.debt]

accrue_debt(a, sats) == [carry |-> a.carry, debt |-> a.debt + sats]

\* What reduce_debt collects, and the account it leaves.
debt_taken(a, sats) == Lesser(a.debt, sats)
reduce_debt(a, sats) == [carry |-> a.carry, debt |-> a.debt - debt_taken(a, sats)]

\* A debt comes back (the block that paid it down is gone): from carry first.
restore_debt(a, sats) ==
  LET from_carry == Lesser(a.carry, sats)
  IN  accrue_debt(adjust_carry(a, -from_carry), sats - from_carry)

\* Mutation: debt already collected from later earnings is not given back.
forgive_debt_only(a, sats) == reduce_debt(a, sats)

\* The payment a debt was for is undone: what is left of the debt comes off,
\* what later earnings already paid of it is carry again.
forgive_debt(a, sats) ==
  adjust_carry(reduce_debt(a, sats), sats - debt_taken(a, sats))

\* Sats come back on the books: the debt first, the rest is carry.
restore_carry(a, sats) ==
  adjust_carry(reduce_debt(a, sats), sats - debt_taken(a, sats))

\* A signed correction, as settle_carry applies one entry of it.
settle_carry(a, delta) ==
  IF delta > 0 THEN restore_carry(a, delta) ELSE adjust_carry(a, delta)

-----------------------------------------------------------------------------
(***************************************************************************)
(* Booking a block, for one identity.  `held' is what the holds have of    *)
(* this identity; `drawn' is what the booking takes from them.             *)
(***************************************************************************)
\* What the carry covers of a debit, what a hold must cover, what neither can.
from_carry(a, debit) == Lesser(a.carry, debit)
drawn(a, held, debit) == Lesser(held, debit - from_carry(a, debit))
moved(a, held, debit) == from_carry(a, debit) + drawn(a, held, debit)

\* Mutation: the shortfall forgets what the holds covered.
overpaid_ignores_holds(a, held, debit) == debit - from_carry(a, debit)

overpaid(a, held, debit) == debit - moved(a, held, debit)

book_debit(a, held, debit) ==
  accrue_debt(adjust_carry(a, -debit), overpaid(a, held, debit))

\* A credit pays the debt down and only the rest is carry.
book_credit(a, earn) ==
  adjust_carry(reduce_debt(a, earn), earn - debt_taken(a, earn))

\* Taking a block's credit back: off the carry as far as it goes, then the
\* debt it had paid down stands again.
unbook_credit(a, credited, debt_paid) ==
  restore_debt(adjust_carry(a, -credited), debt_paid)

\* What cannot be taken back because it has been paid out since.
unbook_short(a, credited) == credited - Lesser(a.carry, credited)

\* Giving a block's debit back, then undoing the debt it left.
unbook_debit(a, debited, shortfall) ==
  forgive_debt(restore_carry(a, debited), shortfall)

\* What the ledger says the pool owes this identity, on balance.
Net(a) == a.carry - a.debt
=============================================================================
