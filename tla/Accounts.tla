------------------------------ MODULE Accounts ------------------------------
(***************************************************************************)
(* What the TIDES ledger promises about money, one account per identity.   *)
(*                                                                         *)
(* A found block is booked in two steps: its debits (carry its coinbase    *)
(* paid out) when the candidate is seen, its credits (earnings it could    *)
(* not place) when the node has it in the main chain; an orphan is         *)
(* unbooked, and may come back and be booked again.  The holds for hand    *)
(* payments are abstracted to a total per identity; TidesLedger keeps the  *)
(* batches, the coinbasers and the node's verdicts, and implements this.   *)
(*                                                                         *)
(* `claim' is a history variable: what each identity is owed when every    *)
(* block on the books counts with exactly the figures of its record.       *)
(***************************************************************************)
EXTENDS BlockBooks

CONSTANTS Block,   \* block candidates
          Amount   \* sats a block may debit or credit one identity

ASSUME AmountAssumption == Amount \subseteq Nat

VARIABLES acct,    \* identity -> account
          held,    \* identity -> sats set aside in holds
          books,   \* block -> what it has on the ledger
          claim    \* identity -> what the records say it is owed

vars == <<acct, held, books, claim>>

Init ==
  /\ acct \in [Ident -> [carry : Amount, debt : {0}]]
  /\ held = None
  /\ books = [b \in Block |-> NoBooks]
  /\ claim = [i \in Ident |-> acct[i].carry]

-----------------------------------------------------------------------------
\* A candidate is seen: its record is made and its debits are booked.
Candidate(b, d, c) ==
  LET k == [NoBooks EXCEPT !.seen = TRUE, !.debit = d, !.credit = c]
  IN  /\ ~books[b].seen
      /\ books' = [books EXCEPT ![b] = book_debits(k, acct, held)]
      /\ acct' = after_debits(k, acct, held)
      /\ held' = held_after_debits(k, acct, held)
      /\ claim' = [i \in Ident |-> claim[i] - d[i]]

\* The node has the block in its main chain: anything not on goes on.
Confirm(b) ==
  LET k  == books[b]
      a1 == after_debits(k, acct, held)
      k1 == book_debits(k, acct, held)
  IN  /\ k.seen
      /\ books' = [books EXCEPT ![b] = book_credits(k1, a1)]
      /\ acct' = after_credits(k1, a1)
      /\ held' = held_after_debits(k, acct, held)
      /\ claim' = [i \in Ident |->
                     claim[i] + Booked(book_credits(k1, a1), i) - Booked(k, i)]

\* The node does not: what it has on the ledger comes off.  A credit paid out
\* since cannot be taken back and is the pool's loss.
Orphan(b) ==
  LET k == books[b]
  IN  /\ k.seen
      /\ books' = [books EXCEPT ![b] = unbook(k)]
      /\ acct' = undebited(k, uncredited(k, acct))
      /\ claim' = [i \in Ident |-> claim[i] - Booked(k, i) + short(k, acct)[i]]
      /\ UNCHANGED held

\* Whole stale balances are set aside for a payment by hand.
Hold(S) ==
  /\ acct' = [i \in Ident |-> IF i \in S THEN [acct[i] EXCEPT !.carry = 0] ELSE acct[i]]
  /\ held' = [i \in Ident |-> IF i \in S THEN held[i] + acct[i].carry ELSE held[i]]
  /\ UNCHANGED <<books, claim>>

\* A hold is given up: its entries r are carry again, less any debt.
Release(r) ==
  /\ \A i \in Ident : r[i] <= held[i]
  /\ acct' = [i \in Ident |-> restore_carry(acct[i], r[i])]
  /\ held' = [i \in Ident |-> held[i] - r[i]]
  /\ UNCHANGED <<books, claim>>

\* A hold was paid by hand: its entries leave the books.
Finish(r) ==
  /\ \A i \in Ident : r[i] <= held[i]
  /\ held' = [i \in Ident |-> held[i] - r[i]]
  /\ claim' = [i \in Ident |-> claim[i] - r[i]]
  /\ UNCHANGED <<acct, books>>

\* The operator moves one balance by hand; a debit stops at zero.
Adjust(i, delta) ==
  /\ acct' = [acct EXCEPT ![i] = settle_carry(@, delta)]
  /\ claim' = [claim EXCEPT ![i] = @ + Net(settle_carry(acct[i], delta)) - Net(acct[i])]
  /\ UNCHANGED <<held, books>>

\* The sats a hold may have of each identity.
HeldEntries == [Ident -> UNION {0 .. held[i] : i \in Ident}]

Next ==
  \/ \E b \in Block, d, c \in [Ident -> Amount] : Candidate(b, d, c)
  \/ \E b \in Block : Confirm(b) \/ Orphan(b)
  \/ \E S \in SUBSET Ident : Hold(S)
  \/ \E r \in HeldEntries : Release(r) \/ Finish(r)
  \/ \E i \in Ident, s \in Amount : Adjust(i, s) \/ Adjust(i, -s)

Spec == Init /\ [][Next]_vars

-----------------------------------------------------------------------------
(* Types; balances, debts and what is held are never negative, in any      *)
(* order of bookings (adjust_carry stops at zero).                          *)
TypeOK ==
  /\ acct \in [Ident -> Account]
  /\ held \in [Ident -> Nat]
  /\ books \in [Block -> BookRecord]
  /\ claim \in [Ident -> Int]

(* Conservation: carry less debt plus what is in holds is exactly what the *)
(* records of the blocks on the books add up to (book_debits, book_credits *)
(* and unbook lose and invent nothing, in any order, however short a       *)
(* balance was when a block was booked).                                   *)
Conservation ==
  \A i \in Ident : Net(acct[i]) + held[i] = claim[i]

(* An identity never has a balance and a double-pay debt at once: the      *)
(* comments of restore_debt and restore_carry promise it after a reorg.    *)
NeverBoth ==
  \A i \in Ident : acct[i].carry = 0 \/ acct[i].debt = 0

(* What a block's books say moved is what its record asked for, no more    *)
(* and no less, so that unbook can put back precisely that.                *)
BooksExact ==
  \A b \in Block, i \in Ident :
    LET k == books[b]
    IN  /\ k.debits_live => k.debited[i] + k.shortfall[i] = k.debit[i]
        /\ k.credits_live => k.credited[i] + k.debt_paid[i] = k.credit[i]

\* The inductive invariant: Conservation needs BooksExact (unbook puts back
\* what the books say moved) and both need the types.
IInv == TypeOK /\ Conservation /\ NeverBoth /\ BooksExact
=============================================================================
