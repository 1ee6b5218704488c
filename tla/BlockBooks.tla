----------------------------- MODULE BlockBooks -----------------------------
(***************************************************************************)
(* A found block on the TIDES ledger: what it asks of every account and    *)
(* what tides::Books remembers of it, and the ledger's three operations    *)
(* on a whole block, book_debits, book_credits and unbook.                 *)
(***************************************************************************)
EXTENDS CarryBooks

CONSTANT Ident     \* payout identities

None == [i \in Ident |-> 0]

\* A block's figures (debit, credit) and tides::Books, per identity.
BookRecord ==
  [seen : BOOLEAN, debits_live : BOOLEAN, credits_live : BOOLEAN,
   debit : [Ident -> Nat], credit : [Ident -> Nat],
   debited : [Ident -> Nat], shortfall : [Ident -> Nat],
   credited : [Ident -> Nat], debt_paid : [Ident -> Nat]]

NoBooks ==
  [seen |-> FALSE, debits_live |-> FALSE, credits_live |-> FALSE,
   debit |-> None, credit |-> None, debited |-> None, shortfall |-> None,
   credited |-> None, debt_paid |-> None]

-----------------------------------------------------------------------------
(* The ledger's operations on a whole block.  Each takes the accounts and  *)
(* the books as they are and says what they become.                        *)

\* The books once the debits k.debit are taken: nothing if already live.
book_debits(k, a, h) ==
  IF k.debits_live THEN k
  ELSE [k EXCEPT !.debits_live = TRUE,
                 !.debited   = [i \in Ident |-> moved(a[i], h[i], k.debit[i])],
                 !.shortfall = [i \in Ident |-> overpaid(a[i], h[i], k.debit[i])]]

after_debits(k, a, h) ==
  IF k.debits_live THEN a
  ELSE [i \in Ident |-> book_debit(a[i], h[i], k.debit[i])]

held_after_debits(k, a, h) ==
  IF k.debits_live THEN h
  ELSE [i \in Ident |-> h[i] - drawn(a[i], h[i], k.debit[i])]

book_credits(k, a) ==
  IF k.credits_live THEN k
  ELSE [k EXCEPT !.credits_live = TRUE,
                 !.credited  = [i \in Ident |-> k.credit[i] - debt_taken(a[i], k.credit[i])],
                 !.debt_paid = [i \in Ident |-> debt_taken(a[i], k.credit[i])]]

after_credits(k, a) ==
  IF k.credits_live THEN a
  ELSE [i \in Ident |-> book_credit(a[i], k.credit[i])]

\* unbook: the credits off first, then the debits back on.
uncredited(k, a) ==
  IF k.credits_live
  THEN [i \in Ident |-> unbook_credit(a[i], k.credited[i], k.debt_paid[i])]
  ELSE a

short(k, a) ==
  IF k.credits_live
  THEN [i \in Ident |-> unbook_short(a[i], k.credited[i])]
  ELSE None

undebited(k, a) ==
  IF k.debits_live
  THEN [i \in Ident |-> unbook_debit(a[i], k.debited[i], k.shortfall[i])]
  ELSE a

unbook(k) ==
  [k EXCEPT !.debits_live = FALSE, !.credits_live = FALSE,
            !.debited = IF k.debits_live THEN None ELSE @,
            !.shortfall = IF k.debits_live THEN None ELSE @,
            !.credited = IF k.credits_live THEN None ELSE @,
            !.debt_paid = IF k.credits_live THEN None ELSE @]

\* What a block on the books is worth to identity i, by its record.
Booked(k, i) ==
  (IF k.credits_live THEN k.credit[i] ELSE 0)
    - (IF k.debits_live THEN k.debit[i] ELSE 0)
=============================================================================
