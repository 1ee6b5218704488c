----------------------------- MODULE MoneyFacts -----------------------------
(***************************************************************************)
(* Lemmas about money.                                                     *)
(*                                                                         *)
(* Sums: induction over the natural numbers and over finite sets, stated   *)
(* with sets in place of predicates, and what SumFunction of the community *)
(* modules computes.                                                       *)
(*                                                                         *)
(* Bookings: CarryBooks and BlockBooks, for every account, amount and set  *)
(* of identities.  The lemmas about one account come first: each says what *)
(* an operation of the ledger does to the account's net (carry less debt)  *)
(* and that it keeps balance and debt apart.                               *)
(***************************************************************************)
EXTENDS BlockBooks, Picks, FiniteSets, Functions,
        FiniteSetTheorems, WellFoundedInduction, TLAPS

-----------------------------------------------------------------------------
(***************************************************************************)
(* One account and one block's books.                                      *)
(***************************************************************************)
Apart(a) == a.carry = 0 \/ a.debt = 0

(* restore_carry puts exactly its sats on the net and keeps balance and    *)
(* debt apart (tides::Window::restore_carry; forgive_debt is the same).    *)
LEMMA RestoreCarry ==
  ASSUME NEW a \in Account, NEW s \in Nat
  PROVE  /\ restore_carry(a, s) \in Account
         /\ Net(restore_carry(a, s)) = Net(a) + s
         /\ Apart(a) => Apart(restore_carry(a, s))
  BY DEF Account, restore_carry, adjust_carry, reduce_debt, debt_taken, Lesser,
         Net, Apart

(* A debt forgiven raises what is owed to an account by as much.           *)
LEMMA ForgiveDebt ==
  ASSUME NEW a \in Account, NEW s \in Nat
  PROVE  /\ forgive_debt(a, s) \in Account
         /\ Net(forgive_debt(a, s)) = Net(a) + s
         /\ Apart(a) => Apart(forgive_debt(a, s))
  BY DEF Account, forgive_debt, adjust_carry, reduce_debt, debt_taken, Lesser,
         Net, Apart

(* restore_debt takes exactly its sats off the net, from carry first.      *)
LEMMA RestoreDebt ==
  ASSUME NEW a \in Account, NEW s \in Nat
  PROVE  /\ restore_debt(a, s) \in Account
         /\ Net(restore_debt(a, s)) = Net(a) - s
         /\ Apart(a) => Apart(restore_debt(a, s))
  BY DEF Account, restore_debt, adjust_carry, accrue_debt, Lesser, Net, Apart

(* A debit comes off carry, then holds, and the rest is a debt: nothing of *)
(* it is lost (Ledger::book_debits).                                       *)
LEMMA BookDebit ==
  ASSUME NEW a \in Account, NEW h \in Nat, NEW d \in Nat
  PROVE  /\ book_debit(a, h, d) \in Account
         /\ drawn(a, h, d) \in Nat /\ drawn(a, h, d) <= h
         /\ moved(a, h, d) \in Nat /\ overpaid(a, h, d) \in Nat
         /\ moved(a, h, d) + overpaid(a, h, d) = d
         /\ Net(book_debit(a, h, d)) + (h - drawn(a, h, d)) = Net(a) + h - d
         /\ Apart(a) => Apart(book_debit(a, h, d))
<1> DEFINE f == from_carry(a, d)
           w == drawn(a, h, d)
<1>1. a.carry \in Nat /\ a.debt \in Nat
  BY DEF Account
<1>2. /\ f \in Nat /\ f <= d /\ f <= a.carry
      /\ f < d => f = a.carry
  BY <1>1 DEF from_carry, Lesser
<1>3. w \in Nat /\ w <= h /\ w <= d - f
  BY <1>2 DEF drawn, Lesser
<1>4. moved(a, h, d) = f + w /\ overpaid(a, h, d) = d - (f + w)
  BY DEF moved, overpaid
<1>5. book_debit(a, h, d) = [carry |-> a.carry - f, debt |-> a.debt + (d - (f + w))]
  <2>1. adjust_carry(a, -d) = [carry |-> a.carry - f, debt |-> a.debt]
    BY <1>1, <1>2 DEF adjust_carry, from_carry, Lesser
  <2> QED
    BY <2>1, <1>4 DEF book_debit, accrue_debt
<1> HIDE DEF f, w
<1>6. /\ book_debit(a, h, d) \in Account
      /\ Apart(a) => Apart(book_debit(a, h, d))
  BY <1>1, <1>2, <1>3, <1>5 DEF Account, Apart
<1>7. Net(book_debit(a, h, d)) + (h - w) = Net(a) + h - d
  BY <1>1, <1>2, <1>3, <1>5 DEF Net
<1>8. /\ moved(a, h, d) \in Nat /\ overpaid(a, h, d) \in Nat
      /\ moved(a, h, d) + overpaid(a, h, d) = d
  BY <1>2, <1>3, <1>4
<1>9. w = drawn(a, h, d)
  BY DEF w
<1> QED
  BY <1>3, <1>6, <1>7, <1>8, <1>9

(* A credit pays the debt down and the rest is carry (Ledger::book_credits). *)
LEMMA BookCredit ==
  ASSUME NEW a \in Account, NEW e \in Nat
  PROVE  /\ book_credit(a, e) \in Account
         /\ debt_taken(a, e) \in Nat /\ e - debt_taken(a, e) \in Nat
         /\ Net(book_credit(a, e)) = Net(a) + e
         /\ Apart(a) => Apart(book_credit(a, e))
  BY DEF Account, book_credit, adjust_carry, reduce_debt, debt_taken, Lesser,
         Net, Apart

(* Taking a credit back leaves on the account only what was paid out of it *)
(* since, which is what unbook returns.                                    *)
LEMMA UnbookCredit ==
  ASSUME NEW a \in Account, NEW c \in Nat, NEW p \in Nat
  PROVE  /\ unbook_credit(a, c, p) \in Account
         /\ unbook_short(a, c) \in Nat
         /\ Net(unbook_credit(a, c, p)) = Net(a) - c - p + unbook_short(a, c)
         /\ Apart(a) => Apart(unbook_credit(a, c, p))
<1> DEFINE a1 == adjust_carry(a, -c)
<1>1. /\ a1 \in Account
      /\ unbook_short(a, c) \in Nat
      /\ Net(a1) = Net(a) - c + unbook_short(a, c)
      /\ Apart(a) => Apart(a1)
  BY DEF Account, adjust_carry, unbook_short, Lesser, Net, Apart
<1>2. Net(a1) \in Int /\ Net(a) \in Int
  BY <1>1 DEF Account, Net
<1> HIDE DEF a1
<1>3. /\ restore_debt(a1, p) \in Account
      /\ Net(restore_debt(a1, p)) = Net(a1) - p
      /\ Apart(a1) => Apart(restore_debt(a1, p))
  BY <1>1, RestoreDebt
<1>4. unbook_credit(a, c, p) = restore_debt(a1, p)
  BY DEF unbook_credit, a1
<1> QED
  BY <1>1, <1>2, <1>3, <1>4

(* Giving a debit back puts exactly what it moved on the net.              *)
LEMMA UnbookDebit ==
  ASSUME NEW a \in Account, NEW m \in Nat, NEW s \in Nat
  PROVE  /\ unbook_debit(a, m, s) \in Account
         /\ Net(unbook_debit(a, m, s)) = Net(a) + m + s
         /\ Apart(a) => Apart(unbook_debit(a, m, s))
<1>1. Net(a) \in Int
  BY DEF Account, Net
<1>2. /\ restore_carry(a, m) \in Account
      /\ Net(restore_carry(a, m)) = Net(a) + m
      /\ Apart(a) => Apart(restore_carry(a, m))
  BY RestoreCarry
<1> QED
  BY <1>1, <1>2, ForgiveDebt DEF unbook_debit

(* A correction by hand leaves an account, with carry or debt but not      *)
(* both.                                                                   *)
LEMMA SettleCarry ==
  ASSUME NEW a \in Account, NEW d \in Int
  PROVE  /\ settle_carry(a, d) \in Account
         /\ Apart(a) => Apart(settle_carry(a, d))
<1>1. CASE d > 0
  <2>1. d \in Nat
    BY <1>1
  <2> QED
    BY <1>1, <2>1, RestoreCarry DEF settle_carry
<1>2. CASE ~(d > 0)
  BY <1>2 DEF Account, settle_carry, adjust_carry, Apart
<1> QED
  BY <1>1, <1>2
-----------------------------------------------------------------------------
(***************************************************************************)
(* The same facts for a whole block: all accounts at once, and its books.  *)
(***************************************************************************)
Exact(k) ==
  \A i \in Ident :
    /\ k.debits_live => k.debited[i] + k.shortfall[i] = k.debit[i]
    /\ k.credits_live => k.credited[i] + k.debt_paid[i] = k.credit[i]

(* Booking a block's debits takes its record's debit off every account and *)
(* its holds, once, and leaves its books exact.                            *)
LEMMA BlockDebits ==
  ASSUME NEW k \in BookRecord, NEW a \in [Ident -> Account],
         NEW h \in [Ident -> Nat], Exact(k)
  PROVE  /\ book_debits(k, a, h) \in BookRecord
         /\ Exact(book_debits(k, a, h))
         /\ book_debits(k, a, h).debits_live
         /\ book_debits(k, a, h).credits_live = k.credits_live
         /\ book_debits(k, a, h).debit = k.debit
         /\ book_debits(k, a, h).credit = k.credit
         /\ after_debits(k, a, h) \in [Ident -> Account]
         /\ held_after_debits(k, a, h) \in [Ident -> Nat]
         /\ \A i \in Ident :
              /\ Net(after_debits(k, a, h)[i]) + held_after_debits(k, a, h)[i]
                   = Net(a[i]) + h[i] - (IF k.debits_live THEN 0 ELSE k.debit[i])
              /\ Apart(a[i]) => Apart(after_debits(k, a, h)[i])
<1>1. \A i \in Ident : Net(a[i]) \in Int
  BY DEF Account, Net
<1>2. CASE k.debits_live
  BY <1>1, <1>2 DEF book_debits, after_debits, held_after_debits
<1>3. CASE ~k.debits_live
  <2>1. \A i \in Ident : a[i] \in Account /\ h[i] \in Nat /\ k.debit[i] \in Nat
    BY DEF BookRecord
  <2>2. \A i \in Ident :
          /\ book_debit(a[i], h[i], k.debit[i]) \in Account
          /\ moved(a[i], h[i], k.debit[i]) \in Nat
          /\ overpaid(a[i], h[i], k.debit[i]) \in Nat
          /\ moved(a[i], h[i], k.debit[i]) + overpaid(a[i], h[i], k.debit[i]) = k.debit[i]
          /\ h[i] - drawn(a[i], h[i], k.debit[i]) \in Nat
          /\ Net(book_debit(a[i], h[i], k.debit[i])) + (h[i] - drawn(a[i], h[i], k.debit[i]))
               = Net(a[i]) + h[i] - k.debit[i]
          /\ Apart(a[i]) => Apart(book_debit(a[i], h[i], k.debit[i]))
    <3> SUFFICES ASSUME NEW i \in Ident
                 PROVE  <2>2!(i)
      OBVIOUS
    <3> DEFINE d == k.debit[i]
    <3>1. a[i] \in Account /\ h[i] \in Nat /\ d \in Nat
      BY <2>1
    <3> HIDE DEF d
    <3>2. /\ book_debit(a[i], h[i], d) \in Account
          /\ drawn(a[i], h[i], d) \in Nat /\ drawn(a[i], h[i], d) <= h[i]
          /\ moved(a[i], h[i], d) \in Nat /\ overpaid(a[i], h[i], d) \in Nat
          /\ moved(a[i], h[i], d) + overpaid(a[i], h[i], d) = d
          /\ Net(book_debit(a[i], h[i], d)) + (h[i] - drawn(a[i], h[i], d))
               = Net(a[i]) + h[i] - d
          /\ Apart(a[i]) => Apart(book_debit(a[i], h[i], d))
      BY Zenon, <3>1, BookDebit
    <3>3. h[i] - drawn(a[i], h[i], d) \in Nat
      BY <3>1, <3>2
    <3> QED
      BY <3>2, <3>3 DEF d
  <2> DEFINE M == [i \in Ident |-> moved(a[i], h[i], k.debit[i])]
             O == [i \in Ident |-> overpaid(a[i], h[i], k.debit[i])]
  <2>3. /\ M \in [Ident -> Nat] /\ O \in [Ident -> Nat]
        /\ \A i \in Ident : M[i] + O[i] = k.debit[i]
    BY <2>2
  <2>4. book_debits(k, a, h) =
          [k EXCEPT !.debits_live = TRUE, !.debited = M, !.shortfall = O]
    BY <1>3 DEF book_debits
  <2> HIDE DEF M, O
  <2>5. /\ book_debits(k, a, h) \in BookRecord
        /\ book_debits(k, a, h).debits_live
        /\ book_debits(k, a, h).credits_live = k.credits_live
        /\ book_debits(k, a, h).debit = k.debit
        /\ book_debits(k, a, h).credit = k.credit
        /\ book_debits(k, a, h).debited = M
        /\ book_debits(k, a, h).shortfall = O
        /\ book_debits(k, a, h).credited = k.credited
        /\ book_debits(k, a, h).debt_paid = k.debt_paid
    BY Zenon, <2>3, <2>4 DEF BookRecord
  <2>6. Exact(book_debits(k, a, h))
    BY <2>3, <2>5 DEF Exact
  <2> QED
    BY <1>3, <2>2, <2>5, <2>6 DEF after_debits, held_after_debits
<1> QED
  BY <1>2, <1>3
(* Booking its credits puts its record's credit on every account, once.    *)
LEMMA BlockCredits ==
  ASSUME NEW k \in BookRecord, NEW a \in [Ident -> Account], Exact(k)
  PROVE  /\ book_credits(k, a) \in BookRecord
         /\ Exact(book_credits(k, a))
         /\ book_credits(k, a).credits_live
         /\ book_credits(k, a).debits_live = k.debits_live
         /\ book_credits(k, a).debit = k.debit
         /\ book_credits(k, a).credit = k.credit
         /\ after_credits(k, a) \in [Ident -> Account]
         /\ \A i \in Ident :
              /\ Net(after_credits(k, a)[i])
                   = Net(a[i]) + (IF k.credits_live THEN 0 ELSE k.credit[i])
              /\ Apart(a[i]) => Apart(after_credits(k, a)[i])
<1>1. \A i \in Ident : Net(a[i]) \in Int
  BY DEF Account, Net
<1>2. CASE k.credits_live
  BY <1>1, <1>2 DEF book_credits, after_credits
<1>3. CASE ~k.credits_live
  <2>1. \A i \in Ident : a[i] \in Account /\ k.credit[i] \in Nat
    BY DEF BookRecord
  <2>2. \A i \in Ident :
          /\ book_credit(a[i], k.credit[i]) \in Account
          /\ debt_taken(a[i], k.credit[i]) \in Nat
          /\ k.credit[i] - debt_taken(a[i], k.credit[i]) \in Nat
          /\ Net(book_credit(a[i], k.credit[i])) = Net(a[i]) + k.credit[i]
          /\ Apart(a[i]) => Apart(book_credit(a[i], k.credit[i]))
    <3> SUFFICES ASSUME NEW i \in Ident
                 PROVE  <2>2!(i)
      OBVIOUS
    <3> QED
      BY Zenon, <2>1, BookCredit
  <2> DEFINE C == [i \in Ident |-> k.credit[i] - debt_taken(a[i], k.credit[i])]
             P == [i \in Ident |-> debt_taken(a[i], k.credit[i])]
  <2>3. /\ C \in [Ident -> Nat] /\ P \in [Ident -> Nat]
        /\ \A i \in Ident : C[i] + P[i] = k.credit[i]
    BY <2>1, <2>2
  <2>4. book_credits(k, a) =
          [k EXCEPT !.credits_live = TRUE, !.credited = C, !.debt_paid = P]
    BY <1>3 DEF book_credits
  <2> HIDE DEF C, P
  <2>5. /\ book_credits(k, a) \in BookRecord
        /\ book_credits(k, a).credits_live
        /\ book_credits(k, a).debits_live = k.debits_live
        /\ book_credits(k, a).debit = k.debit
        /\ book_credits(k, a).credit = k.credit
        /\ book_credits(k, a).debited = k.debited
        /\ book_credits(k, a).shortfall = k.shortfall
        /\ book_credits(k, a).credited = C
        /\ book_credits(k, a).debt_paid = P
    BY Zenon, <2>3, <2>4 DEF BookRecord
  <2>6. Exact(book_credits(k, a))
    BY <2>3, <2>5 DEF Exact
  <2> QED
    BY <1>3, <2>2, <2>5, <2>6 DEF after_credits
<1> QED
  BY <1>2, <1>3

(* Unbooking takes exactly what the block is worth off every account, but  *)
(* for credit that has been paid out since.                                *)
LEMMA BlockUnbook ==
  ASSUME NEW k \in BookRecord, NEW a \in [Ident -> Account], Exact(k)
  PROVE  /\ unbook(k) \in BookRecord
         /\ ~unbook(k).debits_live /\ ~unbook(k).credits_live
         /\ undebited(k, uncredited(k, a)) \in [Ident -> Account]
         /\ short(k, a) \in [Ident -> Nat]
         /\ \A i \in Ident :
              /\ Net(undebited(k, uncredited(k, a))[i])
                   = Net(a[i]) - Booked(k, i) + short(k, a)[i]
              /\ Apart(a[i]) => Apart(undebited(k, uncredited(k, a))[i])
<1> DEFINE u == uncredited(k, a)
           v == undebited(k, u)
<1>0. /\ \A i \in Ident : a[i] \in Account
      /\ \A i \in Ident : /\ k.debited[i] \in Nat /\ k.shortfall[i] \in Nat
                          /\ k.credited[i] \in Nat /\ k.debt_paid[i] \in Nat
                          /\ k.debit[i] \in Nat /\ k.credit[i] \in Nat
  BY DEF BookRecord
<1>1. unbook(k) \in BookRecord /\ ~unbook(k).debits_live /\ ~unbook(k).credits_live
  <2>1. None \in [Ident -> Nat]
    BY DEF None
  <2> QED
    BY Zenon, <2>1 DEF unbook, BookRecord
<1>2. /\ u \in [Ident -> Account] /\ short(k, a) \in [Ident -> Nat]
      /\ \A i \in Ident :
           /\ Net(u[i]) = Net(a[i]) - (IF k.credits_live THEN k.credit[i] ELSE 0)
                           + short(k, a)[i]
           /\ Apart(a[i]) => Apart(u[i])
  <2>1. \A i \in Ident : Net(a[i]) \in Int
    BY <1>0 DEF Account, Net
  <2>2. CASE ~k.credits_live
    BY <2>1, <2>2 DEF uncredited, short, None
  <2>3. CASE k.credits_live
    <3>1. \A i \in Ident :
            /\ unbook_credit(a[i], k.credited[i], k.debt_paid[i]) \in Account
            /\ unbook_short(a[i], k.credited[i]) \in Nat
            /\ Net(unbook_credit(a[i], k.credited[i], k.debt_paid[i]))
                 = Net(a[i]) - k.credited[i] - k.debt_paid[i] + unbook_short(a[i], k.credited[i])
            /\ Apart(a[i]) => Apart(unbook_credit(a[i], k.credited[i], k.debt_paid[i]))
      <4> SUFFICES ASSUME NEW i \in Ident
                   PROVE  <3>1!(i)
        OBVIOUS
      <4> QED
        BY Zenon, <1>0, UnbookCredit
    <3>2. \A i \in Ident : k.credited[i] + k.debt_paid[i] = k.credit[i]
      BY <2>3 DEF Exact
    <3> QED
      BY <1>0, <2>1, <2>3, <3>1, <3>2 DEF uncredited, short
  <2> QED
    BY <2>2, <2>3
<1> HIDE DEF u
<1>3. /\ v \in [Ident -> Account]
      /\ \A i \in Ident :
           /\ Net(v[i]) = Net(u[i]) + (IF k.debits_live THEN k.debit[i] ELSE 0)
           /\ Apart(u[i]) => Apart(v[i])
  <2>1. \A i \in Ident : u[i] \in Account /\ Net(u[i]) \in Int
    BY <1>2 DEF Account, Net
  <2>2. CASE ~k.debits_live
    BY <1>2, <2>1, <2>2 DEF undebited
  <2>3. CASE k.debits_live
    <3>1. \A i \in Ident :
            /\ unbook_debit(u[i], k.debited[i], k.shortfall[i]) \in Account
            /\ Net(unbook_debit(u[i], k.debited[i], k.shortfall[i]))
                 = Net(u[i]) + k.debited[i] + k.shortfall[i]
            /\ Apart(u[i]) => Apart(unbook_debit(u[i], k.debited[i], k.shortfall[i]))
      <4> SUFFICES ASSUME NEW i \in Ident
                   PROVE  <3>1!(i)
        OBVIOUS
      <4> QED
        BY <1>0, <2>1, UnbookDebit
    <3>2. \A i \in Ident : k.debited[i] + k.shortfall[i] = k.debit[i]
      BY <2>3 DEF Exact
    <3> QED
      BY <1>0, <2>1, <2>3, <3>1, <3>2 DEF undebited
  <2> QED
    BY <2>2, <2>3
<1>4. \A i \in Ident : Net(a[i]) \in Int /\ Net(u[i]) \in Int /\ Net(v[i]) \in Int
  BY <1>0, <1>2, <1>3 DEF Account, Net
<1> HIDE DEF v
<1>5. \A i \in Ident : /\ Net(v[i]) = Net(a[i]) - Booked(k, i) + short(k, a)[i]
                       /\ Apart(a[i]) => Apart(v[i])
  BY <1>0, <1>2, <1>3, <1>4 DEF Booked
<1>6. v = undebited(k, uncredited(k, a))
  BY DEF u, v
<1> QED
  BY <1>1, <1>2, <1>3, <1>5, <1>6

-----------------------------------------------------------------------------
(***************************************************************************)
(* Induction and sums.                                                     *)
(***************************************************************************)
(* A non-empty set of natural numbers has a least element.                 *)
LEMMA LeastNat ==
  ASSUME NEW T \in SUBSET Nat, T # {}
  PROVE  \E x \in T : \A y \in T : x <= y
<1> DEFINE less == {ss \in Nat \X Nat : ss[1] < ss[2]}
<1>1. \E x \in T : \A y \in T : ~ (<<y, x>> \in OpToRel(<, Nat))
  BY Zenon, NatLessThanWellFounded, WFMin
<1>2. OpToRel(<, Nat) = less
  BY Zenon DEF OpToRel
<1>3. PICK x \in T : \A y \in T : ~ (<<y, x>> \in less)
  BY <1>1, <1>2, Zenon
<1>4. ASSUME NEW y \in T PROVE x <= y
  <2>1. <<y, x>> \in Nat \X Nat /\ <<y, x>>[1] = y /\ <<y, x>>[2] = x
    OBVIOUS
  <2>2. ~(<<y, x>>[1] < <<y, x>>[2])
    BY <1>3, <2>1
  <2>3. QED
    BY <2>1, <2>2
<1>5. QED
  BY <1>4

(* Induction from 0 up to n.                                               *)
LEMMA UpTo ==
  ASSUME NEW n \in Nat, NEW X, 0 \in X,
         \A k \in 0 .. n - 1 : k \in X => k + 1 \in X
  PROVE  \A k \in 0 .. n : k \in X
<1> DEFINE bad == {k \in 0 .. n : k \notin X}
<1>1. SUFFICES ASSUME bad # {} PROVE FALSE
  OBVIOUS
<1>2. bad \in SUBSET Nat
  OBVIOUS
<1> HIDE DEF bad
<1>3. PICK x \in bad : \A y \in bad : x <= y
  BY <1>1, <1>2, LeastNat
<1>4. x # 0 /\ x \in 0 .. n /\ x - 1 \in 0 .. n - 1 /\ x \notin X
  BY <1>3 DEF bad
<1>5. x - 1 \in X
  BY <1>3, <1>4 DEF bad
<1>6. QED
  BY <1>4, <1>5

(* Induction over the subsets of a finite set.                             *)
LEMMA SubsetsOf ==
  ASSUME NEW D, IsFiniteSet(D), NEW X,
         \A s \in SUBSET D : (\A x \in s : s \ {x} \in X) => s \in X
  PROVE  \A s \in SUBSET D : s \in X
<1> DEFINE sizes == {n \in Nat : \E s \in SUBSET D : s \notin X /\ Cardinality(s) = n}
<1>1. SUFFICES ASSUME NEW s0 \in SUBSET D, s0 \notin X PROVE FALSE
  OBVIOUS
<1>2. \A s \in SUBSET D : IsFiniteSet(s) /\ Cardinality(s) \in Nat
  BY FS_Subset, FS_CardinalityType
<1>3. sizes # {}
  BY <1>1, <1>2
<1>4. PICK n \in sizes : \A m \in sizes : n <= m
  BY Zenon, <1>3, LeastNat
<1>5. PICK s \in SUBSET D : s \notin X /\ Cardinality(s) = n
  BY <1>4
<1>6. ASSUME NEW x \in s PROVE s \ {x} \in X
  <2>1. s \ {x} \in SUBSET D /\ Cardinality(s \ {x}) = n - 1
    BY <1>2, <1>5, FS_RemoveElement
  <2>2. n - 1 \notin sizes
    BY <1>4
  <2>3. QED
    BY <1>2, <2>1, <2>2
<1>7. QED
  BY <1>5, <1>6

-----------------------------------------------------------------------------
(* 1 .. n is finite.                                                       *)
LEMMA FirstFinite ==
  ASSUME NEW n \in Int
  PROVE  IsFiniteSet(1 .. n)
  BY FS_Interval

\* g has the sum of f over every subset of D.
SumsOf(g, f, D) ==
  /\ g \in [SUBSET D -> Int] /\ g[{}] = 0
  /\ \A s \in SUBSET D : \A x \in s : g[s] = f[x] + g[s \ {x}]

(* Partial sums exist for every finite family.                             *)
LEMMA SumsExist ==
  ASSUME NEW D, IsFiniteSet(D), NEW f \in [D -> Int]
  PROVE  \E g : SumsOf(g, f, D)
<1> DEFINE X == {E \in SUBSET D : \E g : SumsOf(g, f, E)}
<1>1. ASSUME NEW E \in SUBSET D, \A x \in E : E \ {x} \in X
      PROVE  E \in X
  <2>1. CASE E = {}
    <3> DEFINE g == [s \in SUBSET E |-> 0]
    <3>1. SumsOf(g, f, E)
      BY <2>1 DEF SumsOf
    <3>2. QED
      BY <3>1
  <2>2. CASE E # {}
    <3>1. PICK a \in E : TRUE
      BY <2>2
    <3>2. PICK h : SumsOf(h, f, E \ {a})
      BY Zenon, <1>1, <3>1
    <3> DEFINE g == [s \in SUBSET E |-> IF a \in s THEN f[a] + h[s \ {a}] ELSE h[s]]
    <3>3. g \in [SUBSET E -> Int]
      <4>1. ASSUME NEW s \in SUBSET E PROVE g[s] \in Int
        <5>1. s \ {a} \in SUBSET (E \ {a}) /\ (a \notin s => s \in SUBSET (E \ {a}))
          OBVIOUS
        <5>2. QED
          BY <3>2, <5>1 DEF SumsOf
      <4>2. QED
        BY Zenon, <4>1
    <3>4. g[{}] = 0
      BY <3>2 DEF SumsOf
    <3>5. ASSUME NEW s \in SUBSET E, NEW x \in s PROVE g[s] = f[x] + g[s \ {x}]
      <4>0. /\ f[x] \in Int /\ f[a] \in Int /\ s \ {x} \in SUBSET E
            /\ s \ {a} \in SUBSET (E \ {a}) /\ (s \ {a}) \ {x} \in SUBSET (E \ {a})
            /\ h[s \ {a}] \in Int /\ h[(s \ {a}) \ {x}] \in Int
        BY <3>2 DEF SumsOf
      <4>1. CASE x = a
        <5>1. g[s] = f[a] + h[s \ {a}] /\ g[s \ {x}] = h[s \ {a}]
          BY <4>0, <4>1
        <5>2. QED
          BY <5>1, <4>1
      <4>2. CASE x # a /\ a \in s
        <5>1. h[s \ {a}] = f[x] + h[(s \ {a}) \ {x}]
          BY <3>2, <4>0, <4>2 DEF SumsOf
        <5>2. (s \ {a}) \ {x} = (s \ {x}) \ {a}
          OBVIOUS
        <5>3. g[s] = f[a] + h[s \ {a}] /\ g[s \ {x}] = f[a] + h[(s \ {a}) \ {x}]
          BY Zenon, <4>0, <4>2, <5>2
        <5> HIDE DEF g
        <5>4. QED
          BY <4>0, <5>1, <5>3
      <4>3. CASE a \notin s
        <5>1. s \in SUBSET (E \ {a}) /\ g[s] = h[s] /\ g[s \ {x}] = h[s \ {x}]
          BY <4>0, <4>3
        <5>2. QED
          BY <3>2, <5>1 DEF SumsOf
      <4>4. QED
        BY <4>1, <4>2, <4>3
    <3> HIDE DEF g
    <3>6. SumsOf(g, f, E)
      BY <3>3, <3>4, <3>5 DEF SumsOf
    <3>7. QED
      BY <3>6
  <2>3. QED
    BY <2>1, <2>2
<1> HIDE DEF X
<1>2. D \in X
  BY Zenon, <1>1, SubsetsOf
<1>3. QED
  BY <1>2 DEF X

(* SumFunction(f) is the sum over the whole domain.                        *)
LEMMA SumIs ==
  ASSUME NEW D, IsFiniteSet(D), NEW f \in [D -> Int], NEW g, SumsOf(g, f, D)
  PROVE  SumFunction(f) = g[D]
<1> DEFINE c(s) == CHOOSE x \in s : TRUE
           Fold(h) == h = [s \in SUBSET D |-> IF s = {} THEN 0 ELSE f[c(s)] + h[s \ {c(s)}]]
           h == CHOOSE k : Fold(k)
<1>1. SumFunction(f) = h[D]
  BY Zenon, DOMAIN f = D DEF SumFunction, SumFunctionOnSet, FoldFunctionOnSet, MapThenFoldSet
<1>2. Fold(g)
  <2>1. \A s \in SUBSET D : g[s] = IF s = {} THEN 0 ELSE f[c(s)] + g[s \ {c(s)}]
    BY Zenon DEF SumsOf
  <2>2. g = [s \in SUBSET D |-> g[s]]
    BY DEF SumsOf
  <2>3. QED
    BY Zenon, <2>1, <2>2
<1>3. Fold(h)
  BY Zenon, <1>2
<1> HIDE DEF h
<1>4. \A s \in SUBSET D : h[s] = IF s = {} THEN 0 ELSE f[c(s)] + h[s \ {c(s)}]
  BY <1>3
<1> DEFINE X == {s \in SUBSET D : h[s] = g[s]}
<1>5. ASSUME NEW s \in SUBSET D, \A x \in s : s \ {x} \in X
      PROVE  s \in X
  <2>1. CASE s = {}
    BY Zenon, <1>4, <2>1 DEF SumsOf
  <2>2. CASE s # {}
    <3>1. c(s) \in s
      BY <2>2
    <3>2. h[s] = f[c(s)] + h[s \ {c(s)}] /\ g[s] = f[c(s)] + g[s \ {c(s)}]
      BY Zenon, <1>4, <2>2, <3>1 DEF SumsOf
    <3>3. h[s \ {c(s)}] = g[s \ {c(s)}]
      BY Zenon, <1>5, <3>1
    <3>4. QED
      BY <3>2, <3>3
  <2>3. QED
    BY <2>1, <2>2
<1> HIDE DEF X
<1>6. D \in X
  BY Zenon, <1>5, SubsetsOf
<1>7. QED
  BY <1>1, <1>6 DEF X
(* The sums over the subsets: one g for them all.                          *)
LEMMA SumsGiven ==
  ASSUME NEW D, IsFiniteSet(D), NEW f \in [D -> Int]
  PROVE  \E g : /\ SumsOf(g, f, D)
                /\ \A E \in SUBSET D : SumFunction([x \in E |-> f[x]]) = g[E]
<1>1. PICK g : SumsOf(g, f, D)
  BY SumsExist
<1>2. ASSUME NEW E \in SUBSET D PROVE SumFunction([x \in E |-> f[x]]) = g[E]
  <2> DEFINE fE == [x \in E |-> f[x]]
             gE == [s \in SUBSET E |-> g[s]]
  <2>1. fE \in [E -> Int] /\ IsFiniteSet(E)
    BY FS_Subset
  <2>2. SumsOf(gE, fE, E)
    <3>1. gE \in [SUBSET E -> Int] /\ gE[{}] = 0
      BY <1>1 DEF SumsOf
    <3>2. ASSUME NEW s \in SUBSET E, NEW x \in s PROVE gE[s] = fE[x] + gE[s \ {x}]
      <4>1. s \in SUBSET D /\ s \ {x} \in SUBSET E /\ x \in E
        OBVIOUS
      <4>2. g[s] = f[x] + g[s \ {x}]
        BY <1>1, <4>1 DEF SumsOf
      <4>3. QED
        BY <4>1, <4>2
    <3> HIDE DEF fE, gE
    <3>3. QED
      BY <3>1, <3>2 DEF SumsOf
  <2>3. gE[E] = g[E]
    OBVIOUS
  <2> HIDE DEF fE, gE
  <2>4. SumFunction(fE) = gE[E]
    BY <2>1, <2>2, SumIs
  <2>5. QED
    BY <2>3, <2>4 DEF fE
<1>3. QED
  BY <1>1, <1>2

(* A sum of integers is an integer, and over no elements it is 0.          *)
LEMMA SumType ==
  ASSUME NEW D, IsFiniteSet(D), NEW f \in [D -> Int]
  PROVE  SumFunction(f) \in Int /\ (D = {} => SumFunction(f) = 0)
<1>1. PICK g : SumsOf(g, f, D)
  BY SumsExist
<1>2. SumFunction(f) = g[D]
  BY <1>1, SumIs
<1>3. QED
  BY Zenon, <1>1, <1>2 DEF SumsOf

(* One element may be taken out of a sum.                                  *)
LEMMA SumTakeOut ==
  ASSUME NEW D, IsFiniteSet(D), NEW f \in [D -> Int], NEW x \in D,
         NEW r \in [D \ {x} -> Int], \A y \in D \ {x} : r[y] = f[y]
  PROVE  SumFunction(f) = f[x] + SumFunction(r)
<1>1. PICK g : /\ SumsOf(g, f, D)
               /\ \A E \in SUBSET D : SumFunction([y \in E |-> f[y]]) = g[E]
  BY SumsGiven
<1>2. SumFunction(f) = g[D]
  BY <1>1, SumIs
<1>3. r = [y \in D \ {x} |-> f[y]]
  OBVIOUS
<1>4. SumFunction(r) = g[D \ {x}]
  BY <1>1, <1>3
<1>5. g[D] = f[x] + g[D \ {x}]
  BY <1>1 DEF SumsOf
<1>6. QED
  BY <1>2, <1>4, <1>5

(* One value changes: the sum changes by as much.                          *)
LEMMA SumChange ==
  ASSUME NEW D, IsFiniteSet(D), NEW f \in [D -> Int], NEW f2 \in [D -> Int], NEW x \in D,
         \A y \in D \ {x} : f2[y] = f[y]
  PROVE  SumFunction(f2) = SumFunction(f) - f[x] + f2[x]
<1> DEFINE r == [y \in D \ {x} |-> f[y]]
<1>1. r \in [D \ {x} -> Int] /\ IsFiniteSet(D \ {x}) /\ \A y \in D \ {x} : r[y] = f[y] /\ r[y] = f2[y]
  BY FS_RemoveElement
<1> HIDE DEF r
<1>2. SumFunction(r) \in Int
  BY <1>1, SumType
<1>3. SumFunction(f) = f[x] + SumFunction(r)
  BY <1>1, SumTakeOut
<1>4. SumFunction(f2) = f2[x] + SumFunction(r)
  BY <1>1, SumTakeOut
<1>5. QED
  BY <1>2, <1>3, <1>4

(* One element more: the sum grows by its value.                           *)
LEMMA SumAppend ==
  ASSUME NEW D, IsFiniteSet(D), NEW x, x \notin D, NEW f \in [D -> Int],
         NEW f2 \in [D \cup {x} -> Int], \A y \in D : f2[y] = f[y]
  PROVE  SumFunction(f2) = SumFunction(f) + f2[x]
<1> DEFINE E == D \cup {x}
<1>1. IsFiniteSet(E) /\ E \ {x} = D /\ x \in E /\ f2 \in [E -> Int]
  BY FS_AddElement
<1> HIDE DEF E
<1>2. f \in [E \ {x} -> Int] /\ \A y \in E \ {x} : f[y] = f2[y]
  BY <1>1
<1>3. SumFunction(f2) = f2[x] + SumFunction(f)
  BY <1>1, <1>2, SumTakeOut
<1>4. SumFunction(f) \in Int /\ f2[x] \in Int
  BY <1>1, SumType
<1>5. QED
  BY <1>3, <1>4

(* The same over 1 .. n.                                                   *)
LEMMA SumNext ==
  ASSUME NEW n \in Nat, NEW f \in [1 .. n -> Int], NEW f2 \in [1 .. n + 1 -> Int],
         \A y \in 1 .. n : f2[y] = f[y]
  PROVE  SumFunction(f2) = SumFunction(f) + f2[n + 1]
<1> DEFINE D == 1 .. n
           x == n + 1
<1>0. IsFiniteSet(D)
  BY FS_Interval
<1>1. x \notin D /\ 1 .. n + 1 = D \cup {x}
  OBVIOUS
<1>2. f \in [D -> Int] /\ f2 \in [D \cup {x} -> Int] /\ \A y \in D : f2[y] = f[y]
  BY <1>1
<1> HIDE DEF D, x
<1>3. SumFunction(f2) = SumFunction(f) + f2[x]
  BY SMTT(30), <1>0, <1>1, <1>2, SumAppend
<1>4. QED
  BY <1>3 DEF x

(* Sums respect addition and order, by induction on the domain.            *)
LEMMA SumPlus ==
  ASSUME NEW D, IsFiniteSet(D), NEW f1 \in [D -> Int], NEW f2 \in [D -> Int]
  PROVE  SumFunction([x \in D |-> f1[x] + f2[x]]) = SumFunction(f1) + SumFunction(f2)
<1> DEFINE f == [x \in D |-> f1[x] + f2[x]]
<1>1. f \in [D -> Int]
  OBVIOUS
<1> HIDE DEF f
<1>2. PICK g1 : SumsOf(g1, f1, D)
  BY SumsExist
<1>3. PICK g2 : SumsOf(g2, f2, D)
  BY SumsExist
<1>4. PICK g : SumsOf(g, f, D)
  BY <1>1, SumsExist
<1> DEFINE X == {s \in SUBSET D : g[s] = g1[s] + g2[s]}
<1>5. ASSUME NEW s \in SUBSET D, \A x \in s : s \ {x} \in X
      PROVE  s \in X
  <2>1. CASE s = {}
    BY <1>2, <1>3, <1>4, <2>1 DEF SumsOf
  <2>2. CASE s # {}
    <3>1. PICK x \in s : TRUE
      BY <2>2
    <3>2. g[s \ {x}] = g1[s \ {x}] + g2[s \ {x}] /\ s \ {x} \in SUBSET D
      BY <1>5, <3>1
    <3>3. /\ g[s] = f[x] + g[s \ {x}] /\ g1[s] = f1[x] + g1[s \ {x}] /\ g2[s] = f2[x] + g2[s \ {x}]
          /\ g1[s \ {x}] \in Int /\ g2[s \ {x}] \in Int
      BY Zenon, <1>2, <1>3, <1>4, <3>1 DEF SumsOf
    <3>4. f[x] = f1[x] + f2[x] /\ f1[x] \in Int /\ f2[x] \in Int
      BY <3>1 DEF f
    <3>5. QED
      BY <3>2, <3>3, <3>4
  <2>3. QED
    BY <2>1, <2>2
<1> HIDE DEF X
<1>6. D \in X
  BY Zenon, <1>5, SubsetsOf
<1>7. g[D] = g1[D] + g2[D]
  BY <1>6 DEF X
<1>8. SumFunction(f) = g[D] /\ SumFunction(f1) = g1[D] /\ SumFunction(f2) = g2[D]
  BY <1>1, <1>2, <1>3, <1>4, SumIs
<1>9. QED
  BY <1>7, <1>8 DEF f

(* A family that is smaller everywhere has a smaller sum.                  *)
LEMMA SumOrder ==
  ASSUME NEW D, IsFiniteSet(D), NEW f1 \in [D -> Int], NEW f2 \in [D -> Int],
         \A x \in D : f1[x] <= f2[x]
  PROVE  SumFunction(f1) <= SumFunction(f2)
<1>2. PICK g1 : SumsOf(g1, f1, D)
  BY SumsExist
<1>3. PICK g2 : SumsOf(g2, f2, D)
  BY SumsExist
<1> DEFINE X == {s \in SUBSET D : g1[s] <= g2[s]}
<1>5. ASSUME NEW s \in SUBSET D, \A x \in s : s \ {x} \in X
      PROVE  s \in X
  <2>1. CASE s = {}
    BY <1>2, <1>3, <2>1 DEF SumsOf
  <2>2. CASE s # {}
    <3>1. PICK x \in s : TRUE
      BY <2>2
    <3>2. g1[s \ {x}] <= g2[s \ {x}] /\ s \ {x} \in SUBSET D
      BY <1>5, <3>1
    <3>3. /\ g1[s] = f1[x] + g1[s \ {x}] /\ g2[s] = f2[x] + g2[s \ {x}]
          /\ g1[s \ {x}] \in Int /\ g2[s \ {x}] \in Int
      BY Zenon, <1>2, <1>3, <3>1 DEF SumsOf
    <3>4. f1[x] <= f2[x] /\ f1[x] \in Int /\ f2[x] \in Int
      BY <3>1
    <3>5. QED
      BY <3>2, <3>3, <3>4
  <2>3. QED
    BY <2>1, <2>2
<1> HIDE DEF X
<1>6. D \in X
  BY Zenon, <1>5, SubsetsOf
<1>7. g1[D] <= g2[D]
  BY <1>6 DEF X
<1>8. SumFunction(f1) = g1[D] /\ SumFunction(f2) = g2[D]
  BY <1>2, <1>3, SumIs
<1>9. QED
  BY <1>7, <1>8

(* A sum of zeros is 0.                                                    *)
LEMMA SumZero ==
  ASSUME NEW D, IsFiniteSet(D), NEW f \in [D -> Int], \A x \in D : f[x] = 0
  PROVE  SumFunction(f) = 0
<1>1. [x \in D |-> f[x] + f[x]] = f
  OBVIOUS
<1>2. SumFunction(f) = SumFunction(f) + SumFunction(f) /\ SumFunction(f) \in Int
  BY <1>1, SumPlus, SumType
<1>3. \A y \in Int : y = y + y => y = 0
  OBVIOUS
<1>4. QED
  BY Zenon, <1>2, <1>3

(* A common factor can be taken out of a sum.                              *)
LEMMA SumTimes ==
  ASSUME NEW D, IsFiniteSet(D), NEW f \in [D -> Int], NEW k \in Int, NEW kf \in [D -> Int],
         \A x \in D : kf[x] = k * f[x]
  PROVE  SumFunction(kf) = k * SumFunction(f)
<1>1. PICK g : SumsOf(g, f, D)
  BY SumsExist
<1> DEFINE kg == [s \in SUBSET D |-> k * g[s]]
<1>2. ASSUME NEW s \in SUBSET D, NEW x \in s
      PROVE  k * g[s] = k * f[x] + k * g[s \ {x}]
  <2>1. g[s] = f[x] + g[s \ {x}] /\ f[x] \in Int /\ g[s \ {x}] \in Int
    BY <1>1, <1>2 DEF SumsOf
  <2>2. \A y, z \in Int : k * (y + z) = k * y + k * z
    OBVIOUS
  <2> QED
    BY <2>1, <2>2
<1>3. kg \in [SUBSET D -> Int] /\ kg[{}] = 0
  BY <1>1 DEF SumsOf
<1>4. ASSUME NEW s \in SUBSET D, NEW x \in s
      PROVE  kg[s] = kf[x] + kg[s \ {x}]
  <2>1. kg[s] = k * g[s] /\ kg[s \ {x}] = k * g[s \ {x}] /\ kf[x] = k * f[x]
    OBVIOUS
  <2> QED
    BY <1>2, <2>1
<1>5. SumsOf(kg, kf, D)
  BY <1>3, <1>4 DEF SumsOf
<1>6. SumFunction(kf) = kg[D] /\ SumFunction(f) = g[D]
  BY <1>1, <1>5, SumIs
<1> QED
  BY <1>6

(* A sum of natural numbers is one, and no smaller than any of them.       *)
LEMMA SumNat ==
  ASSUME NEW D, IsFiniteSet(D), NEW f \in [D -> Nat]
  PROVE  SumFunction(f) \in Nat /\ \A x \in D : f[x] <= SumFunction(f)
<1>0. f \in [D -> Int]
  OBVIOUS
<1>1. ASSUME NEW E, IsFiniteSet(E), NEW h \in [E -> Nat] PROVE SumFunction(h) \in Nat
  <2> DEFINE z == [x \in E |-> 0]
  <2>1. z \in [E -> Int] /\ h \in [E -> Int] /\ \A x \in E : z[x] = 0 /\ z[x] <= h[x]
    OBVIOUS
  <2> HIDE DEF z
  <2>2. SumFunction(z) = 0
    BY <1>1, <2>1, SumZero
  <2>3. SumFunction(z) <= SumFunction(h) /\ SumFunction(h) \in Int
    BY <1>1, <2>1, SumOrder, SumType
  <2>4. QED
    BY <2>2, <2>3
<1>2. ASSUME NEW x \in D PROVE f[x] <= SumFunction(f)
  <2> DEFINE r == [y \in D \ {x} |-> f[y]]
  <2>1. IsFiniteSet(D \ {x}) /\ r \in [D \ {x} -> Nat]
    BY FS_RemoveElement
  <2>2. r \in [D \ {x} -> Int] /\ \A y \in D \ {x} : r[y] = f[y]
    OBVIOUS
  <2> HIDE DEF r
  <2>3. SumFunction(f) = f[x] + SumFunction(r)
    BY <1>0, <2>2, SumTakeOut
  <2>4. SumFunction(r) \in Nat
    BY <1>1, <2>1
  <2>5. QED
    BY <2>3, <2>4
<1>3. QED
  BY <1>1, <1>2
-----------------------------------------------------------------------------
\* u[n] has the picked ones of the first n elements of s.
PicksOf(u, s, T, X) ==
  /\ u \in [0 .. Len(s) -> Seq(X)] /\ u[0] = <<>>
  /\ \A n \in 1 .. Len(s) : u[n] = IF n \in T THEN Append(u[n - 1], s[n]) ELSE u[n - 1]

(* Picked(s, T) is what comes of taking the elements one by one.           *)
LEMMA PickedIs ==
  ASSUME NEW X, NEW s \in Seq(X), NEW T
  PROVE  \E u : PicksOf(u, s, T, X) /\ Picked(s, T) = u[Len(s)]
<1> DEFINE Step(u, n) == IF n = 0 THEN <<>>
                         ELSE IF n \in T THEN Append(u[n - 1], s[n]) ELSE u[n - 1]
           G == {m \in 0 .. Len(s) : \E u \in [0 .. m -> Seq(X)] : \A n \in 0 .. m : u[n] = Step(u, n)}
<1>1. 0 \in G
  <2> DEFINE u == [n \in 0 .. 0 |-> <<>>]
  <2>1. u \in [0 .. 0 -> Seq(X)] /\ \A n \in 0 .. 0 : u[n] = Step(u, n)
    OBVIOUS
  <2> HIDE DEF u
  <2>2. QED
    BY <2>1
<1>2. ASSUME NEW m \in 0 .. Len(s) - 1, m \in G PROVE m + 1 \in G
  <2>1. PICK v \in [0 .. m -> Seq(X)] : \A n \in 0 .. m : v[n] = Step(v, n)
    BY SMTT(30), <1>2
  <2> DEFINE last == IF m + 1 \in T THEN Append(v[m], s[m + 1]) ELSE v[m]
             u == [n \in 0 .. m + 1 |-> IF n = m + 1 THEN last ELSE v[n]]
  <2>2. last \in Seq(X)
    <3>1. v[m] \in Seq(X) /\ s[m + 1] \in X
      BY <2>1
    <3>2. QED
      BY <3>1
  <2> HIDE DEF last
  <2>3. u \in [0 .. m + 1 -> Seq(X)]
    BY <2>1, <2>2
  <2>4. ASSUME NEW n \in 0 .. m + 1 PROVE u[n] = Step(u, n)
    <3>1. CASE n = m + 1
      <4>1. u[n] = last /\ u[n - 1] = v[m] /\ n # 0 /\ n - 1 = m
        BY <3>1
      <4> HIDE DEF u
      <4>2. QED
        BY <3>1, <4>1 DEF last
    <3>2. CASE n \in 0 .. m
      <4>1. u[n] = v[n] /\ (n # 0 => u[n - 1] = v[n - 1])
        BY <3>2
      <4>2. v[n] = Step(v, n)
        BY Zenon, <2>1, <3>2
      <4> HIDE DEF u
      <4>3. QED
        BY <4>1, <4>2
    <3>3. QED
      BY <3>1, <3>2
  <2> HIDE DEF u
  <2>5. m + 1 \in 0 .. Len(s)
    OBVIOUS
  <2>6. QED
    BY Zenon, <2>3, <2>4, <2>5
<1>3. Len(s) \in G
  <2> HIDE DEF G
  <2>1. \A m \in 0 .. Len(s) : m \in G
    BY SMTT(30), <1>1, <1>2, UpTo
  <2>2. QED
    BY <2>1
<1>4. PICK v \in [0 .. Len(s) -> Seq(X)] : \A n \in 0 .. Len(s) : v[n] = Step(v, n)
  BY <1>3
<1> DEFINE Eq(u) == u = [n \in 0 .. Len(s) |-> IF n = 0 THEN <<>>
                           ELSE IF n \in T THEN Append(u[n - 1], s[n]) ELSE u[n - 1]]
           w == CHOOSE u : Eq(u)
<1>5. Picked(s, T) = w[Len(s)]
  BY Zenon DEF Picked
<1>6. Eq(v)
  BY <1>4
<1>7. Eq(w)
  BY Zenon, <1>6
<1> HIDE DEF w
<1>8. \A n \in 0 .. Len(s) : w[n] = Step(w, n)
  BY Zenon, <1>7
<1> DEFINE H == {m \in 0 .. Len(s) : w[m] = v[m]}
<1>9. 0 \in H
  BY <1>4, <1>8
<1>10. ASSUME NEW m \in 0 .. Len(s) - 1, m \in H PROVE m + 1 \in H
  <2>1. m + 1 \in 0 .. Len(s) /\ m + 1 # 0 /\ (m + 1) - 1 = m
    OBVIOUS
  <2>2. w[m + 1] = Step(w, m + 1) /\ v[m + 1] = Step(v, m + 1)
    BY Zenon, <1>4, <1>8, <2>1
  <2>3. w[m] = v[m]
    BY <1>10
  <2>4. QED
    BY <2>1, <2>2, <2>3
<1>11. Len(s) \in H
  <2> HIDE DEF H
  <2>1. Len(s) \in Nat /\ \A m \in 0 .. Len(s) - 1 : m \in H => m + 1 \in H
    BY <1>10
  <2>2. \A m \in 0 .. Len(s) : m \in H
    BY Zenon, <1>9, <2>1, UpTo
  <2>3. QED
    BY <2>1, <2>2
<1>12. PicksOf(v, s, T, X)
  <2>1. v[0] = <<>>
    BY <1>4
  <2>2. ASSUME NEW n \in 1 .. Len(s)
        PROVE  v[n] = IF n \in T THEN Append(v[n - 1], s[n]) ELSE v[n - 1]
    <3>1. n \in 0 .. Len(s) /\ n # 0
      OBVIOUS
    <3>2. v[n] = Step(v, n)
      BY <1>4, <3>1
    <3>3. QED
      BY <3>1, <3>2
  <2>3. QED
    BY <2>1, <2>2 DEF PicksOf
<1>13. QED
  BY <1>5, <1>11, <1>12
(* What is picked is of s, at positions of T, and in the order it had.     *)
LEMMA PickedFrom ==
  ASSUME NEW X, NEW s \in Seq(X), NEW T
  PROVE  /\ Picked(s, T) \in Seq(X)
         /\ \E m \in [DOMAIN Picked(s, T) -> T \cap DOMAIN s] :
              /\ \A j \in DOMAIN Picked(s, T) : Picked(s, T)[j] = s[m[j]]
              /\ \A i, j \in DOMAIN Picked(s, T) : i < j => m[i] < m[j]
<1>1. PICK u : PicksOf(u, s, T, X) /\ Picked(s, T) = u[Len(s)]
  BY PickedIs
<1> DEFINE From(m, p, n) ==
             /\ m \in [1 .. Len(p) -> T \cap 1 .. n]
             /\ \A j \in 1 .. Len(p) : p[j] = s[m[j]]
             /\ \A i, j \in 1 .. Len(p) : i < j => m[i] < m[j]
           G == {n \in 0 .. Len(s) : \E m : From(m, u[n], n)}
<1>2. 0 \in G
  <2> DEFINE m == [j \in 1 .. 0 |-> 0]
  <2>1. From(m, u[0], 0)
    BY <1>1 DEF PicksOf
  <2> HIDE DEF m, From
  <2>2. QED
    BY <2>1
<1>3. ASSUME NEW n \in 0 .. Len(s) - 1, n \in G PROVE n + 1 \in G
  <2>0. n + 1 \in 1 .. Len(s) /\ n \in 0 .. Len(s) /\ n + 1 \in 0 .. Len(s) /\ (n + 1) - 1 = n
    OBVIOUS
  <2>1. PICK m : From(m, u[n], n)
    BY <1>3
  <2>2. u[n] \in Seq(X) /\ s[n + 1] \in X
    BY <1>1, <2>0 DEF PicksOf
  <2>3. u[n + 1] = IF n + 1 \in T THEN Append(u[n], s[n + 1]) ELSE u[n]
    BY <1>1, <2>0 DEF PicksOf
  <2>4. CASE n + 1 \notin T
    <3>1. From(m, u[n + 1], n + 1)
      BY <2>0, <2>1, <2>3, <2>4
    <3> HIDE DEF From
    <3>2. QED
      BY <2>0, <3>1
  <2>5. CASE n + 1 \in T
    <3> DEFINE p == u[n]
               q == Append(p, s[n + 1])
               w == [j \in 1 .. Len(q) |-> IF j = Len(q) THEN n + 1 ELSE m[j]]
    <3>1. /\ Len(q) = Len(p) + 1 /\ q[Len(q)] = s[n + 1] /\ Len(p) \in Nat
          /\ \A j \in 1 .. Len(p) : q[j] = p[j] /\ j \in 1 .. Len(q) /\ j # Len(q)
      BY <2>2
    <3> HIDE DEF q, p
    <3>2. From(m, p, n)
      BY <2>1 DEF p
    <3>3. w \in [1 .. Len(q) -> T \cap 1 .. n + 1]
      BY <2>0, <2>5, <3>1, <3>2
    <3>4. \A j \in 1 .. Len(q) : q[j] = s[w[j]]
      BY <3>1, <3>2
    <3>5. ASSUME NEW i \in 1 .. Len(q), NEW j \in 1 .. Len(q), i < j PROVE w[i] < w[j]
      <4>1. i \in 1 .. Len(p) /\ w[i] = m[i] /\ m[i] \in 1 .. n
        BY <3>1, <3>2, <3>5
      <4>2. CASE j = Len(q)
        BY <2>0, <4>1, <4>2
      <4>3. CASE j # Len(q)
        <5>1. j \in 1 .. Len(p) /\ w[j] = m[j]
          BY <3>1, <4>3
        <5>2. QED
          BY <3>2, <3>5, <4>1, <5>1
      <4>4. QED
        BY <4>2, <4>3
    <3> HIDE DEF w
    <3>6. From(w, q, n + 1)
      BY <3>3, <3>4, <3>5
    <3>7. u[n + 1] = q
      BY <2>3, <2>5 DEF q, p
    <3> HIDE DEF From
    <3>8. QED
      BY <2>0, <3>6, <3>7
  <2>6. QED
    BY <2>4, <2>5
<1>4. Len(s) \in G
  <2> HIDE DEF G
  <2>1. Len(s) \in Nat /\ \A n \in 0 .. Len(s) - 1 : n \in G => n + 1 \in G
    BY <1>3
  <2>2. \A n \in 0 .. Len(s) : n \in G
    BY SMTT(30), <1>2, <2>1, UpTo
  <2>3. QED
    BY <2>1, <2>2
<1>5. PICK m : From(m, Picked(s, T), Len(s))
  BY <1>1, <1>4
<1>6. Picked(s, T) \in Seq(X)
  BY <1>1 DEF PicksOf
<1>7. DOMAIN Picked(s, T) = 1 .. Len(Picked(s, T)) /\ DOMAIN s = 1 .. Len(s)
  BY <1>6
<1>8. QED
  BY <1>5, <1>6, <1>7

(* p gives the weights of the elements of s, and q of those at T only.     *)
Weights(p, s, W) == p \in [DOMAIN s -> Int] /\ \A j \in DOMAIN s : p[j] = W[s[j]]
WeightsAt(q, s, T, W) ==
  q \in [DOMAIN s -> Int] /\ \A k \in DOMAIN s : q[k] = IF k \in T THEN W[s[k]] ELSE 0

(* What is picked weighs what it weighs in s.                              *)
LEMMA PickedWeighs ==
  ASSUME NEW X, NEW s \in Seq(X), NEW T, NEW W \in [X -> Int],
         NEW p, NEW q, Weights(p, Picked(s, T), W), WeightsAt(q, s, T, W)
  PROVE  SumFunction(p) = SumFunction(q)
<1>1. PICK u : PicksOf(u, s, T, X) /\ Picked(s, T) = u[Len(s)]
  BY PickedIs
<1> DEFINE picks(n) == [j \in 1 .. Len(u[n]) |-> W[u[n][j]]]
           parts(n) == [k \in 1 .. n |-> IF k \in T THEN W[s[k]] ELSE 0]
           G == {n \in 0 .. Len(s) : SumFunction(picks(n)) = SumFunction(parts(n))}
<1>2. ASSUME NEW n \in 0 .. Len(s)
      PROVE  /\ u[n] \in Seq(X) /\ Len(u[n]) \in Nat /\ IsFiniteSet(1 .. Len(u[n]))
             /\ picks(n) \in [1 .. Len(u[n]) -> Int]
             /\ parts(n) \in [1 .. n -> Int] /\ IsFiniteSet(1 .. n)
  <2>1. u[n] \in Seq(X)
    BY SMTT(30), <1>1 DEF PicksOf
  <2>2. Len(u[n]) \in Nat /\ \A j \in 1 .. Len(u[n]) : u[n][j] \in X
    BY <2>1
  <2>3. IsFiniteSet(1 .. Len(u[n])) /\ IsFiniteSet(1 .. n)
    <3>1. Len(u[n]) \in Int /\ n \in Int
      BY <2>2
    <3> QED
      BY ONLY <3>1, FirstFinite
  <2>4. \A k \in 1 .. n : s[k] \in X
    OBVIOUS
  <2>5. QED
    BY <2>1, <2>2, <2>3, <2>4
<1>3. 0 \in G
  <2>1. u[0] = <<>> /\ 1 .. Len(u[0]) = {} /\ 1 .. 0 = {} /\ 0 \in 0 .. Len(s)
    BY <1>1 DEF PicksOf
  <2>2. SumFunction(picks(0)) = 0 /\ SumFunction(parts(0)) = 0
    <3> HIDE DEF picks, parts
    <3>1. QED
      BY <1>2, <2>1, SumType
  <2>3. QED
    BY <2>1, <2>2
<1>4. ASSUME NEW n \in 0 .. Len(s) - 1, n \in G PROVE n + 1 \in G
  <2>0. n + 1 \in 1 .. Len(s) /\ n \in 0 .. Len(s) /\ n + 1 \in 0 .. Len(s) /\ (n + 1) - 1 = n
    OBVIOUS
  <2>1. u[n + 1] = IF n + 1 \in T THEN Append(u[n], s[n + 1]) ELSE u[n]
    BY <1>1, <2>0 DEF PicksOf
  <2>2. SumFunction(parts(n + 1)) = SumFunction(parts(n)) + parts(n + 1)[n + 1]
    <3>1. \A y \in 1 .. n : parts(n + 1)[y] = parts(n)[y]
      BY <2>0
    <3> HIDE DEF parts
    <3>2. parts(n) \in [1 .. n -> Int] /\ parts(n + 1) \in [1 .. n + 1 -> Int] /\ n \in Nat
      BY <1>2, <2>0
    <3>3. QED
      BY Zenon, <3>1, <3>2, SumNext
  <2>3. parts(n + 1)[n + 1] = IF n + 1 \in T THEN W[s[n + 1]] ELSE 0
    BY <2>0
  <2>4. SumFunction(parts(n)) \in Int /\ SumFunction(picks(n)) = SumFunction(parts(n))
    <3>1. SumFunction(parts(n)) \in Int
      <4> HIDE DEF parts
      <4>1. QED
        BY <1>2, <2>0, SumType
    <3>2. QED
      BY <1>4, <3>1
  <2>5. CASE n + 1 \notin T
    <3>1. picks(n + 1) = picks(n)
      BY <2>1, <2>5
    <3> HIDE DEF picks, parts
    <3>2. SumFunction(picks(n + 1)) = SumFunction(parts(n + 1))
      BY <2>2, <2>3, <2>4, <2>5, <3>1
    <3>3. QED
      BY <2>0, <3>2
  <2>6. CASE n + 1 \in T
    <3> DEFINE l == Len(u[n])
    <3>1. /\ l \in Nat /\ Len(u[n + 1]) = l + 1 /\ u[n + 1][l + 1] = s[n + 1]
          /\ \A y \in 1 .. l : u[n + 1][y] = u[n][y]
      BY SMTT(30), <1>2, <2>0, <2>1, <2>6
    <3>3. \A y \in 1 .. l : picks(n + 1)[y] = picks(n)[y]
      BY ONLY SMTT(30), <3>1
    <3>4. picks(n + 1)[l + 1] = W[s[n + 1]]
      BY SMTT(30), <3>1
    <3>5. /\ picks(n) \in [1 .. l -> Int] /\ IsFiniteSet(1 .. l)
          /\ picks(n + 1) \in [1 .. l + 1 -> Int]
      <4> HIDE DEF picks
      <4>1. QED
        BY SMTT(30), <1>2, <2>0, <3>1
    <3> HIDE DEF picks, l
    <3>6. SumFunction(picks(n + 1)) = SumFunction(picks(n)) + picks(n + 1)[l + 1]
      BY Zenon, <3>1, <3>3, <3>5, SumNext
    <3>7. SumFunction(picks(n + 1)) = SumFunction(parts(n + 1))
      BY <2>2, <2>3, <2>4, <2>6, <3>4, <3>6
    <3> HIDE DEF parts
    <3>8. QED
      BY <2>0, <3>7
  <2>7. QED
    BY <2>5, <2>6
<1>5. Len(s) \in G
  <2> HIDE DEF G
  <2>1. Len(s) \in Nat /\ \A n \in 0 .. Len(s) - 1 : n \in G => n + 1 \in G
    BY <1>4
  <2>2. \A n \in 0 .. Len(s) : n \in G
    BY Zenon, <1>3, <2>1, UpTo
  <2>3. QED
    BY <2>1, <2>2
<1>6. DOMAIN Picked(s, T) = 1 .. Len(u[Len(s)]) /\ DOMAIN s = 1 .. Len(s)
  BY <1>1, <1>2
<1>7. p = picks(Len(s)) /\ q = parts(Len(s))
  BY Zenon, <1>1, <1>6 DEF Weights, WeightsAt
<1>8. QED
  BY <1>5, <1>7
=============================================================================
