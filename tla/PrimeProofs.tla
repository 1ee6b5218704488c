---------------------------- MODULE PrimeProofs -----------------------------
(***************************************************************************)
(* What Prime counts, for any value of the constants: the money of the     *)
(* ledger's accounts, the rebate on the fees of found blocks, and the      *)
(* sessions at its door.                                                   *)
(***************************************************************************)
EXTENDS Accounts, RebateBook, Connections, MoneyFacts

(***************************************************************************)
(* The inductive invariant.                                                *)
(***************************************************************************)
LEMMA InitInv == Init => IInv
<1> SUFFICES ASSUME Init PROVE IInv
  OBVIOUS
<1> USE AmountAssumption
<1>1. None \in [Ident -> Nat]
  BY DEF None
<1>2. NoBooks \in BookRecord /\ ~NoBooks.debits_live /\ ~NoBooks.credits_live
  BY <1>1 DEF NoBooks, BookRecord
<1>3. \A i \in Ident : acct[i].carry \in Nat /\ acct[i].debt = 0 /\ held[i] = 0
  BY Zenon DEF Init, None
<1>4. TypeOK
  BY <1>1, <1>2, <1>3 DEF Init, TypeOK, Account
<1>5. Conservation /\ NeverBoth
  BY <1>3, <1>4 DEF Init, Conservation, NeverBoth, Net
<1>6. BooksExact
  BY <1>2 DEF Init, BooksExact
<1> QED
  BY <1>4, <1>5, <1>6 DEF IInv

(* Every block's books are exact.                                          *)
LEMMA InvExact ==
  ASSUME IInv, NEW b \in Block
  PROVE  books[b] \in BookRecord /\ Exact(books[b])
  BY DEF IInv, TypeOK, BooksExact, Exact

(* Replacing one block's books by exact ones keeps BooksExact.             *)
LEMMA ExactStep ==
  ASSUME IInv, NEW b \in Block, NEW k \in BookRecord, Exact(k),
         books' = [books EXCEPT ![b] = k]
  PROVE  books' \in [Block -> BookRecord] /\ BooksExact'
<1>1. books' \in [Block -> BookRecord]
  BY DEF IInv, TypeOK
<1>2. \A c \in Block : Exact(books'[c])
  BY InvExact DEF IInv, TypeOK
<1> QED
  BY <1>1, <1>2 DEF BooksExact, Exact

(* A block found: its debits are booked.                                   *)
LEMMA CandidateInv ==
  ASSUME IInv, NEW b \in Block, NEW d \in [Ident -> Nat], NEW c \in [Ident -> Nat],
         Candidate(b, d, c)
  PROVE  IInv'
<1> DEFINE k == [NoBooks EXCEPT !.seen = TRUE, !.debit = d, !.credit = c]
<1>1. k \in BookRecord /\ ~k.debits_live /\ ~k.credits_live /\ k.debit = d
  BY Zenon DEF NoBooks, None, BookRecord
<1>2. Exact(k)
  BY <1>1 DEF Exact
<1>3. /\ acct \in [Ident -> Account] /\ held \in [Ident -> Nat]
      /\ claim \in [Ident -> Int]
      /\ \A i \in Ident : Net(acct[i]) \in Int
      /\ \A i \in Ident : Apart(acct[i])
      /\ \A i \in Ident : Net(acct[i]) + held[i] = claim[i]
  BY DEF IInv, TypeOK, Account, Net, NeverBoth, Apart, Conservation
<1>4. /\ books' = [books EXCEPT ![b] = book_debits(k, acct, held)]
      /\ acct' = after_debits(k, acct, held)
      /\ held' = held_after_debits(k, acct, held)
      /\ claim' = [i \in Ident |-> claim[i] - d[i]]
  BY DEF Candidate
<1> HIDE DEF k
<1>5. /\ book_debits(k, acct, held) \in BookRecord
      /\ Exact(book_debits(k, acct, held))
      /\ acct' \in [Ident -> Account] /\ held' \in [Ident -> Nat]
      /\ \A i \in Ident : /\ Net(acct'[i]) + held'[i] = Net(acct[i]) + held[i] - d[i]
                          /\ Apart(acct'[i])
  BY <1>1, <1>2, <1>3, <1>4, BlockDebits
<1>6. books' \in [Block -> BookRecord] /\ BooksExact'
  BY Zenon, <1>4, <1>5, ExactStep
<1>7. Conservation' /\ claim' \in [Ident -> Int]
  BY <1>3, <1>4, <1>5 DEF Conservation
<1>8. NeverBoth'
  BY <1>5 DEF NeverBoth, Apart
<1> QED
  BY <1>5, <1>6, <1>7, <1>8 DEF IInv, TypeOK

(* A block confirmed: its credits are booked, and its debits if they were  *)
(* undone.                                                                 *)
LEMMA ConfirmInv ==
  ASSUME IInv, NEW b \in Block, Confirm(b)
  PROVE  IInv'
<1> DEFINE k  == books[b]
           a1 == after_debits(k, acct, held)
           h1 == held_after_debits(k, acct, held)
           k1 == book_debits(k, acct, held)
           k2 == book_credits(k1, a1)
<1>1. k \in BookRecord /\ Exact(k)
  BY InvExact
<1>2. /\ acct \in [Ident -> Account] /\ held \in [Ident -> Nat]
      /\ claim \in [Ident -> Int]
      /\ \A i \in Ident : Net(acct[i]) \in Int
      /\ \A i \in Ident : Apart(acct[i])
      /\ \A i \in Ident : Net(acct[i]) + held[i] = claim[i]
  BY DEF IInv, TypeOK, Account, Net, NeverBoth, Apart, Conservation
<1>3. /\ books' = [books EXCEPT ![b] = k2]
      /\ acct' = after_credits(k1, a1)
      /\ held' = h1
      /\ claim' = [i \in Ident |-> claim[i] + Booked(k2, i) - Booked(k, i)]
  BY DEF Confirm
<1> HIDE DEF k, a1, h1, k1, k2
<1>4. /\ k1 \in BookRecord /\ Exact(k1)
      /\ k1.debits_live /\ k1.credits_live = k.credits_live
      /\ k1.debit = k.debit /\ k1.credit = k.credit
      /\ a1 \in [Ident -> Account] /\ h1 \in [Ident -> Nat]
      /\ \A i \in Ident :
           /\ Net(a1[i]) + h1[i]
                = Net(acct[i]) + held[i] - (IF k.debits_live THEN 0 ELSE k.debit[i])
           /\ Apart(a1[i])
  BY <1>1, <1>2, BlockDebits DEF a1, h1, k1
<1>5. /\ k2 \in BookRecord /\ Exact(k2)
      /\ k2.credits_live /\ k2.debits_live = k1.debits_live
      /\ k2.debit = k1.debit /\ k2.credit = k1.credit
      /\ acct' \in [Ident -> Account]
      /\ \A i \in Ident :
           /\ Net(acct'[i]) = Net(a1[i]) + (IF k1.credits_live THEN 0 ELSE k1.credit[i])
           /\ Apart(acct'[i])
  <2>1. /\ book_credits(k1, a1) \in BookRecord
        /\ Exact(book_credits(k1, a1))
        /\ book_credits(k1, a1).credits_live
        /\ book_credits(k1, a1).debits_live = k1.debits_live
        /\ book_credits(k1, a1).debit = k1.debit
        /\ book_credits(k1, a1).credit = k1.credit
        /\ after_credits(k1, a1) \in [Ident -> Account]
        /\ \A i \in Ident :
             /\ Net(after_credits(k1, a1)[i])
                  = Net(a1[i]) + (IF k1.credits_live THEN 0 ELSE k1.credit[i])
             /\ Apart(a1[i]) => Apart(after_credits(k1, a1)[i])
    BY Zenon, <1>4, BlockCredits
  <2> QED
    BY <1>3, <1>4, <2>1, Zenon DEF k2
<1>6. books' \in [Block -> BookRecord] /\ BooksExact'
  BY Zenon, <1>3, <1>5, ExactStep
<1>7. \A i \in Ident : /\ k.debit[i] \in Nat /\ k.credit[i] \in Nat
                       /\ Net(a1[i]) \in Int /\ Net(acct'[i]) \in Int
                       /\ h1[i] \in Nat /\ held[i] \in Nat
  BY <1>1, <1>2, <1>4, <1>5 DEF BookRecord, Account, Net
<1>8. \A i \in Ident : Booked(k2, i) = k.credit[i] - k.debit[i]
  BY <1>4, <1>5 DEF Booked
<1>9. Conservation' /\ claim' \in [Ident -> Int]
  <2>1. \A i \in Ident : Booked(k, i) \in Int
    BY <1>7 DEF Booked
  <2>2. claim' \in [Ident -> Int]
    BY SMTT(30), <1>2, <1>3, <1>7, <1>8, <2>1
  <2>3. ASSUME NEW i \in Ident
        PROVE  Net(acct'[i]) + held'[i] = claim'[i]
    <3>1. Net(acct'[i]) + h1[i] = Net(acct[i]) + held[i]
             - (IF k.debits_live THEN 0 ELSE k.debit[i])
             + (IF k.credits_live THEN 0 ELSE k.credit[i])
      BY <1>2, <1>4, <1>5, <1>7
    <3>2. claim'[i] = claim[i] + (k.credit[i] - k.debit[i]) - Booked(k, i)
      BY <1>3, <1>8
    <3> QED
      BY SMTT(30), <1>2, <1>3, <1>7, <3>1, <3>2 DEF Booked
  <2> QED
    BY <2>2, <2>3 DEF Conservation
<1>10. NeverBoth'
  BY <1>5 DEF NeverBoth, Apart
<1> QED
  BY <1>3, <1>4, <1>5, <1>6, <1>9, <1>10 DEF IInv, TypeOK
(* A block orphaned: what it booked is undone.                             *)
LEMMA OrphanInv ==
  ASSUME IInv, NEW b \in Block, Orphan(b)
  PROVE  IInv'
<1> DEFINE k == books[b]
<1>1. k \in BookRecord /\ Exact(k)
  BY InvExact
<1>2. /\ acct \in [Ident -> Account] /\ held \in [Ident -> Nat]
      /\ claim \in [Ident -> Int]
      /\ \A i \in Ident : Net(acct[i]) \in Int
      /\ \A i \in Ident : Apart(acct[i])
      /\ \A i \in Ident : Net(acct[i]) + held[i] = claim[i]
  BY DEF IInv, TypeOK, Account, Net, NeverBoth, Apart, Conservation
<1>3. /\ books' = [books EXCEPT ![b] = unbook(k)]
      /\ acct' = undebited(k, uncredited(k, acct))
      /\ claim' = [i \in Ident |-> claim[i] - Booked(k, i) + short(k, acct)[i]]
      /\ held' = held
  BY DEF Orphan
<1> HIDE DEF k
<1>4. /\ unbook(k) \in BookRecord
      /\ ~unbook(k).debits_live /\ ~unbook(k).credits_live
      /\ acct' \in [Ident -> Account]
      /\ short(k, acct) \in [Ident -> Nat]
      /\ \A i \in Ident :
           /\ Net(acct'[i]) = Net(acct[i]) - Booked(k, i) + short(k, acct)[i]
           /\ Apart(acct'[i])
  BY SMTT(30), <1>1, <1>2, <1>3, BlockUnbook
<1>5. Exact(unbook(k))
  BY <1>4 DEF Exact
<1>6. books' \in [Block -> BookRecord] /\ BooksExact'
  BY Zenon, <1>3, <1>4, <1>5, ExactStep
<1>7. \A i \in Ident : Booked(k, i) \in Int
  BY <1>1 DEF Booked, BookRecord
<1>8. Conservation' /\ claim' \in [Ident -> Int]
  BY <1>2, <1>3, <1>4, <1>7 DEF Conservation
<1>9. NeverBoth'
  BY <1>4 DEF NeverBoth, Apart
<1> QED
  BY SMTT(30), <1>2, <1>3, <1>4, <1>6, <1>8, <1>9 DEF IInv, TypeOK

(* Balances held for a payout by hand.                                     *)
LEMMA HoldInv ==
  ASSUME IInv, NEW S \in SUBSET Ident, Hold(S)
  PROVE  IInv'
<1>1. /\ acct \in [Ident -> Account] /\ held \in [Ident -> Nat]
      /\ \A i \in Ident : acct[i].carry \in Nat /\ acct[i].debt \in Nat
  BY DEF IInv, TypeOK, Account
<1>2. \A i \in Ident : acct'[i] = IF i \in S THEN [carry |-> 0, debt |-> acct[i].debt]
                                             ELSE acct[i]
  BY <1>1 DEF Hold, Account
<1>3. acct' \in [Ident -> Account] /\ held' \in [Ident -> Nat]
  BY SMTT(30), <1>1, <1>2 DEF Hold, Account
<1>4. TypeOK'
  BY <1>3 DEF IInv, TypeOK, Hold
<1>5. Conservation'
  BY <1>1, <1>2 DEF IInv, Conservation, Hold, Net
<1>6. NeverBoth'
  <2> SUFFICES ASSUME NEW i \in Ident PROVE acct'[i].carry = 0 \/ acct'[i].debt = 0
    BY DEF NeverBoth
  <2>1. CASE i \in S
    <3>1. acct'[i] = [carry |-> 0, debt |-> acct[i].debt]
      BY <1>2, <2>1
    <3> QED
      BY <3>1
  <2>2. CASE i \notin S
    <3>1. acct'[i] = acct[i]
      BY Zenon, <1>2, <2>2
    <3> QED
      BY <3>1 DEF IInv, NeverBoth
  <2> QED
    BY <2>1, <2>2
<1>7. BooksExact'
  BY DEF IInv, BooksExact, Hold
<1> QED
  BY <1>4, <1>5, <1>6, <1>7 DEF IInv

(* A held batch put back.                                                  *)
LEMMA ReleaseInv ==
  ASSUME IInv, NEW r \in [Ident -> Nat], Release(r)
  PROVE  IInv'
<1>1. /\ acct \in [Ident -> Account] /\ held \in [Ident -> Nat]
      /\ \A i \in Ident : Net(acct[i]) \in Int /\ Apart(acct[i]) /\ r[i] <= held[i]
  BY DEF IInv, TypeOK, Account, Net, NeverBoth, Apart, Release
<1>2. \A i \in Ident : /\ restore_carry(acct[i], r[i]) \in Account
                       /\ Net(restore_carry(acct[i], r[i])) = Net(acct[i]) + r[i]
                       /\ Apart(restore_carry(acct[i], r[i]))
  BY <1>1, RestoreCarry
<1>3. acct' \in [Ident -> Account] /\ held' \in [Ident -> Nat]
  BY <1>1, <1>2 DEF Release
<1>4. TypeOK'
  BY <1>3 DEF IInv, TypeOK, Release
<1>5. Conservation'
  BY <1>1, <1>2 DEF IInv, Conservation, Release
<1>6. NeverBoth'
  BY <1>2 DEF NeverBoth, Apart, Release
<1>7. BooksExact'
  BY DEF IInv, BooksExact, Release
<1> QED
  BY <1>4, <1>5, <1>6, <1>7 DEF IInv

(* A held batch paid.                                                      *)
LEMMA FinishInv ==
  ASSUME IInv, NEW r \in [Ident -> Nat], Finish(r)
  PROVE  IInv'
<1>1. /\ acct \in [Ident -> Account] /\ held \in [Ident -> Nat] /\ claim \in [Ident -> Int]
      /\ \A i \in Ident : Net(acct[i]) \in Int /\ r[i] <= held[i]
  BY DEF IInv, TypeOK, Account, Net, Finish
<1>2. TypeOK'
  BY <1>1 DEF IInv, TypeOK, Finish
<1>3. Conservation'
  BY <1>1 DEF IInv, Conservation, Finish
<1> QED
  BY <1>2, <1>3 DEF IInv, NeverBoth, BooksExact, Finish

(* A correction by hand.                                                   *)
LEMMA AdjustInv ==
  ASSUME IInv, NEW i \in Ident, NEW d \in Int, Adjust(i, d)
  PROVE  IInv'
<1>1. /\ acct \in [Ident -> Account] /\ held \in [Ident -> Nat] /\ claim \in [Ident -> Int]
      /\ \A j \in Ident : Net(acct[j]) \in Int /\ Apart(acct[j])
  BY DEF IInv, TypeOK, Account, Net, NeverBoth, Apart
<1>2. settle_carry(acct[i], d) \in Account /\ Apart(settle_carry(acct[i], d))
  BY <1>1, SettleCarry
<1>3. Net(settle_carry(acct[i], d)) \in Int
  BY <1>2 DEF Account, Net
<1>4. TypeOK'
  BY <1>1, <1>2, <1>3 DEF IInv, TypeOK, Adjust
<1>5. Conservation'
  BY <1>1, <1>3 DEF IInv, Conservation, Adjust
<1>6. NeverBoth'
  BY <1>1, <1>2 DEF NeverBoth, Apart, Adjust
<1> QED
  BY <1>4, <1>5, <1>6 DEF IInv, BooksExact, Adjust

(* Every step keeps the invariant.                                         *)
LEMMA NextInv == IInv /\ [Next]_vars => IInv'
<1> SUFFICES ASSUME IInv, [Next]_vars PROVE IInv'
  OBVIOUS
<1> USE AmountAssumption
<1>1. CASE \E b \in Block, d, c \in [Ident -> Amount] : Candidate(b, d, c)
  BY Zenon, <1>1, CandidateInv
<1>2. CASE \E b \in Block : Confirm(b) \/ Orphan(b)
  BY <1>2, ConfirmInv, OrphanInv
<1>3. CASE \E S \in SUBSET Ident : Hold(S)
  BY <1>3, HoldInv
<1>4. CASE \E r \in HeldEntries : Release(r) \/ Finish(r)
  <2>1. HeldEntries \subseteq [Ident -> Nat]
    BY DEF HeldEntries, IInv, TypeOK
  <2> QED
    BY <1>4, <2>1, ReleaseInv, FinishInv
<1>5. CASE \E i \in Ident, s \in Amount : Adjust(i, s) \/ Adjust(i, -s)
  BY <1>5, AdjustInv
<1>6. CASE UNCHANGED vars
  BY <1>6 DEF vars, IInv, TypeOK, Conservation, NeverBoth, BooksExact
<1> QED
  BY <1>1, <1>2, <1>3, <1>4, <1>5, <1>6 DEF Next

(* The inductive invariant holds in every reachable state.                 *)
THEOREM InductiveInvariant == Spec => []IInv
  BY InitInv, NextInv, PTL DEF Spec

(* The types of the ledger's state hold for every set of identities.       *)
THEOREM TypeCorrect == Spec => []TypeOK
  BY InductiveInvariant, PTL DEF IInv

(* book_debits, book_credits, unbook and the hold operations conserve      *)
(* money, for any number of blocks and identities and any amounts.         *)
THEOREM MoneyConserved == Spec => []Conservation
  BY InductiveInvariant, PTL DEF IInv

(* No sequence of bookings, orphans, holds and corrections leaves one      *)
(* identity with a balance and a double-pay debt.                          *)
THEOREM BalanceOrDebt == Spec => []NeverBoth
  BY InductiveInvariant, PTL DEF IInv

(* A block's books always say exactly what its record asked for.           *)
THEOREM UndoIsExact == Spec => []BooksExact
  BY InductiveInvariant, PTL DEF IInv

-----------------------------------------------------------------------------
(***************************************************************************)
(* RebateBook.  The scan stays below the heights that may change, so each is *)
(* booked once; and what is booked is owed, credited or drawn by a block.  *)
(***************************************************************************)

Figures == [made : BOOLEAN, live : BOOLEAN, fee : Nat, owed_credited : Nat, deferred : Nat]
Entries == [seen : BOOLEAN, debits_live : BOOLEAN, credits_live : BOOLEAN, debited : Nat, credit : Nat]

\* The fields of the ledger as it was last flushed.
IsBooks(w) == w = [owed |-> w.owed, credited |-> w.credited, funded |-> w.funded, booked |-> w.booked]

\* The height h has had its turn: the cursor is past it, or is about to be.
Covered(h) == h <= cursor \/ (scan.pc = "cursor" /\ h = scan.h)

\* Where the scan is, below the heights the chain may still change.
ScanInv ==
  /\ buried \in Seq(ChainBlock) /\ Len(buried) <= MaxHeight
  /\ cursor \in Int /\ cursor >= -1 /\ from \in Nat /\ slips \in Nat
  /\ scan \in [pc : {"idle", "ask", "cursor"}, h : Int, end : Int]
  /\ cursor > 0 => cursor <= Len(buried) - Depth
  /\ cursor >= 0 => from <= cursor
  /\ scan.pc # "idle" =>
       /\ cursor >= 0 /\ cursor < scan.h /\ scan.h <= scan.end /\ scan.end <= Len(buried) - Depth
       /\ slips = 0 => scan.h = cursor + 1

\* n is how often a scan that never slipped books the height h.
Exactly(h, n) ==
  /\ (h > from /\ IsSolo(buried[h])) => n = 1
  /\ ~(h > from /\ IsSolo(buried[h])) => n = 0

\* How often each height has been booked, in memory and on disk.
CountInv ==
  /\ booked \in [1 .. MaxHeight -> Nat] /\ flushed.booked \in [1 .. MaxHeight -> Nat] /\ IsBooks(flushed)
  /\ \A h \in 1 .. MaxHeight :
       /\ flushed.booked[h] <= booked[h]
       /\ booked[h] <= slips + 1 /\ (~Covered(h) => booked[h] <= slips)
       /\ (slips = 0 /\ Covered(h)) => Exactly(h, booked[h])

(* The smaller of two numbers.                                             *)
LEMMA MinTwo ==
  ASSUME NEW a \in Int, NEW b \in Int
  PROVE  Min({a, b}) = IF a <= b THEN a ELSE b
  BY SMTT(30) DEF Min

(* The scan stays below the heights that may change, one block at a time,  *)
(* with its cursor just behind it.                                         *)
LEMMA ScanStep ==
  ASSUME ScanInv, [RebateNext]_rebateVars
  PROVE  ScanInv'
<1> USE DEF ScanInv
<1>0. Depth \in Nat \ {0} /\ PerPass \in Nat \ {0} /\ MaxHeight \in Nat
  BY RebateAssumption
<1>1. CASE UNCHANGED <<buried, cursor, scan, slips, from>>
  BY <1>1
<1>2. ASSUME NEW x \in ChainBlock, ChainGrows(x) PROVE ScanInv'
  BY <1>0, <1>2 DEF ChainGrows
<1>3. ASSUME NEW x \in ChainBlock, NEW y \in ChainBlock, ChainReorganises(x, y) PROVE ScanInv'
  <2>1. buried' \in Seq(ChainBlock) /\ Len(buried') = Len(buried) + 1
    BY <1>3 DEF ChainReorganises
  <2> QED
    BY <1>0, <1>3, <2>1 DEF ChainReorganises
<1>4. CASE ScanStarts
  <2> DEFINE upto == Len(buried) - Depth
             last == Min({upto, cursor + 1 + PerPass - 1})
  <2>1. upto \in Int /\ last \in Int /\ last <= upto /\ (cursor + 1 <= upto => cursor + 1 <= last)
    BY <1>0, MinTwo
  <2>2. /\ scan.pc = "idle"
        /\ IF upto > 0 /\ cursor = -1 THEN cursor' = upto /\ from' = upto
           ELSE cursor' = cursor /\ from' = from
        /\ scan' = IF cursor >= 0 /\ cursor + 1 <= upto
                   THEN [pc |-> "ask", h |-> cursor + 1, end |-> last] ELSE Idle
        /\ buried' = buried /\ slips' = slips
    BY <1>4 DEF ScanStarts
  <2> HIDE DEF upto, last
  <2>3. CASE cursor >= 0 /\ cursor + 1 <= upto
    <3>1. cursor' = cursor /\ from' = from /\ scan' = [pc |-> "ask", h |-> cursor + 1, end |-> last]
      BY <2>2, <2>3
    <3> QED
      BY SMTT(30), <1>0, <2>1, <2>2, <2>3, <3>1 DEF upto
  <2>4. CASE ~(cursor >= 0 /\ cursor + 1 <= upto)
    <3>1. scan' = Idle
      BY <2>2, <2>4
    <3> QED
      BY SMTT(30), <1>0, <2>1, <2>2, <2>4, <3>1 DEF upto, Idle
  <2> QED
    BY <2>3, <2>4
<1>5. ASSUME NEW taker \in BOOLEAN, ScanBlock(taker) PROVE ScanInv'
  BY <1>5 DEF ScanBlock
<1>6. CASE WriteCursor
  <2>1. CASE scan.h < scan.end
    <3>1. scan' = [pc |-> "ask", h |-> scan.h + 1, end |-> scan.end]
      BY Zenon, <1>6, <2>1 DEF WriteCursor, ScanOn
    <3> QED
      BY <1>0, <1>6, <2>1, <3>1 DEF WriteCursor
  <2>2. CASE ~(scan.h < scan.end)
    <3>1. scan' = Idle
      BY <1>6, <2>2 DEF WriteCursor, ScanOn
    <3> QED
      BY <1>0, <1>6, <3>1 DEF WriteCursor, Idle
  <2> QED
    BY <2>1, <2>2
<1>7. CASE CursorNotWritten
  <2>1. CASE scan.h < scan.end
    <3>1. scan' = [pc |-> "ask", h |-> scan.h + 1, end |-> scan.end]
      BY Zenon, <1>7, <2>1 DEF CursorNotWritten, ScanOn
    <3> QED
      BY <1>0, <1>7, <2>1, <3>1 DEF CursorNotWritten
  <2>2. CASE ~(scan.h < scan.end)
    <3>1. scan' = Idle
      BY <1>7, <2>2 DEF CursorNotWritten, ScanOn
    <3> QED
      BY <1>0, <1>7, <3>1 DEF CursorNotWritten, Idle
  <2> QED
    BY <2>1, <2>2
<1>8. CASE ScanFails
  BY <1>8 DEF ScanFails, Idle
<1>9. CASE KillAndRestart
  BY <1>9 DEF KillAndRestart, Idle
<1>10. CASE HousekeepingFlush
  BY SMTT(30), <1>1, <1>10 DEF HousekeepingFlush, solo
<1>11. ASSUME NEW b \in Found, NEW f \in Fee, NEW taker \in BOOLEAN, NEW live \in BOOLEAN,
              SplitFor(b, f, taker, live)
       PROVE  ScanInv'
  BY SMTT(30), <1>1, <1>11 DEF SplitFor, solo
<1>12. ASSUME NEW b \in Found, FoundCandidate(b) \/ FoundConfirmed(b) \/ FoundOrphaned(b)
       PROVE  ScanInv'
  BY SMTT(30), <1>1, <1>12 DEF FoundCandidate, FoundConfirmed, FoundOrphaned, solo
<1>13. CASE UNCHANGED rebateVars
  BY <1>1, <1>13 DEF rebateVars, solo
<1> QED
  BY Zenon, <1>2, <1>3, <1>4, <1>5, <1>6, <1>7, <1>8, <1>9, <1>10, <1>11, <1>12, <1>13 DEF RebateNext

(* Every height is booked once when the scan passes it, and again only     *)
(* after a slip.                                                           *)
LEMMA CountStep ==
  ASSUME ScanInv, CountInv, [RebateNext]_rebateVars
  PROVE  CountInv'
<1>0. Depth \in Nat \ {0} /\ PerPass \in Nat \ {0} /\ MaxHeight \in Nat
  BY SMTT(30), RebateAssumption
<1>1. CASE UNCHANGED <<booked, flushed, buried, cursor, scan, slips, from>>
  BY SMTT(30), <1>1 DEF CountInv, Exactly, Covered
<1>2. CASE /\ UNCHANGED <<booked, flushed, cursor, scan, slips, from>>
           /\ \A h \in 1 .. Len(buried) - 1 : buried'[h] = buried[h]
  <2>1. \A h \in 1 .. MaxHeight : Covered(h) => h \in 1 .. Len(buried) - 1
    BY <1>0 DEF Covered, ScanInv
  <2>2. \A h \in 1 .. MaxHeight : Covered(h)' = Covered(h)
    BY <1>2 DEF Covered
  <2>3. \A h \in 1 .. MaxHeight : Covered(h) => buried'[h] = buried[h]
    BY <1>2, <2>1
  <2> QED
    BY <1>2, <2>2, <2>3 DEF CountInv, Exactly
<1>3. ASSUME NEW x \in ChainBlock, ChainGrows(x) PROVE CountInv'
  <2>1. \A h \in 1 .. Len(buried) - 1 : buried'[h] = buried[h]
    BY <1>3 DEF ChainGrows, ScanInv
  <2> QED
    BY <1>2, <1>3, <2>1 DEF ChainGrows, money
<1>4. ASSUME NEW x \in ChainBlock, NEW y \in ChainBlock, ChainReorganises(x, y) PROVE CountInv'
  <2>1. \A h \in 1 .. Len(buried) - 1 : buried'[h] = buried[h]
    BY <1>4 DEF ChainReorganises, ScanInv
  <2> QED
    BY SMTT(30), <1>2, <1>4, <2>1 DEF ChainReorganises, money
<1>5. CASE ScanStarts
  <2> DEFINE upto == Len(buried) - Depth
  <2>1. /\ scan.pc = "idle" /\ scan'.pc # "cursor"
        /\ IF upto > 0 /\ cursor = -1 THEN cursor' = upto /\ from' = upto
           ELSE cursor' = cursor /\ from' = from
        /\ booked' = booked /\ flushed' = flushed /\ buried' = buried /\ slips' = slips
    BY SMTT(30), <1>5 DEF ScanStarts, Idle, money
  <2>2. CASE cursor' = cursor /\ from' = from
    BY SMTT(30), <2>1, <2>2 DEF CountInv, Exactly, Covered
  <2>3. CASE cursor = -1 /\ cursor' = upto /\ from' = upto
    <3>1. \A h \in 1 .. MaxHeight : booked[h] <= slips /\ booked[h] \in Nat
      BY <2>1, <2>3 DEF CountInv, Exactly, Covered, ScanInv
    <3>2. upto \in Int /\ slips \in Nat
      BY <1>0 DEF ScanInv
    <3> HIDE DEF upto
    <3>3. \A h \in 1 .. MaxHeight : Covered(h)' <=> h <= upto
      BY SMTT(30), <2>1, <2>3, <3>2 DEF Covered
    <3> QED
      BY SMTT(30), <2>1, <2>3, <3>1, <3>2, <3>3 DEF CountInv, Exactly
  <2> QED
    BY SMTT(30), <2>1, <2>2, <2>3
<1>6. ASSUME NEW taker \in BOOLEAN, ScanBlock(taker) PROVE CountInv'
  <2>0. PICK h0 : h0 = scan.h
    OBVIOUS
  <2>1. /\ scan.pc = "ask" /\ scan'.pc = "cursor" /\ scan'.h = h0
        /\ flushed' = flushed /\ buried' = buried /\ cursor' = cursor /\ slips' = slips /\ from' = from
        /\ booked' = IF IsSolo(buried[h0]) THEN [booked EXCEPT ![h0] = @ + 1] ELSE booked
    BY <1>6, <2>0 DEF ScanBlock, ScanInv, money
  <2>2. h0 \in 1 .. MaxHeight /\ cursor \in Int /\ cursor < h0 /\ slips \in Nat /\ from \in Nat
        /\ from < h0 /\ cursor >= 0
    BY SMTT(30), <1>0, <2>0, <2>1 DEF ScanInv
  <2>3. booked' \in [1 .. MaxHeight -> Nat]
    BY <2>1, <2>2 DEF CountInv, Exactly
  <2>4. ASSUME NEW h \in 1 .. MaxHeight, h # h0
        PROVE  booked'[h] = booked[h] /\ (Covered(h)' <=> Covered(h))
    BY SMTT(30), <2>1, <2>2, <2>4 DEF CountInv, Exactly, Covered
  <2>5. booked'[h0] = booked[h0] + (IF IsSolo(buried[h0]) THEN 1 ELSE 0)
    BY <2>1, <2>2 DEF CountInv, Exactly
  <2>6. Covered(h0)' /\ ~Covered(h0)
    BY <2>1, <2>2 DEF Covered
  <2>7. booked[h0] <= slips /\ booked[h0] \in Nat /\ flushed.booked[h0] <= booked[h0] /\ flushed.booked[h0] \in Nat
    BY Zenon, <2>2, <2>6 DEF CountInv, Exactly
  <2>8. ASSUME NEW h \in 1 .. MaxHeight
        PROVE  /\ flushed.booked[h] <= booked'[h]
               /\ booked'[h] <= slips + 1 /\ (~Covered(h)' => booked'[h] <= slips)
               /\ (slips = 0 /\ Covered(h)') => Exactly(h, booked'[h])
    <3>1. CASE h = h0
      <4>1. CASE IsSolo(buried[h0])
        <5>1. booked'[h0] = booked[h0] + 1
          BY SMTT(30), <2>5, <4>1
        <5> QED
          BY <2>2, <2>6, <2>7, <3>1, <4>1, <5>1 DEF Exactly
      <4>2. CASE ~IsSolo(buried[h0])
        <5>1. booked'[h0] = booked[h0]
          BY SMTT(30), <2>5, <2>7, <4>2
        <5> QED
          BY SMTT(30), <2>2, <2>6, <2>7, <3>1, <4>2, <5>1 DEF Exactly
      <4> QED
        BY <4>1, <4>2
    <3>2. CASE h # h0
      BY SMTT(30), <2>4, <3>2 DEF CountInv, Exactly
    <3> QED
      BY <3>1, <3>2
  <2> QED
    BY <2>1, <2>3, <2>8 DEF CountInv, Exactly
<1>7. CASE WriteCursor
  <2>1. /\ scan.pc = "cursor" /\ cursor' = scan.h /\ scan'.pc # "cursor"
        /\ booked' = booked /\ flushed' = flushed /\ buried' = buried /\ slips' = slips /\ from' = from
    BY <1>7 DEF WriteCursor, ScanOn, Idle, ScanInv, money
  <2>2. scan.h \in Int /\ cursor \in Int /\ cursor < scan.h /\ slips \in Nat /\ (slips = 0 => scan.h = cursor + 1)
    BY <2>1 DEF ScanInv
  <2>3. \A h \in 1 .. MaxHeight : Covered(h)' <=> h <= scan.h
    BY <2>1, <2>2 DEF Covered
  <2>4. \A h \in 1 .. MaxHeight :
          (Covered(h) => h <= scan.h) /\ (slips = 0 => (Covered(h) <=> h <= scan.h))
    BY <2>1, <2>2 DEF Covered
  <2>6. ASSUME NEW h \in 1 .. MaxHeight
        PROVE  /\ booked[h] <= slips + 1 /\ (~Covered(h)' => booked[h] <= slips)
               /\ (slips = 0 /\ Covered(h)') => Exactly(h, booked[h])
    <3>1. /\ booked[h] <= slips + 1 /\ (~Covered(h) => booked[h] <= slips)
          /\ (slips = 0 /\ Covered(h)) => Exactly(h, booked[h])
      BY DEF CountInv
    <3>2. Covered(h)' <=> h <= scan.h
      BY <2>3, Zenon
    <3>3. (Covered(h) => h <= scan.h) /\ (slips = 0 => (Covered(h) <=> h <= scan.h))
      BY <2>4, Zenon
    <3> QED
      BY <3>1, <3>2, <3>3, Zenon
  <2> QED
    BY <2>1, <2>6 DEF CountInv, Exactly
<1>8. CASE CursorNotWritten
  <2>1. /\ scan.pc = "cursor" /\ cursor' = cursor /\ scan'.pc # "cursor"
        /\ booked' = booked /\ flushed' = flushed /\ buried' = buried /\ slips' = slips + 1 /\ from' = from
    BY <1>8 DEF CursorNotWritten, ScanOn, Idle, ScanInv, money
  <2>2. slips \in Nat /\ slips' \in Nat /\ slips' # 0
    BY SMTT(30), <2>1 DEF ScanInv
  <2>3. \A h \in 1 .. MaxHeight : booked[h] <= slips' /\ booked[h] \in Nat
    BY SMTT(30), <2>1, <2>2 DEF CountInv, Exactly
  <2> QED
    BY <2>1, <2>2, <2>3 DEF CountInv, Exactly
<1>9. CASE ScanFails
  <2>1. /\ scan.pc = "ask" /\ scan'.pc = "idle" /\ cursor' = cursor
        /\ booked' = booked /\ flushed' = flushed /\ buried' = buried /\ slips' = slips /\ from' = from
    BY <1>9 DEF ScanFails, Idle, money
  <2> QED
    BY <2>1 DEF CountInv, Exactly, Covered
<1>10. CASE KillAndRestart
  <2>1. /\ scan'.pc = "idle" /\ cursor' = cursor /\ booked' = flushed.booked /\ flushed' = flushed
        /\ buried' = buried /\ from' = from
        /\ slips' = IF Books # flushed \/ (scan.pc = "cursor" /\ booked[scan.h] > 0) THEN slips + 1 ELSE slips
    BY <1>10 DEF KillAndRestart, Idle
  <2>2. slips \in Nat /\ slips' \in Nat
    BY <2>1 DEF ScanInv
  <2>3. \A h \in 1 .. MaxHeight : Covered(h)' <=> h <= cursor
    BY SMTT(30), <2>1 DEF Covered
  <2>4. \A h \in 1 .. MaxHeight :
          /\ booked[h] \in Nat /\ flushed.booked[h] \in Nat /\ flushed.booked[h] <= booked[h]
          /\ booked[h] <= slips + 1 /\ (~Covered(h) => booked[h] <= slips)
          /\ (slips = 0 /\ Covered(h)) => Exactly(h, booked[h])
    BY Zenon DEF CountInv, Exactly
  <2>5. CASE slips' = slips + 1
    BY <2>1, <2>2, <2>3, <2>4, <2>5 DEF CountInv, Exactly, Covered
  <2>6. CASE slips' = slips
    <3>1. Books = flushed /\ (scan.pc = "cursor" => ~(booked[scan.h] > 0))
      BY SMTT(30), <2>1, <2>2, <2>6
    <3>2. booked = flushed.booked
      BY SMTT(30), <3>1 DEF Books
    <3>3. \A h \in 1 .. MaxHeight : ~(h <= cursor) => booked[h] <= slips
      BY <2>2, <2>4, <3>1 DEF Covered
    <3>4. \A h \in 1 .. MaxHeight : h <= cursor => Covered(h)
      BY SMTT(30) DEF Covered
    <3>5. \A h \in 1 .. MaxHeight :
            /\ ~Covered(h)' => booked[h] <= slips
            /\ (slips = 0 /\ Covered(h)') => Exactly(h, booked[h])
      BY Zenon, <2>3, <2>4, <3>3, <3>4
    <3>6. \A h, n : Exactly(h, n)' <=> Exactly(h, n)
      BY <2>1 DEF Exactly
    <3>7. booked' = booked /\ flushed' = flushed
      BY <2>1, <3>2
    <3> QED
      BY Zenon, <2>4, <2>6, <3>5, <3>6, <3>7 DEF CountInv
  <2> QED
    BY SMTT(30), <2>1, <2>5, <2>6
<1>11. CASE /\ UNCHANGED <<booked, buried, cursor, scan, slips, from>>
            /\ IsBooks(flushed)' /\ flushed'.booked = booked
  BY <1>11 DEF CountInv, Exactly, Covered
<1>12. CASE HousekeepingFlush
  BY SMTT(30), <1>11, <1>12 DEF HousekeepingFlush, Books, IsBooks, solo, money
<1>13. ASSUME NEW b \in Found, FoundCandidate(b) \/ FoundConfirmed(b) \/ FoundOrphaned(b)
       PROVE  CountInv'
  BY SMTT(30), <1>11, <1>13 DEF FoundCandidate, FoundConfirmed, FoundOrphaned, Sync, IsBooks, solo
<1>14. ASSUME NEW b \in Found, NEW f \in Fee, NEW taker \in BOOLEAN, NEW live \in BOOLEAN,
              SplitFor(b, f, taker, live)
       PROVE  CountInv'
  BY <1>1, <1>14 DEF SplitFor, solo, money
<1>15. CASE UNCHANGED rebateVars
  BY SMTT(30), <1>1, <1>15 DEF rebateVars, solo, money
<1> QED
  BY SMTT(30), <1>3, <1>4, <1>5, <1>6, <1>7, <1>8, <1>9, <1>10, <1>12, <1>13, <1>14, <1>15 DEF RebateNext

\* The rebate in balances o and c, or drawn by a block, is what fees have paid for.
Even(o, c, f) == o + c + AllDrawn = f

\* A block's entry and its split's figures; e: it will credit its fee and what it drew.
EntrySound(b, e) ==
  /\ bk[b].seen => issued[b].made
  /\ bk[b].debits_live => bk[b].seen
  /\ ~bk[b].debits_live => bk[b].debited = 0
  /\ (e /\ bk[b].debits_live /\ ~bk[b].credits_live) => bk[b].credit = issued[b].fee + bk[b].debited

\* The rebate's balances, in memory and as they were last flushed.
MoneyInv ==
  /\ owed \in Nat /\ credited \in Int /\ funded \in Int /\ odd \in BOOLEAN
  /\ flushed.owed \in Nat /\ flushed.credited \in Int /\ flushed.funded \in Int
  /\ issued \in [Found -> Figures] /\ bk \in [Found -> Entries]
  /\ \A b \in Found : EntrySound(b, ~odd)
  /\ ~odd => Even(owed, credited, funded) /\ Even(flushed.owed, flushed.credited, flushed.funded)

(* One block's entry changes: what is drawn changes by as much.            *)
LEMMA DrawnStep ==
  ASSUME bk \in [Found -> Entries], NEW b \in Found, NEW k \in Entries, bk' = [bk EXCEPT ![b] = k]
  PROVE  /\ AllDrawn \in Int
         /\ AllDrawn' = AllDrawn + ((IF k.credits_live THEN 0 ELSE k.debited) - Drawn(b))
<1> DEFINE f == [c \in Found |-> Drawn(c)]
           f2 == [c \in Found |-> Drawn(c)']
<1>1. IsFiniteSet(Found) /\ f \in [Found -> Int] /\ f2 \in [Found -> Int]
  BY RebateAssumption DEF Drawn, Entries
<1>2. \A c \in Found \ {b} : f2[c] = f[c]
  BY DEF Drawn
<1>3. f[b] = Drawn(b) /\ f2[b] = (IF k.credits_live THEN 0 ELSE k.debited)
  BY DEF Drawn
<1>4. f[b] \in Int /\ f2[b] \in Int
  BY <1>1
<1> HIDE DEF f, f2
<1>5. SumFunction(f2) = SumFunction(f) - f[b] + f2[b]
  BY ZenonT(30), <1>1, <1>2, SumChange
<1>6. SumFunction(f) \in Int
  BY <1>1, SumType
<1>7. SumFunction(f2) = SumFunction(f) + (f2[b] - f[b])
  BY <1>4, <1>5, <1>6
<1>8. AllDrawn = SumFunction(f) /\ AllDrawn' = SumFunction(f2)
  BY DEF f, f2, AllDrawn
<1> QED
  BY SMTT(30), <1>3, <1>6, <1>7, <1>8

(* A step that leaves the entries alone: what is drawn stays.              *)
LEMMA DrawnStays ==
  ASSUME bk' = bk
  PROVE  AllDrawn' = AllDrawn
  BY Zenon DEF AllDrawn, Drawn

(* Every step keeps the rebate balanced, in memory and on disk.            *)
LEMMA MoneyStep ==
  ASSUME ScanInv, CountInv, MoneyInv, [RebateNext]_rebateVars
  PROVE  MoneyInv'
<1>0. /\ owed \in Nat /\ credited \in Int /\ funded \in Int /\ odd \in BOOLEAN
      /\ flushed.owed \in Nat /\ flushed.credited \in Int /\ flushed.funded \in Int
      /\ issued \in [Found -> Figures] /\ bk \in [Found -> Entries]
      /\ \A b \in Found : EntrySound(b, ~odd)
      /\ ~odd => Even(owed, credited, funded) /\ Even(flushed.owed, flushed.credited, flushed.funded)
  BY DEF MoneyInv
<1>1. CASE UNCHANGED <<owed, credited, funded, odd, flushed, issued, bk>>
  <2>1. AllDrawn' = AllDrawn
    BY SMTT(30), <1>1, DrawnStays
  <2> QED
    BY <1>0, <1>1, <2>1 DEF MoneyInv, Even, EntrySound
<1>2. ASSUME NEW b \in Found, NEW f \in Fee, NEW taker \in BOOLEAN, NEW live \in BOOLEAN,
             SplitFor(b, f, taker, live)
      PROVE  MoneyInv'
  <2> DEFINE c == [made |-> TRUE, live |-> live, fee |-> IF taker THEN f ELSE 0,
                   owed_credited |-> IF taker THEN owed ELSE 0, deferred |-> IF taker THEN 0 ELSE f]
  <2>1. c \in Figures
    BY SMTT(30), <1>0, RebateAssumption DEF Figures
  <2>2. /\ ~issued[b].made /\ issued' = [issued EXCEPT ![b] = c]
        /\ owed' = owed /\ credited' = credited /\ funded' = funded /\ odd' = odd /\ flushed' = flushed /\ bk' = bk
    BY <1>2 DEF SplitFor, money
  <2> HIDE DEF c
  <2>3. issued' \in [Found -> Figures]
    BY <1>0, <2>1, <2>2
  <2>4. AllDrawn' = AllDrawn
    BY <2>2, DrawnStays
  <2>5. ASSUME NEW d \in Found PROVE EntrySound(d, ~odd)'
    <3>1. CASE d = b
      BY SMTT(30), <1>0, <2>2, <3>1 DEF EntrySound
    <3>2. CASE d # b
      BY SMTT(30), <1>0, <2>2, <3>2 DEF EntrySound
    <3> QED
      BY SMTT(30), <3>1, <3>2
  <2> QED
    BY SMTT(30), <1>0, <2>2, <2>3, <2>4, <2>5 DEF MoneyInv, Even
<1>3. ASSUME NEW b \in Found, NEW k \in Entries, bk' = [bk EXCEPT ![b] = k], issued' = issued, Sync,
             owed' \in Nat, credited' \in Int, funded' \in Int, odd' \in BOOLEAN, odd => odd',
             k.seen /\ issued[b].made, ~k.debits_live => k.debited = 0,
             (~odd' /\ k.debits_live /\ ~k.credits_live) => k.credit = issued[b].fee + k.debited,
             ~odd' => (owed' - owed) + (credited' - credited) + ((IF k.credits_live THEN 0 ELSE k.debited) - Drawn(b))
                        = funded' - funded
      PROVE  MoneyInv'
  <2>1. AllDrawn \in Int /\ AllDrawn' = AllDrawn + ((IF k.credits_live THEN 0 ELSE k.debited) - Drawn(b))
    BY ZenonT(30), <1>0, <1>3, DrawnStep
  <2>2. bk' \in [Found -> Entries] /\ bk'[b] = k /\ \A d \in Found \ {b} : bk'[d] = bk[d]
    BY <1>0, <1>3
  <2>3. ASSUME NEW d \in Found PROVE EntrySound(d, ~odd)'
    <3>1. CASE d = b
      BY <1>3, <2>2, <3>1 DEF EntrySound
    <3>2. CASE d # b
      BY SMTT(30), <1>0, <1>3, <2>2, <3>2 DEF EntrySound
    <3> QED
      BY <3>1, <3>2
  <2>4. k.debited \in Int /\ Drawn(b) \in Int
    BY <1>0 DEF Entries, Drawn
  <2> DEFINE now == IF k.credits_live THEN 0 ELSE k.debited
  <2>5. now \in Int
    BY SMTT(30), <2>4
  <2>6. ~odd' => (owed' - owed) + (credited' - credited) + (now - Drawn(b)) = funded' - funded
    BY <1>3
  <2>7. AllDrawn' = AllDrawn + (now - Drawn(b))
    BY SMTT(30), <2>1
  <2> HIDE DEF now
  <2>8. ~odd' => owed' + credited' + AllDrawn' = funded'
    <3>1. ~odd' => owed + credited + AllDrawn = funded
      BY SMTT(30), <1>0, <1>3 DEF Even
    <3> QED
      BY SMTT(30), <1>0, <1>3, <2>1, <2>4, <2>5, <2>6, <2>7, <3>1
  <2>9. flushed'.owed = owed' /\ flushed'.credited = credited' /\ flushed'.funded = funded'
    BY SMTT(30), <1>3 DEF Sync
  <2> QED
    BY SMTT(30), <1>0, <1>3, <2>2, <2>3, <2>8, <2>9 DEF MoneyInv, Even
<1>4. ASSUME NEW b \in Found, FoundCandidate(b) PROVE MoneyInv'
  <2> DEFINE c == issued[b]
             out == Min({owed, c.owed_credited})
             k == [seen |-> TRUE, debits_live |-> TRUE, credits_live |-> FALSE,
                   debited |-> out, credit |-> capped(c, out)]
  <2>1. c \in Figures /\ bk[b] \in Entries
    BY <1>0
  <2>2. /\ c.made /\ ~bk[b].seen /\ owed' = owed - out /\ bk' = [bk EXCEPT ![b] = k]
        /\ odd' = (odd \/ (c.live /\ out < c.owed_credited))
        /\ credited' = credited /\ funded' = funded /\ issued' = issued /\ Sync
    BY <1>4 DEF FoundCandidate
  <2>3. out \in Nat /\ out <= owed /\ out <= c.owed_credited /\ c.owed_credited \in Nat /\ c.fee \in Nat
    <3>1. c.owed_credited \in Nat /\ c.fee \in Nat
      BY <2>1 DEF Figures
    <3>2. out = IF owed <= c.owed_credited THEN owed ELSE c.owed_credited
      BY SMTT(30), <1>0, <3>1, MinTwo
    <3> QED
      BY SMTT(30), <1>0, <3>1, <3>2
  <2>4. Drawn(b) = 0
    BY SMTT(30), <1>0, <2>1, <2>2 DEF EntrySound, Drawn
  <2> HIDE DEF c, out
  <2>5. capped(c, out) \in Nat /\ (~odd' => capped(c, out) = c.fee + out)
    <3>1. CASE c.live
      <4>1. capped(c, out) = c.fee + c.owed_credited
        BY <3>1 DEF capped
      <4>2. ~odd' => ~(out < c.owed_credited)
        BY <2>2, <3>1, Zenon
      <4> QED
        BY <2>3, <4>1, <4>2
    <3>2. CASE ~c.live
      <4>1. capped(c, out) = c.fee + out
        BY SMTT(30), <3>2 DEF capped
      <4> QED
        BY <2>3, <4>1
    <3> QED
      BY <3>1, <3>2
  <2>6. k \in Entries
    BY SMTT(30), <2>3, <2>5 DEF Entries
  <2>7. k.seen /\ k.debits_live /\ ~k.credits_live /\ k.debited = out /\ k.credit = capped(c, out)
    BY SMTT(30)
  <2> HIDE DEF k
  <2>8. owed' \in Nat /\ (owed' - owed) + (credited' - credited) + (out - Drawn(b)) = funded' - funded
    BY SMTT(30), <1>0, <2>2, <2>3, <2>4
  <2>9. issued[b].made /\ issued[b].fee = c.fee /\ odd' \in BOOLEAN /\ (odd => odd')
    BY SMTT(30), <1>0, <2>2 DEF c
  <2> QED
    BY Zenon, <1>0, <1>3, <2>2, <2>5, <2>6, <2>7, <2>8, <2>9
<1>5. ASSUME NEW b \in Found, FoundConfirmed(b) PROVE MoneyInv'
  <2> DEFINE c == issued[b]
             k0 == bk[b]
             out == IF k0.debits_live THEN k0.debited ELSE Min({owed, c.owed_credited})
             k == [k0 EXCEPT !.debits_live = TRUE, !.credits_live = TRUE, !.debited = out]
  <2>1. c \in Figures /\ k0 \in Entries
    BY <1>0
  <2>2. /\ k0.seen /\ ~k0.credits_live
        /\ owed' = (IF k0.debits_live THEN owed ELSE owed - out) + c.deferred
        /\ credited' = credited + k0.credit /\ funded' = funded + c.fee + c.deferred
        /\ bk' = [bk EXCEPT ![b] = k] /\ odd' = (odd \/ ~k0.debits_live) /\ issued' = issued /\ Sync
    BY <1>5 DEF FoundConfirmed
  <2>3. /\ c.owed_credited \in Nat /\ c.fee \in Nat /\ c.deferred \in Nat /\ k0.debited \in Nat /\ k0.credit \in Nat
        /\ k0.debits_live \in BOOLEAN
    BY <2>1 DEF Figures, Entries
  <2>4. out \in Nat /\ (~k0.debits_live => out <= owed)
    BY <1>0, <2>3, MinTwo
  <2>5. k \in Entries /\ k.seen /\ k.debits_live /\ k.credits_live
    BY Zenon, <2>1, <2>2, <2>4 DEF Entries
  <2>6. EntrySound(b, ~odd) /\ Drawn(b) = k0.debited
    BY <1>0, <2>2 DEF Drawn
  <2>7. c.made /\ ((~odd /\ k0.debits_live) => k0.credit = c.fee + k0.debited)
    BY <2>2, <2>6 DEF EntrySound
  <2> HIDE DEF c, k0, out, k
  <2>8. owed' \in Nat /\ credited' \in Int /\ funded' \in Int /\ odd' \in BOOLEAN /\ (odd => odd')
    BY <1>0, <2>2, <2>3, <2>4
  <2>9. ASSUME ~odd' PROVE (owed' - owed) + (credited' - credited) + (0 - Drawn(b)) = funded' - funded
    <3>1. ~odd /\ k0.debits_live
      BY <2>2, <2>9, Zenon
    <3>2. owed' = owed + c.deferred /\ credited' = credited + k0.credit /\ funded' = funded + c.fee + c.deferred
      BY <2>2, <3>1
    <3>3. k0.credit = c.fee + k0.debited
      BY <2>7, <3>1
    <3> QED
      BY SMTT(30), <1>0, <2>3, <2>6, <3>2, <3>3
  <2>10. issued[b].made
    BY <2>7 DEF c
  <2> QED
    BY Zenon, <1>3, <2>2, <2>5, <2>8, <2>9, <2>10
<1>6. ASSUME NEW b \in Found, FoundOrphaned(b) PROVE MoneyInv'
  <2> DEFINE c == issued[b]
             k0 == bk[b]
             on == k0.credits_live
             k == [k0 EXCEPT !.debits_live = FALSE, !.credits_live = FALSE, !.debited = 0]
  <2>1. c \in Figures /\ k0 \in Entries
    BY <1>0
  <2>2. /\ k0.debits_live
        /\ owed' = (IF on THEN Less(owed, c.deferred) ELSE owed) + k0.debited
        /\ credited' = credited - (IF on THEN k0.credit ELSE 0)
        /\ funded' = funded - (IF on THEN c.fee + c.deferred ELSE 0)
        /\ bk' = [bk EXCEPT ![b] = k] /\ odd' = (odd \/ on) /\ issued' = issued /\ Sync
    BY <1>6 DEF FoundOrphaned
  <2>3. c.fee \in Nat /\ c.deferred \in Nat /\ k0.debited \in Nat /\ k0.credit \in Nat /\ on \in BOOLEAN
    BY <2>1 DEF Figures, Entries
  <2>4. Less(owed, c.deferred) \in Nat
    BY <1>0, <2>3 DEF Less
  <2>5. EntrySound(b, ~odd) /\ (~on => Drawn(b) = k0.debited)
    BY <1>0 DEF Drawn
  <2>6. k0.seen /\ c.made
    BY <2>2, <2>5 DEF EntrySound
  <2>7. k \in Entries /\ k.seen /\ ~k.debits_live /\ ~k.credits_live /\ k.debited = 0
    BY Zenon, <2>1, <2>6 DEF Entries
  <2> HIDE DEF c, k0, on, k
  <2>8. CASE on
    <3>1. owed' \in Nat /\ credited' \in Int /\ funded' \in Int /\ odd' /\ odd' \in BOOLEAN
      <4>1. odd' = TRUE
        BY <2>2, <2>8, Zenon
      <4>2. /\ owed' = Less(owed, c.deferred) + k0.debited
            /\ credited' = credited - k0.credit /\ funded' = funded - (c.fee + c.deferred)
        BY <2>2, <2>8
      <4> QED
        BY <1>0, <2>3, <2>4, <4>1, <4>2
    <3>2. issued[b].made
      BY SMTT(30), <2>6 DEF c
    <3> QED
      BY Zenon, <1>3, <2>2, <2>7, <3>1, <3>2
  <2>9. CASE ~on
    <3>1. owed' = owed + k0.debited /\ credited' = credited /\ funded' = funded /\ odd' = odd
      BY <1>0, <2>2, <2>9
    <3>2. owed' \in Nat /\ (owed' - owed) + (credited' - credited) + (0 - Drawn(b)) = funded' - funded
      BY SMTT(30), <1>0, <2>3, <2>5, <2>9, <3>1
    <3>3. issued[b].made
      BY <2>6 DEF c
    <3> QED
      BY Zenon, <1>0, <1>3, <2>2, <2>7, <3>1, <3>2, <3>3
  <2> QED
    BY <2>8, <2>9
<1>7. ASSUME bk' = bk, issued' = issued, odd' = odd,
             owed' \in Nat, credited' \in Int, funded' \in Int,
             flushed'.owed \in Nat, flushed'.credited \in Int, flushed'.funded \in Int,
             ~odd => (owed' + credited' + AllDrawn = funded'
                      /\ flushed'.owed + flushed'.credited + AllDrawn = flushed'.funded)
      PROVE  MoneyInv'
  <2>1. AllDrawn' = AllDrawn
    BY <1>7, DrawnStays
  <2> QED
    BY <1>0, <1>7, <2>1 DEF MoneyInv, Even, EntrySound
<1>8. ASSUME NEW taker \in BOOLEAN, ScanBlock(taker) PROVE MoneyInv'
  <2>0. bk' = bk /\ issued' = issued /\ odd' = odd /\ flushed' = flushed
    BY <1>8 DEF ScanBlock
  <2>1. CASE owed' = owed /\ credited' = credited /\ funded' = funded
    BY SMTT(30), <1>1, <2>0, <2>1
  <2>2. CASE IsSolo(buried[scan.h])
    <3> DEFINE x == buried[scan.h]
               rebate == rebate_for(x)
    <3>1. scan.h \in 1 .. Len(buried) /\ buried \in Seq(ChainBlock)
      BY SMTT(30), <1>8, RebateAssumption DEF ScanBlock, ScanInv
    <3>2. x \in SoloBlock
      BY SMTT(30), <2>2, <3>1 DEF ChainBlock, Plain, IsSolo
    <3>3. x.value \in Nat /\ x.pool \in Nat /\ Bps \in Nat
      BY SMTT(30), <3>2, RebateAssumption
    <3>4. (x.value * Bps) \div 10000 \in Nat
      BY SMTT(30), <3>3
    <3>5. rebate \in Nat
      BY <3>3, <3>4, MinTwo DEF rebate_for
    <3>6. /\ credited' = (IF taker THEN credited + rebate + owed ELSE credited)
          /\ owed' = (IF taker THEN 0 ELSE owed + rebate) /\ funded' = funded + rebate
      BY <1>8, <2>2 DEF ScanBlock
    <3> HIDE DEF rebate
    <3>7. AllDrawn \in Int
      <4> DEFINE f == [b \in Found |-> Drawn(b)]
      <4>1. f \in [Found -> Int]
        BY SMTT(30), <1>0 DEF Drawn, Entries
      <4> HIDE DEF f
      <4>2. SumFunction(f) \in Int
        BY SMTT(30), <4>1, SumType, RebateAssumption
      <4> QED
        BY SMTT(30), <4>2 DEF f, AllDrawn
    <3>8. ~odd => /\ owed + credited + AllDrawn = funded
                  /\ flushed.owed + flushed.credited + AllDrawn = flushed.funded
      BY SMTT(30), <1>0 DEF Even
    <3>9. CASE taker
      BY SMTT(30), <1>0, <1>7, <2>0, <3>5, <3>6, <3>7, <3>8, <3>9
    <3>10. CASE ~taker
      BY SMTT(30), <1>0, <1>7, <2>0, <3>5, <3>6, <3>7, <3>8, <3>10
    <3> QED
      BY <3>9, <3>10
  <2> QED
    BY <1>8, <2>1, <2>2 DEF ScanBlock, money
<1>9. CASE HousekeepingFlush
  <2>1. /\ flushed'.owed = owed /\ flushed'.credited = credited /\ flushed'.funded = funded
        /\ owed' = owed /\ credited' = credited /\ funded' = funded /\ issued' = issued /\ bk' = bk /\ odd' = odd
    BY SMTT(30), <1>9 DEF HousekeepingFlush, Books, money
  <2> QED
    BY SMTT(30), <1>0, <1>7, <2>1 DEF Even
<1>10. CASE KillAndRestart
  <2>1. /\ owed' = flushed.owed /\ credited' = flushed.credited /\ funded' = flushed.funded
        /\ flushed' = flushed /\ bk' = bk /\ odd' = odd
        /\ issued' = [b \in Found |-> IF bk[b].seen THEN issued[b] ELSE NoSplit]
    BY SMTT(30), <1>10 DEF KillAndRestart
  <2>2. NoSplit \in Figures
    BY DEF NoSplit, Figures
  <2>3. issued' \in [Found -> Figures]
    BY SMTT(30), <1>0, <2>1, <2>2
  <2>4. AllDrawn' = AllDrawn
    BY SMTT(30), <2>1, DrawnStays
  <2>5. ASSUME NEW b \in Found PROVE EntrySound(b, ~odd)'
    BY SMTT(30), <1>0, <2>1 DEF EntrySound
  <2> QED
    BY SMTT(30), <1>0, <2>1, <2>3, <2>4, <2>5 DEF MoneyInv, Even
<1>11. CASE ScanStarts \/ WriteCursor \/ CursorNotWritten \/ ScanFails \/ UNCHANGED rebateVars
  BY SMTT(30), <1>1, <1>11 DEF ScanStarts, WriteCursor, CursorNotWritten, ScanFails, rebateVars, money
<1>12. ASSUME NEW x \in ChainBlock, ChainGrows(x) \/ \E y \in ChainBlock : ChainReorganises(x, y)
       PROVE  MoneyInv'
  BY ZenonT(30), <1>1, <1>12 DEF ChainGrows, ChainReorganises, money
<1> QED
  BY <1>2, <1>4, <1>5, <1>6, <1>8, <1>9, <1>10, <1>11, <1>12 DEF RebateNext

(* The three invariants together are inductive.                            *)
LEMMA RebateInvariant == RebateSpec => [](ScanInv /\ CountInv /\ MoneyInv)
<1>1. RebateInit => ScanInv /\ CountInv /\ MoneyInv
  <2> SUFFICES ASSUME RebateInit PROVE ScanInv /\ CountInv /\ MoneyInv
    OBVIOUS
  <2>1. ScanInv
    BY RebateAssumption DEF RebateInit, ScanInv, Idle
  <2>2. CountInv
    BY RebateAssumption DEF RebateInit, CountInv, IsBooks, Covered, Idle
  <2>3. MoneyInv
    <3> DEFINE f == [b \in Found |-> Drawn(b)]
    <3>1. f \in [Found -> Int] /\ \A b \in Found : f[b] = 0
      BY DEF RebateInit, Drawn, NoBook
    <3> HIDE DEF f
    <3>2. SumFunction(f) = 0
      BY <3>1, SumZero, RebateAssumption
    <3>3. AllDrawn = 0
      BY SMTT(30), <3>2 DEF f, AllDrawn
    <3>4. /\ owed = 0 /\ credited = 0 /\ funded = 0 /\ odd = FALSE
          /\ flushed.owed = 0 /\ flushed.credited = 0 /\ flushed.funded = 0
      BY SMTT(30) DEF RebateInit
    <3>5. issued \in [Found -> Figures] /\ bk \in [Found -> Entries]
      BY SMTT(30) DEF RebateInit, NoSplit, NoBook, Figures, Entries
    <3>6. \A b \in Found : EntrySound(b, ~odd)
      BY DEF RebateInit, NoSplit, NoBook, EntrySound
    <3>7. Even(owed, credited, funded) /\ Even(flushed.owed, flushed.credited, flushed.funded)
      BY <3>3, <3>4 DEF Even
    <3>8. owed \in Nat /\ credited \in Int /\ funded \in Int
      BY <3>4
    <3>9. odd \in BOOLEAN
      BY <3>4, Zenon
    <3>10. flushed.owed \in Nat /\ flushed.credited \in Int /\ flushed.funded \in Int
      BY <3>4
    <3> QED
      BY <3>5, <3>6, <3>7, <3>8, <3>9, <3>10, Zenon DEF MoneyInv
  <2> QED
    BY <2>1, <2>2, <2>3
<1>2. ScanInv /\ CountInv /\ MoneyInv /\ [RebateNext]_rebateVars => (ScanInv /\ CountInv /\ MoneyInv)'
  BY ScanStep, CountStep, MoneyStep
<1> QED
  BY <1>1, <1>2, PTL DEF RebateSpec

(* Every sat of rebate that fees paid for is owed, credited or drawn, once *)
(* (RebateConserved), for any fees, any number of blocks, any chain and    *)
(* any number of kills.                                                    *)
THEOREM RebateIsConserved == RebateSpec => []RebateConserved
<1>1. MoneyInv => RebateConserved
  BY DEF MoneyInv, Even, RebateConserved
<1> QED
  BY <1>1, RebateInvariant, PTL

(* Each buried solo block is booked once, plus at most once for each slip  *)
(* (SoloBookedOnce), for any chain that reorganises above the scanned      *)
(* depth, and any kills and failed writes.                                 *)
THEOREM SoloIsBookedOnce == RebateSpec => []SoloBookedOnce
<1>1. ScanInv /\ CountInv => SoloBookedOnce
  <2> SUFFICES ASSUME ScanInv, CountInv, NEW h \in 1 .. MaxHeight
               PROVE  /\ booked[h] <= 1 + slips
                      /\ slips = 0 => booked[h] =
                           IF /\ h \in DOMAIN buried /\ IsSolo(buried[h]) /\ cursor >= 0 /\ h > from
                              /\ h <= cursor \/ (scan.pc = "cursor" /\ h <= scan.h)
                           THEN 1 ELSE 0
    BY SMTT(30) DEF SoloBookedOnce
  <2>1. /\ booked[h] \in Nat /\ slips \in Nat /\ booked[h] <= slips + 1 /\ (~Covered(h) => booked[h] <= slips)
        /\ (slips = 0 /\ Covered(h)) => Exactly(h, booked[h])
    BY DEF CountInv, ScanInv
  <2>2. ASSUME slips = 0
        PROVE  /\ Covered(h) <=> (h <= cursor \/ (scan.pc = "cursor" /\ h <= scan.h))
               /\ Covered(h) => h \in DOMAIN buried /\ cursor >= 0
    BY SMTT(30), <2>2, RebateAssumption DEF Covered, ScanInv
  <2>3. slips = 0 => booked[h] =
          IF /\ h \in DOMAIN buried /\ IsSolo(buried[h]) /\ cursor >= 0 /\ h > from
             /\ h <= cursor \/ (scan.pc = "cursor" /\ h <= scan.h)
          THEN 1 ELSE 0
    <3>1. CASE slips = 0 /\ Covered(h) /\ h > from /\ IsSolo(buried[h])
      BY SMTT(30), <2>1, <2>2, <3>1 DEF Exactly
    <3>2. CASE slips = 0 /\ Covered(h) /\ ~(h > from /\ IsSolo(buried[h]))
      BY SMTT(30), <2>1, <2>2, <3>2 DEF Exactly
    <3>3. CASE slips = 0 /\ ~Covered(h)
      BY <2>1, <2>2, <3>3
    <3> QED
      BY SMTT(30), <3>1, <3>2, <3>3
  <2> QED
    BY SMTT(30), <2>1, <2>3
<1> QED
  BY <1>1, RebateInvariant, PTL

-----------------------------------------------------------------------------
(***************************************************************************)
(* Connections.  The counts are those of the sessions there are.           *)
(***************************************************************************)

\* The addresses counted with h.
Alike(h) == {g \in Host : key(g) = key(h)}

Strangers == Host \ Loopback

DoorInv ==
  /\ peers \in [Host -> Nat] /\ total \in Nat
  /\ per_ip \in [DOMAIN per_ip -> Nat]
  /\ total = Live(Host) /\ total = Live(Loopback) + Live(Strangers)
  /\ total <= MaxTotal /\ Live(Strangers) <= MaxTotal - reserved
  /\ \A h \in Host : Count(h) = Live(Alike(h)) /\ Count(h) <= MaxPerIp

(* The places kept for loopback are some of those there are.               *)
LEMMA ReservedType == reserved \in Nat /\ reserved <= MaxTotal
<1>1. MaxTotal \in Nat /\ MaxTotal \div 8 \in Nat /\ MaxTotal \div 8 <= MaxTotal
  BY DoorAssumption
<1> DEFINE q == MaxTotal \div 8
<1> HIDE DEF q
<1>2. q \in Nat => Min({q, 2}) = IF q <= 2 THEN q ELSE 2
  BY DEF Min
<1> QED
  BY <1>1, <1>2 DEF reserved, q

(* The sessions of a set of addresses: a number, none fewer than any one   *)
(* address has.                                                            *)
LEMMA LiveType ==
  ASSUME peers \in [Host -> Nat], NEW S \in SUBSET Host
  PROVE  Live(S) \in Nat /\ \A h \in S : peers[h] <= Live(S)
<1> DEFINE f == [h \in S |-> peers[h]]
<1>1. IsFiniteSet(S) /\ f \in [S -> Nat] /\ \A h \in S : f[h] = peers[h]
  BY DoorAssumption, FS_Subset
<1>2. Live(S) = SumFunction(f)
  BY SMTT(30) DEF Live
<1> HIDE DEF f
<1> QED
  BY SMTT(30), <1>1, <1>2, SumNat

(* A session that comes or goes counts in the sets its address is in.      *)
LEMMA LiveStep ==
  ASSUME peers \in [Host -> Nat], NEW S \in SUBSET Host, NEW h \in Host, NEW n \in Nat,
         peers' = [peers EXCEPT ![h] = n]
  PROVE  Live(S)' = IF h \in S THEN Live(S) - peers[h] + n ELSE Live(S)
<1> DEFINE f == [g \in S |-> peers[g]]
           f2 == [g \in S |-> peers'[g]]
<1>1. IsFiniteSet(S) /\ f \in [S -> Int] /\ f2 \in [S -> Int]
  BY DoorAssumption, FS_Subset
<1>2. \A g \in S : f[g] = peers[g] /\ (g # h => f2[g] = peers[g]) /\ (g = h => f2[g] = n)
  OBVIOUS
<1>3. Live(S) = SumFunction(f) /\ Live(S)' = SumFunction(f2)
  BY DEF Live
<1>4. h \notin S => f2 = f
  BY SMTT(30)
<1> HIDE DEF f, f2
<1>5. CASE h \in S
  BY SMTT(30), <1>1, <1>2, <1>3, <1>5, SumChange
<1>6. CASE h \notin S
  BY SMTT(30), <1>3, <1>4, <1>6
<1> QED
  BY SMTT(30), <1>5, <1>6

(* What a step does to the count kept for an address.                      *)
LEMMA AdmitCounts ==
  ASSUME NEW h \in Host, Admit(h), per_ip \in [DOMAIN per_ip -> Nat]
  PROVE  /\ per_ip' \in [DOMAIN per_ip' -> Nat]
         /\ \A g \in Host : Count(g)' = IF key(g) = key(h) THEN Count(h) + 1 ELSE Count(g)
<1> DEFINE k == key(h)
<1>1. per_ip' = [x \in DOMAIN per_ip \cup {k} |-> IF x = k THEN Count(h) + 1 ELSE per_ip[x]]
  BY DEF Admit
<1>2. Count(h) \in Nat
  BY DEF Count
<1>3. ASSUME NEW g \in Host PROVE Count(g)' = IF key(g) = k THEN Count(h) + 1 ELSE Count(g)
  <2>1. Count(g)' = IF key(g) \in DOMAIN per_ip' THEN per_ip'[key(g)] ELSE 0
    BY DEF Count, key
  <2> QED
    BY <1>1, <2>1 DEF Count
<1> QED
  BY SMTT(30), <1>1, <1>2, <1>3

(* A session that ends is taken off the count of its address, which is     *)
(* dropped at zero.                                                        *)
LEMMA ReleaseCounts ==
  ASSUME NEW h \in Host, release(h), per_ip \in [DOMAIN per_ip -> Nat], Count(h) >= 1
  PROVE  /\ per_ip' \in [DOMAIN per_ip' -> Nat]
         /\ \A g \in Host : Count(g)' = IF key(g) = key(h) THEN Count(h) - 1 ELSE Count(g)
<1> DEFINE k == key(h)
<1>1. k \in DOMAIN per_ip /\ Count(h) = per_ip[k] /\ Count(h) \in Nat
  BY DEF Count
<1>2. \A g \in Host : Count(g)' = IF key(g) \in DOMAIN per_ip' THEN per_ip'[key(g)] ELSE 0
  BY SMTT(30) DEF Count, key
<1>3. CASE Count(h) <= 1
  <2>1. per_ip' = [x \in DOMAIN per_ip \ {k} |-> per_ip[x]]
    BY SMTT(30), <1>3 DEF release
  <2> QED
    BY SMTT(30), <1>1, <1>2, <1>3, <2>1 DEF Count
<1>4. CASE ~(Count(h) <= 1)
  <2>1. per_ip' = [per_ip EXCEPT ![k] = @ - 1]
    BY SMTT(30), <1>4 DEF release
  <2> QED
    BY SMTT(30), <1>1, <1>2, <1>4, <2>1 DEF Count
<1> QED
  BY <1>3, <1>4

(* The counts are those of the sessions there are, and strangers leave the *)
(* places that are kept: inductive.                                        *)
LEMMA DoorInvariant == DoorSpec => []DoorInv
<1>1. DoorInit => DoorInv
  <2> SUFFICES ASSUME DoorInit PROVE DoorInv
    OBVIOUS
  <2>1. peers \in [Host -> Nat] /\ total = 0 /\ DOMAIN per_ip = {} /\ per_ip \in [DOMAIN per_ip -> Nat]
    BY DEF DoorInit
  <2>2. ASSUME NEW S \in SUBSET Host PROVE Live(S) = 0
    <3> DEFINE f == [g \in S |-> peers[g]]
    <3>1. IsFiniteSet(S) /\ f \in [S -> Int] /\ \A g \in S : f[g] = 0
      BY DoorAssumption, FS_Subset DEF DoorInit
    <3>2. Live(S) = SumFunction(f)
      BY DEF Live
    <3> HIDE DEF f
    <3> QED
      BY <3>1, <3>2, SumZero
  <2>3. \A h \in Host : Count(h) = 0 /\ Alike(h) \in SUBSET Host
    BY <2>1 DEF Count, Alike
  <2>4. Loopback \in SUBSET Host /\ Strangers \in SUBSET Host
    BY DoorAssumption DEF Strangers
  <2> QED
    BY SMTT(30), <2>1, <2>2, <2>3, <2>4, ReservedType, DoorAssumption DEF DoorInv
<1>2. DoorInv /\ [DoorNext]_doorVars => DoorInv'
  <2> SUFFICES ASSUME DoorInv, [DoorNext]_doorVars PROVE DoorInv'
    OBVIOUS
  <2>0. /\ Loopback \in SUBSET Host /\ Strangers \in SUBSET Host /\ Host \in SUBSET Host
        /\ \A h \in Host : Alike(h) \in SUBSET Host /\ h \in Alike(h) /\ h \in Host
        /\ \A h \in Host : h \in Loopback <=> h \notin Strangers
        /\ \A h, g \in Host : h \in Alike(g) <=> key(g) = key(h)
        /\ \A h, g \in Host : key(g) = key(h) => Alike(g) = Alike(h)
    BY DoorAssumption DEF Strangers, Alike
  <2>1. /\ MaxTotal \in Nat /\ MaxPerIp \in Nat /\ reserved \in Nat
    BY SMTT(30), DoorAssumption, ReservedType
  <2>2. /\ peers \in [Host -> Nat] /\ total \in Nat
        /\ per_ip \in [DOMAIN per_ip -> Nat]
        /\ total = Live(Host) /\ total = Live(Loopback) + Live(Strangers)
        /\ total <= MaxTotal /\ Live(Strangers) <= MaxTotal - reserved
        /\ \A h \in Host : Count(h) = Live(Alike(h)) /\ Count(h) <= MaxPerIp
    BY SMTT(30) DEF DoorInv
  <2>3. \A S \in SUBSET Host : Live(S) \in Nat /\ \A h \in S : peers[h] <= Live(S)
    BY SMTT(30), <2>2, LiveType
  <2>4. ASSUME NEW h \in Host, Admit(h) PROVE DoorInv'
    <3>1. peers' = [peers EXCEPT ![h] = peers[h] + 1] /\ total' = total + 1 /\ peers[h] + 1 \in Nat
      BY <2>2, <2>4 DEF Admit
    <3>2. \A S \in SUBSET Host : Live(S)' = IF h \in S THEN Live(S) + 1 ELSE Live(S)
      <4> TAKE S \in SUBSET Host
      <4>1. Live(S)' = IF h \in S THEN Live(S) - peers[h] + (peers[h] + 1) ELSE Live(S)
        BY Zenon, <2>2, <3>1, LiveStep
      <4> QED
        BY <2>2, <2>3, <4>1
    <3>3. /\ per_ip' \in [DOMAIN per_ip' -> Nat]
          /\ \A g \in Host : Count(g)' = IF key(g) = key(h) THEN Count(h) + 1 ELSE Count(g)
      BY <2>2, <2>4, AdmitCounts
    <3>4. peers' \in [Host -> Nat] /\ total' \in Nat
      BY <2>2, <3>1
    <3>5. total' = Live(Host)' /\ total' = Live(Loopback)' + Live(Strangers)'
      <4>1. Live(Host)' = Live(Host) + 1
        BY SMTT(30), <2>0, <3>2
      <4>2. Live(Loopback)' = IF h \in Loopback THEN Live(Loopback) + 1 ELSE Live(Loopback)
        BY SMTT(30), <2>0, <3>2
      <4>3. Live(Strangers)' = IF h \in Loopback THEN Live(Strangers) ELSE Live(Strangers) + 1
        BY SMTT(30), <2>0, <3>2
      <4>4. Live(Loopback) \in Nat /\ Live(Strangers) \in Nat
        BY SMTT(30), <2>0, <2>3
      <4>5. total' = Live(Host)'
        BY ZenonT(30), <2>2, <3>1, <4>1
      <4>6. CASE h \in Loopback
        BY <2>2, <3>1, <4>2, <4>3, <4>4, <4>5, <4>6
      <4>7. CASE h \notin Loopback
        BY <2>2, <3>1, <4>2, <4>3, <4>4, <4>5, <4>7
      <4> QED
        BY <4>6, <4>7
    <3>6. total' <= MaxTotal /\ Live(Strangers)' <= MaxTotal - reserved
      <4>1. total < MaxTotal - (IF h \in Loopback THEN 0 ELSE reserved)
        BY SMTT(30), <2>4 DEF Admit, Admissible
      <4> QED
        BY SMTT(30), <2>0, <2>1, <2>2, <2>3, <3>1, <3>2, <4>1
    <3>7. ASSUME NEW g \in Host PROVE Count(g)' = Live(Alike(g))' /\ Count(g)' <= MaxPerIp
      <4>1. Count(h) < MaxPerIp
        BY SMTT(30), <2>4 DEF Admit, Admissible
      <4>2. Live(Alike(g))' = IF h \in Alike(g) THEN Live(Alike(g)) + 1 ELSE Live(Alike(g))
        BY SMTT(30), <2>0, <3>2
      <4> QED
        BY SMTT(30), <2>0, <2>1, <2>2, <2>3, <3>3, <4>1, <4>2
    <3> QED
      BY Zenon, <3>3, <3>4, <3>5, <3>6, <3>7 DEF DoorInv, Alike, key
  <2>5. ASSUME NEW h \in Host, SessionEnds(h) PROVE DoorInv'
    <3>1. peers' = [peers EXCEPT ![h] = peers[h] - 1] /\ peers[h] >= 1 /\ peers[h] - 1 \in Nat /\ release(h)
      BY <2>2, <2>5 DEF SessionEnds
    <3>2. \A S \in SUBSET Host : Live(S)' = IF h \in S THEN Live(S) - 1 ELSE Live(S)
      <4> TAKE S \in SUBSET Host
      <4>1. Live(S)' = IF h \in S THEN Live(S) - peers[h] + (peers[h] - 1) ELSE Live(S)
        BY ZenonT(30), <2>2, <3>1, LiveStep
      <4> QED
        BY <2>2, <2>3, <4>1
    <3>3. Count(h) >= 1 /\ total >= 1
      BY <2>0, <2>2, <2>3, <3>1
    <3>4. /\ per_ip' \in [DOMAIN per_ip' -> Nat]
          /\ \A g \in Host : Count(g)' = IF key(g) = key(h) THEN Count(h) - 1 ELSE Count(g)
      BY <2>2, <3>1, <3>3, ReleaseCounts
    <3>5. peers' \in [Host -> Nat] /\ total' \in Nat /\ total' = total - 1
      BY SMTT(30), <2>2, <3>1, <3>3 DEF release
    <3>6. total' = Live(Host)' /\ total' = Live(Loopback)' + Live(Strangers)'
      <4>1. Live(Host)' = Live(Host) - 1
        BY SMTT(30), <2>0, <3>2
      <4>2. Live(Loopback)' = IF h \in Loopback THEN Live(Loopback) - 1 ELSE Live(Loopback)
        BY SMTT(30), <2>0, <3>2
      <4>3. Live(Strangers)' = IF h \in Loopback THEN Live(Strangers) ELSE Live(Strangers) - 1
        BY SMTT(30), <2>0, <3>2
      <4>4. Live(Loopback) \in Nat /\ Live(Strangers) \in Nat
        BY <2>0, <2>3
      <4>5. total' = Live(Host)'
        BY ZenonT(30), <2>2, <3>5, <4>1
      <4>6. CASE h \in Loopback
        BY <2>2, <3>5, <4>2, <4>3, <4>4, <4>5, <4>6
      <4>7. CASE h \notin Loopback
        BY <2>2, <3>5, <4>2, <4>3, <4>4, <4>5, <4>7
      <4> QED
        BY <4>6, <4>7
    <3>7. total' <= MaxTotal /\ Live(Strangers)' <= MaxTotal - reserved
      BY SMTT(30), <2>0, <2>1, <2>2, <2>3, <3>2, <3>5
    <3>8. ASSUME NEW g \in Host PROVE Count(g)' = Live(Alike(g))' /\ Count(g)' <= MaxPerIp
      <4>2. Live(Alike(g))' = IF h \in Alike(g) THEN Live(Alike(g)) - 1 ELSE Live(Alike(g))
        BY SMTT(30), <2>0, <3>2
      <4> QED
        BY SMTT(30), <2>0, <2>1, <2>2, <2>3, <3>4, <4>2
    <3> QED
      BY Zenon, <3>4, <3>5, <3>6, <3>7, <3>8 DEF DoorInv, Alike, key
  <2>6. CASE UNCHANGED doorVars
    <3>1. per_ip' = per_ip /\ total' = total /\ peers' = peers
      BY <2>6 DEF doorVars
    <3> QED
      BY <2>2, <3>1 DEF DoorInv, Live, Count, key, Alike
  <2> QED
    BY SMTT(30), <2>4, <2>5, <2>6 DEF DoorNext
<1> QED
  BY <1>1, <1>2, PTL DEF DoorSpec

(* Every session is counted once, under whatever form of its address it    *)
(* came, no limit is passed, and loopback gets the places kept for it, for *)
(* any addresses and any limits (Connections::admit and release).          *)
THEOREM PlacesAreCounted == DoorSpec => []PlacesCounted
<1>1. DoorInv => PlacesCounted
  <2> SUFFICES ASSUME DoorInv PROVE PlacesCounted
    OBVIOUS
  <2>1. \A h \in Host : {g \in Host : key(g) = key(h)} = Alike(h)
    BY DEF Alike
  <2>2. ASSUME NEW h \in Loopback, Live(Loopback) < reserved, Count(h) < MaxPerIp PROVE Admissible(h)
    <3>1. Live(Loopback) \in Nat /\ Live(Strangers) \in Nat
      BY SMTT(30), LiveType, DoorAssumption DEF DoorInv, Strangers
    <3>2. total < MaxTotal
      BY <2>2, <3>1, ReservedType, DoorAssumption DEF DoorInv
    <3> QED
      BY SMTT(30), <2>2, <3>2, DoorAssumption DEF Admissible
  <2> QED
    BY <2>1, <2>2 DEF DoorInv, PlacesCounted
<1> QED
  BY <1>1, DoorInvariant, PTL
=============================================================================
