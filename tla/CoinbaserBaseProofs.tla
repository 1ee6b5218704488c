------------------------- MODULE CoinbaserBaseProofs -------------------------
(***************************************************************************)
(* The snapshot coinbaser replies are priced off, and the mutexes taken    *)
(* around it, for any number of connections.  What a function holds before *)
(* each of its steps is a fact about its sequence of steps alone, proved   *)
(* once for each; the invariant says that every task is before some step   *)
(* of a function it was called to run, and holds what the function holds   *)
(* there.                                                                  *)
(***************************************************************************)
EXTENDS CoinbaserBase, Integers, SequenceTheorems, TLAPS

StepName == {"slot+", "slot-", "ledger+", "ledger-", "blocks+", "blocks-",
             "look", "read", "store", "move", "clear"}

on_block_candidate == book_block_debits \o record_block

\* Before its k-th step, f has taken m and not given it back.
Holding(f, k, m) ==
  \E i \in 1 .. k - 1 : f[i] = Taking[m] /\ \A j \in i .. k - 1 : f[j] # Giving[m]

\* It has moved money and not dropped the snapshot since.
Late(f, k) ==
  \E i \in 1 .. k - 1 : f[i] = "move" /\ \A j \in i .. k - 1 : f[j] # "clear"

\* The order in which every function takes the mutexes.
Rank == [slot |-> 1, ledger |-> 2, blocks |-> 3]

\* A function that takes mutexes in that order, gives back what it holds and all of it, and
\* holds the snapshot's until money it moved is off the snapshot; but handle, for two steps.
Orderly(f) ==
  /\ \A k \in 1 .. Len(f), m, n \in Mutex : (f[k] = Taking[m] /\ Holding(f, k, n)) => Rank[n] < Rank[m]
  /\ \A k \in 1 .. Len(f), m \in Mutex : f[k] = Giving[m] => Holding(f, k, m)
  /\ \A m \in Mutex : ~Holding(f, Len(f) + 1, m)
  /\ \A k \in 1 .. Len(f) + 1 :
       Late(f, k) => k <= Len(f) /\ (Holding(f, k, "slot") \/ (f = handle /\ k \in {3, 4}))
  /\ \A k \in 1 .. Len(f) : f[k] \in {"look", "read", "store"} => f = coinbaser_base

-----------------------------------------------------------------------------
(* f is the n steps of s and then the m steps of t.                        *)
IsJoin(f, s, n, t, m) ==
  /\ Len(f) = n + m
  /\ \A i \in 1 .. n : f[i] = s[i]
  /\ \A i \in 1 .. m : f[n + i] = t[i]

(* What a concatenation is, step by step.                                  *)
LEMMA Joined ==
  ASSUME NEW X, NEW s \in Seq(X), NEW t \in Seq(X)
  PROVE  s \o t \in Seq(X) /\ IsJoin(s \o t, s, Len(s), t, Len(t))
<1>1. /\ s \o t \in Seq(X) /\ Len(s \o t) = Len(s) + Len(t)
      /\ \A i \in 1 .. Len(s) : (s \o t)[i] = s[i]
      /\ \A i \in 1 .. Len(t) : (s \o t)[Len(s) + i] = t[i]
  OBVIOUS
<1> QED
  BY <1>1, Zenon DEF IsJoin

(* The functions, step by step, and each of them sound.                    *)
LEMMA CoinbaserBaseSteps ==
  ASSUME NEW f, f = coinbaser_base
  PROVE  /\ f \in Seq(StepName) /\ Len(f) = 7
         /\ f[1] = "slot+" /\ f[2] = "look" /\ f[3] = "ledger+" /\ f[4] = "read" /\ f[5] = "ledger-"
         /\ f[6] = "store" /\ f[7] = "slot-"
  BY DEF coinbaser_base, StepName

(* coinbaser_base keeps to the order and moves no money.                   *)
LEMMA CoinbaserBaseSound == coinbaser_base \in Seq(StepName) /\ Orderly(coinbaser_base)
<1>1. PICK f : f = coinbaser_base
  OBVIOUS
<1>2. /\ f \in Seq(StepName) /\ Len(f) = 7
      /\ f[1] = "slot+" /\ f[2] = "look" /\ f[3] = "ledger+" /\ f[4] = "read" /\ f[5] = "ledger-"
      /\ f[6] = "store" /\ f[7] = "slot-"
  BY <1>1, CoinbaserBaseSteps
<1>3. \A k \in 1 .. Len(f), m, n \in Mutex : (f[k] = Taking[m] /\ Holding(f, k, n)) => Rank[n] < Rank[m]
  BY <1>2 DEF Holding, Mutex, Taking, Giving, Rank
<1>4. \A k \in 1 .. Len(f), m \in Mutex : f[k] = Giving[m] => Holding(f, k, m)
  BY <1>2 DEF Holding, Mutex, Taking, Giving
<1>5. \A m \in Mutex : ~Holding(f, Len(f) + 1, m)
  BY <1>2 DEF Holding, Mutex, Taking, Giving
<1>6. \A k \in 1 .. Len(f) + 1 : Late(f, k) => k <= Len(f) /\ Holding(f, k, "slot")
  BY <1>2 DEF Holding, Late, Taking, Giving
<1>7. f = coinbaser_base
  BY <1>1
<1> QED
  BY <1>1, <1>2, <1>3, <1>4, <1>5, <1>6, <1>7 DEF Orderly

(* The steps of book_block_debits and record_block.                        *)
LEMMA CandidateSteps ==
  ASSUME NEW f, f = on_block_candidate
  PROVE  /\ f \in Seq(StepName) /\ Len(f) = 8
         /\ f[1] = "slot+" /\ f[2] = "ledger+" /\ f[3] = "move" /\ f[4] = "ledger-" /\ f[5] = "clear"
         /\ f[6] = "slot-" /\ f[7] = "blocks+" /\ f[8] = "blocks-"
<1>1. PICK a : a = book_block_debits
  OBVIOUS
<1>2. PICK b : b = record_block
  OBVIOUS
<1>3. /\ a \in Seq(StepName) /\ Len(a) = 6
      /\ a[1] = "slot+" /\ a[2] = "ledger+" /\ a[3] = "move" /\ a[4] = "ledger-" /\ a[5] = "clear"
      /\ a[6] = "slot-"
  BY <1>1 DEF StepName, book_block_debits
<1>4. /\ b \in Seq(StepName) /\ Len(b) = 2
      /\ b[1] = "blocks+" /\ b[2] = "blocks-"
  BY <1>2 DEF StepName, record_block
<1>5. PICK g : g = a \o b
  BY Zenon
<1>6. g \in Seq(StepName) /\ IsJoin(g, a, 6, b, 2)
  BY <1>3, <1>4, <1>5, Joined, Zenon
<1>7. /\ Len(g) = 8
      /\ g[1] = a[1] /\ g[2] = a[2] /\ g[3] = a[3] /\ g[4] = a[4]
      /\ g[5] = a[5] /\ g[6] = a[6] /\ g[6 + 1] = b[1] /\ g[6 + 2] = b[2]
  BY <1>6 DEF IsJoin
<1>8. f = g
  BY <1>1, <1>2, <1>5, Zenon DEF on_block_candidate
<1> QED
  BY <1>3, <1>4, <1>6, <1>7, <1>8

(* A block candidate drops the snapshot before it gives the mutex back.    *)
LEMMA CandidateSound == on_block_candidate \in Seq(StepName) /\ Orderly(on_block_candidate)
<1>1. PICK f : f = on_block_candidate
  OBVIOUS
<1>2. /\ f \in Seq(StepName) /\ Len(f) = 8
      /\ f[1] = "slot+" /\ f[2] = "ledger+" /\ f[3] = "move" /\ f[4] = "ledger-" /\ f[5] = "clear"
      /\ f[6] = "slot-" /\ f[7] = "blocks+" /\ f[8] = "blocks-"
  BY <1>1, CandidateSteps
<1>3. \A k \in 1 .. Len(f), m, n \in Mutex : (f[k] = Taking[m] /\ Holding(f, k, n)) => Rank[n] < Rank[m]
  BY <1>2 DEF Holding, Mutex, Taking, Giving, Rank
<1>4. \A k \in 1 .. Len(f), m \in Mutex : f[k] = Giving[m] => Holding(f, k, m)
  BY <1>2 DEF Holding, Mutex, Taking, Giving
<1>5. \A m \in Mutex : ~Holding(f, Len(f) + 1, m)
  BY <1>2 DEF Holding, Mutex, Taking, Giving
<1>6. \A k \in 1 .. Len(f) + 1 : Late(f, k) => k <= Len(f) /\ Holding(f, k, "slot")
  BY <1>2 DEF Holding, Late, Taking, Giving
<1>7. \A k \in 1 .. Len(f) : f[k] \notin {"look", "read", "store"}
  BY <1>2
<1> QED
  BY <1>1, <1>2, <1>3, <1>4, <1>5, <1>6, <1>7 DEF Orderly

(* The steps of a credit.                                                  *)
LEMMA CreditSteps ==
  ASSUME NEW f, f = credit
  PROVE  /\ f \in Seq(StepName) /\ Len(f) = 2
         /\ f[1] = "ledger+" /\ f[2] = "ledger-"
  BY DEF credit, StepName

(* A credit takes the ledger alone.                                        *)
LEMMA CreditSound == credit \in Seq(StepName) /\ Orderly(credit)
<1>1. PICK f : f = credit
  OBVIOUS
<1>2. /\ f \in Seq(StepName) /\ Len(f) = 2
      /\ f[1] = "ledger+" /\ f[2] = "ledger-"
  BY <1>1, CreditSteps
<1>3. \A k \in 1 .. Len(f), m, n \in Mutex : (f[k] = Taking[m] /\ Holding(f, k, n)) => Rank[n] < Rank[m]
  BY <1>2 DEF Holding, Mutex, Taking, Giving, Rank
<1>4. \A k \in 1 .. Len(f), m \in Mutex : f[k] = Giving[m] => Holding(f, k, m)
  BY <1>2 DEF Holding, Mutex, Taking, Giving
<1>5. \A m \in Mutex : ~Holding(f, Len(f) + 1, m)
  BY <1>2 DEF Holding, Mutex, Taking, Giving
<1>6. \A k \in 1 .. Len(f) + 1 : Late(f, k) => k <= Len(f) /\ Holding(f, k, "slot")
  BY <1>2 DEF Holding, Late, Taking, Giving
<1>7. \A k \in 1 .. Len(f) : f[k] \notin {"look", "read", "store"}
  BY <1>2
<1> QED
  BY <1>1, <1>2, <1>3, <1>4, <1>5, <1>6, <1>7 DEF Orderly

(* The steps of settle_confirmed.                                          *)
LEMMA SettleSteps ==
  ASSUME NEW f, f = settle_confirmed_locks
  PROVE  /\ f \in Seq(StepName) /\ Len(f) = 8
         /\ f[1] = "slot+" /\ f[2] = "ledger+" /\ f[3] = "blocks+" /\ f[4] = "move" /\ f[5] = "blocks-"
         /\ f[6] = "ledger-" /\ f[7] = "clear" /\ f[8] = "slot-"
<1>1. PICK a : a = <<"slot+", "ledger+">>
  BY Zenon
<1>2. PICK b : b = update_block
  OBVIOUS
<1>3. PICK c : c = <<"ledger-", "clear", "slot-">>
  BY Zenon
<1>4. /\ a \in Seq(StepName) /\ Len(a) = 2
      /\ a[1] = "slot+" /\ a[2] = "ledger+"
  BY <1>1 DEF StepName
<1>5. /\ b \in Seq(StepName) /\ Len(b) = 3
      /\ b[1] = "blocks+" /\ b[2] = "move" /\ b[3] = "blocks-"
  BY <1>2 DEF StepName, update_block
<1>6. /\ c \in Seq(StepName) /\ Len(c) = 3
      /\ c[1] = "ledger-" /\ c[2] = "clear" /\ c[3] = "slot-"
  BY <1>3 DEF StepName
<1>7. PICK g : g = a \o b
  BY Zenon
<1>8. g \in Seq(StepName) /\ IsJoin(g, a, 2, b, 3)
  BY <1>4, <1>5, <1>7, Joined, Zenon
<1>9. /\ Len(g) = 5
      /\ g[1] = a[1] /\ g[2] = a[2] /\ g[2 + 1] = b[1] /\ g[2 + 2] = b[2]
      /\ g[2 + 3] = b[3]
  BY <1>8 DEF IsJoin
<1>10. f = g \o c
  BY <1>1, <1>2, <1>3, <1>7, Zenon DEF settle_confirmed_locks
<1>11. f \in Seq(StepName) /\ IsJoin(f, g, 5, c, 3)
  BY <1>6, <1>8, <1>9, <1>10, Joined, Zenon
<1>12. /\ Len(f) = 8
      /\ f[1] = g[1] /\ f[2] = g[2] /\ f[3] = g[3] /\ f[4] = g[4]
      /\ f[5] = g[5] /\ f[5 + 1] = c[1] /\ f[5 + 2] = c[2] /\ f[5 + 3] = c[3]
  BY <1>11 DEF IsJoin
<1> QED
  BY <1>4, <1>5, <1>6, <1>9, <1>11, <1>12

(* settle_confirmed holds all three mutexes while money moves.             *)
LEMMA SettleSound == settle_confirmed_locks \in Seq(StepName) /\ Orderly(settle_confirmed_locks)
<1>1. PICK f : f = settle_confirmed_locks
  OBVIOUS
<1>2. /\ f \in Seq(StepName) /\ Len(f) = 8
      /\ f[1] = "slot+" /\ f[2] = "ledger+" /\ f[3] = "blocks+" /\ f[4] = "move" /\ f[5] = "blocks-"
      /\ f[6] = "ledger-" /\ f[7] = "clear" /\ f[8] = "slot-"
  BY <1>1, SettleSteps
<1>3. \A k \in 1 .. Len(f), m, n \in Mutex : (f[k] = Taking[m] /\ Holding(f, k, n)) => Rank[n] < Rank[m]
  BY <1>2 DEF Holding, Mutex, Taking, Giving, Rank
<1>4. \A k \in 1 .. Len(f), m \in Mutex : f[k] = Giving[m] => Holding(f, k, m)
  BY <1>2 DEF Holding, Mutex, Taking, Giving
<1>5. \A m \in Mutex : ~Holding(f, Len(f) + 1, m)
  BY <1>2 DEF Holding, Mutex, Taking, Giving
<1>6. \A k \in 1 .. Len(f) + 1 : Late(f, k) => k <= Len(f) /\ Holding(f, k, "slot")
  BY <1>2 DEF Holding, Late, Taking, Giving
<1>7. \A k \in 1 .. Len(f) : f[k] \notin {"look", "read", "store"}
  BY <1>2
<1> QED
  BY <1>1, <1>2, <1>3, <1>4, <1>5, <1>6, <1>7 DEF Orderly

(* The steps of mark_orphan.                                               *)
LEMMA OrphanSteps ==
  ASSUME NEW f, f = mark_orphan_locks
  PROVE  /\ f \in Seq(StepName) /\ Len(f) = 10
         /\ f[1] = "blocks+" /\ f[2] = "blocks-" /\ f[3] = "slot+" /\ f[4] = "ledger+" /\ f[5] = "blocks+"
         /\ f[6] = "move" /\ f[7] = "blocks-" /\ f[8] = "ledger-" /\ f[9] = "clear" /\ f[10] = "slot-"
<1>1. PICK a : a = <<"blocks+", "blocks-", "slot+", "ledger+">>
  BY Zenon
<1>2. PICK b : b = update_block
  OBVIOUS
<1>3. PICK c : c = <<"ledger-", "clear", "slot-">>
  BY Zenon
<1>4. /\ a \in Seq(StepName) /\ Len(a) = 4
      /\ a[1] = "blocks+" /\ a[2] = "blocks-" /\ a[3] = "slot+" /\ a[4] = "ledger+"
  BY <1>1 DEF StepName
<1>5. /\ b \in Seq(StepName) /\ Len(b) = 3
      /\ b[1] = "blocks+" /\ b[2] = "move" /\ b[3] = "blocks-"
  BY <1>2 DEF StepName, update_block
<1>6. /\ c \in Seq(StepName) /\ Len(c) = 3
      /\ c[1] = "ledger-" /\ c[2] = "clear" /\ c[3] = "slot-"
  BY <1>3 DEF StepName
<1>7. PICK g : g = a \o b
  BY Zenon
<1>8. g \in Seq(StepName) /\ IsJoin(g, a, 4, b, 3)
  BY <1>4, <1>5, <1>7, Joined, Zenon
<1>9. /\ Len(g) = 7
      /\ g[1] = a[1] /\ g[2] = a[2] /\ g[3] = a[3] /\ g[4] = a[4]
      /\ g[4 + 1] = b[1] /\ g[4 + 2] = b[2] /\ g[4 + 3] = b[3]
  BY <1>8 DEF IsJoin
<1>10. f = g \o c
  BY <1>1, <1>2, <1>3, <1>7, Zenon DEF mark_orphan_locks
<1>11. f \in Seq(StepName) /\ IsJoin(f, g, 7, c, 3)
  BY <1>6, <1>8, <1>9, <1>10, Joined, Zenon
<1>12. /\ Len(f) = 10
      /\ f[1] = g[1] /\ f[2] = g[2] /\ f[3] = g[3] /\ f[4] = g[4]
      /\ f[5] = g[5] /\ f[6] = g[6] /\ f[7] = g[7] /\ f[7 + 1] = c[1]
      /\ f[7 + 2] = c[2] /\ f[7 + 3] = c[3]
  BY <1>11 DEF IsJoin
<1> QED
  BY <1>4, <1>5, <1>6, <1>9, <1>11, <1>12

(* mark_orphan gives the records back before it takes them inside the      *)
(* ledger.                                                                 *)
LEMMA OrphanSound == mark_orphan_locks \in Seq(StepName) /\ Orderly(mark_orphan_locks)
<1>1. PICK f : f = mark_orphan_locks
  OBVIOUS
<1>2. /\ f \in Seq(StepName) /\ Len(f) = 10
      /\ f[1] = "blocks+" /\ f[2] = "blocks-" /\ f[3] = "slot+" /\ f[4] = "ledger+" /\ f[5] = "blocks+"
      /\ f[6] = "move" /\ f[7] = "blocks-" /\ f[8] = "ledger-" /\ f[9] = "clear" /\ f[10] = "slot-"
  BY <1>1, OrphanSteps
<1>3. \A k \in 1 .. Len(f), m, n \in Mutex : (f[k] = Taking[m] /\ Holding(f, k, n)) => Rank[n] < Rank[m]
  BY <1>2 DEF Holding, Mutex, Taking, Giving, Rank
<1>4. \A k \in 1 .. Len(f), m \in Mutex : f[k] = Giving[m] => Holding(f, k, m)
  BY SMTT(30), <1>2 DEF Holding, Mutex, Taking, Giving
<1>5. \A m \in Mutex : ~Holding(f, Len(f) + 1, m)
  BY <1>2 DEF Holding, Mutex, Taking, Giving
<1>6. \A k \in 1 .. Len(f) + 1 : Late(f, k) => k <= Len(f) /\ Holding(f, k, "slot")
  BY <1>2 DEF Holding, Late, Taking, Giving
<1>7. \A k \in 1 .. Len(f) : f[k] \notin {"look", "read", "store"}
  BY <1>2
<1> QED
  BY <1>1, <1>2, <1>3, <1>4, <1>5, <1>6, <1>7 DEF Orderly

(* The steps of a solo rebate.                                             *)
LEMMA SoloSteps ==
  ASSUME NEW f, f = solo_rebate
  PROVE  /\ f \in Seq(StepName) /\ Len(f) = 6
         /\ f[1] = "slot+" /\ f[2] = "ledger+" /\ f[3] = "move" /\ f[4] = "ledger-" /\ f[5] = "clear"
         /\ f[6] = "slot-"
  BY DEF solo_rebate, StepName

(* A solo rebate drops the snapshot before it gives the mutex back.        *)
LEMMA SoloSound == solo_rebate \in Seq(StepName) /\ Orderly(solo_rebate)
<1>1. PICK f : f = solo_rebate
  OBVIOUS
<1>2. /\ f \in Seq(StepName) /\ Len(f) = 6
      /\ f[1] = "slot+" /\ f[2] = "ledger+" /\ f[3] = "move" /\ f[4] = "ledger-" /\ f[5] = "clear"
      /\ f[6] = "slot-"
  BY <1>1, SoloSteps
<1>3. \A k \in 1 .. Len(f), m, n \in Mutex : (f[k] = Taking[m] /\ Holding(f, k, n)) => Rank[n] < Rank[m]
  BY <1>2 DEF Holding, Mutex, Taking, Giving, Rank
<1>4. \A k \in 1 .. Len(f), m \in Mutex : f[k] = Giving[m] => Holding(f, k, m)
  BY <1>2 DEF Holding, Mutex, Taking, Giving
<1>5. \A m \in Mutex : ~Holding(f, Len(f) + 1, m)
  BY <1>2 DEF Holding, Mutex, Taking, Giving
<1>6. \A k \in 1 .. Len(f) + 1 : Late(f, k) => k <= Len(f) /\ Holding(f, k, "slot")
  BY <1>2 DEF Holding, Late, Taking, Giving
<1>7. \A k \in 1 .. Len(f) : f[k] \notin {"look", "read", "store"}
  BY <1>2
<1> QED
  BY <1>1, <1>2, <1>3, <1>4, <1>5, <1>6, <1>7 DEF Orderly

(* The steps of a payout request.                                          *)
LEMMA HandleSteps ==
  ASSUME NEW f, f = handle
  PROVE  /\ f \in Seq(StepName) /\ Len(f) = 6
         /\ f[1] = "ledger+" /\ f[2] = "move" /\ f[3] = "ledger-" /\ f[4] = "slot+" /\ f[5] = "clear"
         /\ f[6] = "slot-"
<1>1. PICK a : a = <<"ledger+", "move", "ledger-">>
  BY Zenon
<1>2. PICK b : b = drop_coinbaser_base
  OBVIOUS
<1>3. /\ a \in Seq(StepName) /\ Len(a) = 3
      /\ a[1] = "ledger+" /\ a[2] = "move" /\ a[3] = "ledger-"
  BY <1>1 DEF StepName
<1>4. /\ b \in Seq(StepName) /\ Len(b) = 3
      /\ b[1] = "slot+" /\ b[2] = "clear" /\ b[3] = "slot-"
  BY <1>2 DEF StepName, drop_coinbaser_base
<1>5. PICK g : g = a \o b
  BY Zenon
<1>6. g \in Seq(StepName) /\ IsJoin(g, a, 3, b, 3)
  BY <1>3, <1>4, <1>5, Joined, Zenon
<1>7. /\ Len(g) = 6
      /\ g[1] = a[1] /\ g[2] = a[2] /\ g[3] = a[3] /\ g[3 + 1] = b[1]
      /\ g[3 + 2] = b[2] /\ g[3 + 3] = b[3]
  BY <1>6 DEF IsJoin
<1>8. f = g
  BY <1>1, <1>2, <1>5, Zenon DEF handle
<1> QED
  BY <1>3, <1>4, <1>6, <1>7, <1>8

(* A payout request is late for two steps, and holds neither mutex inside  *)
(* the other.                                                              *)
LEMMA HandleSound == handle \in Seq(StepName) /\ Orderly(handle)
<1>1. PICK f : f = handle
  OBVIOUS
<1>2. /\ f \in Seq(StepName) /\ Len(f) = 6
      /\ f[1] = "ledger+" /\ f[2] = "move" /\ f[3] = "ledger-" /\ f[4] = "slot+" /\ f[5] = "clear"
      /\ f[6] = "slot-"
  BY <1>1, HandleSteps
<1>3. \A k \in 1 .. Len(f), m, n \in Mutex : (f[k] = Taking[m] /\ Holding(f, k, n)) => Rank[n] < Rank[m]
  BY <1>2 DEF Holding, Mutex, Taking, Giving, Rank
<1>4. \A k \in 1 .. Len(f), m \in Mutex : f[k] = Giving[m] => Holding(f, k, m)
  BY <1>2 DEF Holding, Mutex, Taking, Giving
<1>5. \A m \in Mutex : ~Holding(f, Len(f) + 1, m)
  BY <1>2 DEF Holding, Mutex, Taking, Giving
<1>6. \A k \in 1 .. Len(f) + 1 : Late(f, k) => k <= Len(f) /\ (Holding(f, k, "slot") \/ k \in {3, 4})
  BY <1>2 DEF Holding, Late, Taking, Giving
<1>7. \A k \in 1 .. Len(f) : f[k] \notin {"look", "read", "store"}
  BY <1>2
<1> QED
  BY <1>1, <1>2, <1>3, <1>4, <1>5, <1>6, <1>7 DEF Orderly

(* The steps of stats::build.                                              *)
LEMMA BuildSteps ==
  ASSUME NEW f, f = build
  PROVE  /\ f \in Seq(StepName) /\ Len(f) = 4
         /\ f[1] = "ledger+" /\ f[2] = "blocks+" /\ f[3] = "blocks-" /\ f[4] = "ledger-"
  BY DEF build, StepName

(* stats::build takes the records inside the ledger.                       *)
LEMMA BuildSound == build \in Seq(StepName) /\ Orderly(build)
<1>1. PICK f : f = build
  OBVIOUS
<1>2. /\ f \in Seq(StepName) /\ Len(f) = 4
      /\ f[1] = "ledger+" /\ f[2] = "blocks+" /\ f[3] = "blocks-" /\ f[4] = "ledger-"
  BY <1>1, BuildSteps
<1>3. \A k \in 1 .. Len(f), m, n \in Mutex : (f[k] = Taking[m] /\ Holding(f, k, n)) => Rank[n] < Rank[m]
  BY <1>2 DEF Holding, Mutex, Taking, Giving, Rank
<1>4. \A k \in 1 .. Len(f), m \in Mutex : f[k] = Giving[m] => Holding(f, k, m)
  BY <1>2 DEF Holding, Mutex, Taking, Giving
<1>5. \A m \in Mutex : ~Holding(f, Len(f) + 1, m)
  BY <1>2 DEF Holding, Mutex, Taking, Giving
<1>6. \A k \in 1 .. Len(f) + 1 : Late(f, k) => k <= Len(f) /\ Holding(f, k, "slot")
  BY <1>2 DEF Holding, Late, Taking, Giving
<1>7. \A k \in 1 .. Len(f) : f[k] \notin {"look", "read", "store"}
  BY <1>2
<1> QED
  BY <1>1, <1>2, <1>3, <1>4, <1>5, <1>6, <1>7 DEF Orderly

Program == {coinbaser_base, on_block_candidate, credit, settle_confirmed_locks, mark_orphan_locks, solo_rebate, handle, build}

(* Every function keeps to the order.                                      *)
LEMMA AllSound == \A f \in Program : f \in Seq(StepName) /\ Orderly(f)
  BY CoinbaserBaseSound, CandidateSound, CreditSound, SettleSound, OrphanSound, SoloSound, HandleSound,
     BuildSound DEF Program

(* Who may be called to do what; only the poller handles payout requests.  *)
LEMMA CallsAre ==
  ASSUME NEW t \in Task
  PROVE  Calls(t) \subseteq Program /\ Calls(t) # {} /\ (handle \in Calls(t) => t = "poller")
<1>1. /\ Len(handle) = 6 /\ Len(coinbaser_base) = 7 /\ Len(on_block_candidate) = 8
      /\ Len(credit) = 2 /\ Len(mark_orphan_locks) = 10 /\ Len(build) = 4
  BY HandleSteps, CoinbaserBaseSteps, CandidateSteps, CreditSteps, OrphanSteps, BuildSteps
<1>2. /\ handle # coinbaser_base /\ handle # on_block_candidate /\ handle # credit
      /\ handle # mark_orphan_locks /\ handle # build
  BY <1>1
<1>3. CASE t \in Conn
  <2>1. Calls(t) = {coinbaser_base, on_block_candidate, credit}
    BY <1>3, ConnAssumption DEF Calls, on_block_candidate
  <2> QED
    BY <1>2, <2>1 DEF Program
<1>4. CASE t = "poller"
  <2>1. Calls(t) = {settle_confirmed_locks, mark_orphan_locks, solo_rebate, handle, credit}
    BY <1>4, ConnAssumption DEF Calls
  <2> QED
    BY <1>4, <2>1 DEF Program
<1>5. CASE t = "submit"
  <2>1. Calls(t) = {mark_orphan_locks}
    BY <1>5, ConnAssumption DEF Calls
  <2> QED
    BY <1>2, <2>1 DEF Program
<1>6. CASE t = "stats"
  <2>1. Calls(t) = {build, credit}
    BY <1>6, ConnAssumption DEF Calls
  <2> QED
    BY <1>2, <2>1 DEF Program
<1> QED
  BY <1>3, <1>4, <1>5, <1>6 DEF Task

(* What a step does to the mutexes held, and to money moved.               *)
LEMMA HoldNext ==
  ASSUME NEW f \in Seq(StepName), NEW k \in 1 .. Len(f), NEW m \in Mutex
  PROVE  Holding(f, k + 1, m) <=> (f[k] = Taking[m] \/ (Holding(f, k, m) /\ f[k] # Giving[m]))
<1>1. Taking[m] # Giving[m]
  BY DEF Mutex, Taking, Giving
<1>2. k \in Int
  OBVIOUS
<1>3. ASSUME Holding(f, k + 1, m) PROVE f[k] = Taking[m] \/ (Holding(f, k, m) /\ f[k] # Giving[m])
  <2>1. PICK i \in 1 .. k : f[i] = Taking[m] /\ \A j \in i .. k : f[j] # Giving[m]
    <3>1. (k + 1) - 1 = k
      BY <1>2
    <3> QED
      BY <1>3, <3>1, Zenon DEF Holding
  <2>2. f[k] # Giving[m]
    BY <1>2, <2>1
  <2>3. CASE i = k
    BY <2>1, <2>3
  <2>4. CASE i # k
    <3>1. i \in 1 .. k - 1 /\ \A j \in i .. k - 1 : f[j] # Giving[m]
      BY <1>2, <2>1, <2>4
    <3>2. Holding(f, k, m)
      BY <2>1, <3>1 DEF Holding
    <3> QED
      BY <2>2, <3>2
  <2> QED
    BY <2>3, <2>4
<1>4. ASSUME f[k] = Taking[m] PROVE Holding(f, k + 1, m)
  BY <1>1, <1>2, <1>4 DEF Holding
<1>5. ASSUME Holding(f, k, m), f[k] # Giving[m] PROVE Holding(f, k + 1, m)
  BY <1>2, <1>5 DEF Holding
<1> QED
  BY <1>3, <1>4, <1>5

(* Money is late from the step that moves it to the one that drops the     *)
(* snapshot.                                                               *)
LEMMA LateNext ==
  ASSUME NEW f \in Seq(StepName), NEW k \in 1 .. Len(f)
  PROVE  Late(f, k + 1) <=> (f[k] = "move" \/ (Late(f, k) /\ f[k] # "clear"))
<1>2. k \in Int
  OBVIOUS
<1>3. ASSUME Late(f, k + 1) PROVE f[k] = "move" \/ (Late(f, k) /\ f[k] # "clear")
  BY <1>2, <1>3 DEF Late
<1>4. ASSUME f[k] = "move" PROVE Late(f, k + 1)
  BY <1>2, <1>4 DEF Late
<1>5. ASSUME Late(f, k), f[k] # "clear" PROVE Late(f, k + 1)
  BY <1>2, <1>5 DEF Late
<1> QED
  BY <1>3, <1>4, <1>5

\* p is what is left of f before its k-th step.
Rest(p, f, k) ==
  /\ p \in Seq(StepName) /\ Len(p) = Len(f) + 1 - k
  /\ \A i \in 1 .. Len(p) : p[i] = f[k - 1 + i]

(* A step taken leaves the rest of the function.                           *)
LEMMA RestNext ==
  ASSUME NEW f \in Seq(StepName), NEW k \in 1 .. Len(f) + 1, NEW p, Rest(p, f, k)
  PROVE  /\ (p = <<>>) <=> (k = Len(f) + 1)
         /\ p # <<>> => /\ k \in 1 .. Len(f) /\ Head(p) = f[k]
                        /\ k + 1 \in 1 .. Len(f) + 1 /\ Rest(Tail(p), f, k + 1)
<1>1. Len(f) \in Nat /\ k \in Nat /\ p \in Seq(StepName) /\ Len(p) = Len(f) + 1 - k
      /\ \A i \in 1 .. Len(p) : p[i] = f[k - 1 + i]
  BY DEF Rest
<1>2. (p = <<>>) <=> Len(p) = 0
  BY <1>1
<1>3. (p = <<>>) <=> (k = Len(f) + 1)
  BY <1>1, <1>2
<1>4. ASSUME p # <<>>
      PROVE  /\ k \in 1 .. Len(f) /\ Head(p) = f[k]
             /\ k + 1 \in 1 .. Len(f) + 1 /\ Rest(Tail(p), f, k + 1)
  <2>1. k \in 1 .. Len(f) /\ k + 1 \in 1 .. Len(f) + 1
    BY <1>1, <1>3, <1>4
  <2>2. Head(p) = p[1] /\ p[1] = f[k - 1 + 1] /\ k - 1 + 1 = k
    BY <1>1, <1>4, <2>1
  <2>3. Tail(p) \in Seq(StepName) /\ Len(Tail(p)) = Len(p) - 1 /\ \A i \in 1 .. Len(p) - 1 : Tail(p)[i] = p[i + 1]
    BY <1>1, <1>4
  <2>4. Len(Tail(p)) = Len(f) + 1 - (k + 1)
    BY <1>1, <2>3
  <2>5. ASSUME NEW i \in 1 .. Len(Tail(p)) PROVE Tail(p)[i] = f[(k + 1) - 1 + i]
    <3>1. i \in 1 .. Len(p) - 1 /\ i + 1 \in 1 .. Len(p) /\ i \in Int
      BY <1>1, <2>3
    <3>2. Tail(p)[i] = p[i + 1] /\ p[i + 1] = f[k - 1 + (i + 1)]
      BY <1>1, <2>3, <3>1
    <3>3. k - 1 + (i + 1) = (k + 1) - 1 + i
      BY <1>1, <3>1
    <3> QED
      BY <3>2, <3>3
  <2> QED
    BY SMTT(30), <2>1, <2>2, <2>3, <2>4, <2>5 DEF Rest
<1> QED
  BY <1>3, <1>4

\* Task t is before the k-th step of f, and holds what f holds there.
Placed(t, f, k) ==
  /\ f \in Calls(t) /\ k \in 1 .. Len(f) + 1 /\ Rest(todo[t], f, k)
  /\ \A m \in Mutex : owner[m] = t <=> Holding(f, k, m)

\* Whose money a snapshot may lack: someone's who will yet drop it.
Fresh(fn, pc) ==
  /\ \A u \in base.lacks : Late(fn[u], pc[u])
  /\ \A t \in Task : copy[t].has => fn[t] = coinbaser_base /\ pc[t] \in {5, 6}
  /\ \A t \in Task : \A u \in copy[t].lacks : copy[t].has /\ fn[u] = handle /\ pc[u] \in {3, 4}

Snapshot == [has : BOOLEAN, lacks : SUBSET Task]

Sits(fn, pc) ==
  /\ fn \in [Task -> Program] /\ pc \in [Task -> Nat]
  /\ todo \in [Task -> Seq(StepName)] /\ owner \in [Mutex -> Task \cup {"nobody"}]
  /\ base \in Snapshot /\ copy \in [Task -> Snapshot]
  /\ \A t \in Task : Placed(t, fn[t], pc[t])
  /\ Fresh(fn, pc)

BaseInv == \E fn, pc : Sits(fn, pc)

(* Nothing is called and nobody holds anything at the start.               *)
LEMMA BaseStarts == BaseInit => BaseInv
<1> SUFFICES ASSUME BaseInit PROVE BaseInv
  OBVIOUS
<1> DEFINE fn == [t \in Task |-> CHOOSE f : f \in Calls(t)]
           pc == [t \in Task |-> Len(fn[t]) + 1]
<1>1. ASSUME NEW t \in Task
      PROVE  fn[t] \in Calls(t) /\ fn[t] \in Program /\ fn[t] \in Seq(StepName) /\ Orderly(fn[t])
  BY <1>1, CallsAre, AllSound
<1>2. ASSUME NEW t \in Task PROVE pc[t] = Len(fn[t]) + 1 /\ Len(fn[t]) \in Nat /\ pc[t] \in Nat
  BY <1>1, <1>2
<1>3. fn \in [Task -> Program] /\ pc \in [Task -> Nat]
  BY <1>1, <1>2
<1> HIDE DEF fn, pc
<1>4. ASSUME NEW t \in Task PROVE Placed(t, fn[t], pc[t])
  <2>1. todo[t] = <<>> /\ \A m \in Mutex : owner[m] = "nobody"
    BY DEF BaseInit
  <2>2. t # "nobody"
    BY ConnAssumption DEF Task
  <2>3. \A m \in Mutex : ~Holding(fn[t], pc[t], m)
    BY <1>1, <1>2 DEF Orderly
  <2>4. Rest(todo[t], fn[t], pc[t])
    BY <1>1, <1>2, <2>1 DEF Rest
  <2> QED
    BY <1>1, <1>2, <2>1, <2>2, <2>3, <2>4 DEF Placed
<1>5. /\ todo \in [Task -> Seq(StepName)] /\ owner \in [Mutex -> Task \cup {"nobody"}]
      /\ base \in Snapshot /\ copy \in [Task -> Snapshot]
  BY DEF BaseInit, NoBase, Snapshot
<1>6. Fresh(fn, pc)
  BY DEF Fresh, BaseInit, NoBase
<1> QED
  BY Zenon, <1>3, <1>4, <1>5, <1>6 DEF BaseInv, Sits

(* Where a reply's snapshot is read and stored, and where a payout request *)
(* is late.                                                                *)
LEMMA ReplyFacts ==
  /\ coinbaser_base # handle /\ Len(coinbaser_base) = 7
  /\ \A k \in 1 .. 7 :
       /\ coinbaser_base[k] = "look" <=> k = 2
       /\ coinbaser_base[k] = "read" <=> k = 4
       /\ coinbaser_base[k] = "store" <=> k = 6
       /\ coinbaser_base[k] # "move" /\ coinbaser_base[k] # "clear"
  /\ coinbaser_base[7] = "slot-"
  /\ \A k \in 1 .. 8 : ~Late(coinbaser_base, k)
  /\ Holding(coinbaser_base, 5, "slot") /\ Holding(coinbaser_base, 6, "slot")
  /\ \A m \in Mutex : Holding(coinbaser_base, 7, m) <=> Holding(coinbaser_base, 2, m)
<1>1. PICK f : f = coinbaser_base
  OBVIOUS
<1>2. /\ f \in Seq(StepName) /\ Len(f) = 7
      /\ f[1] = "slot+" /\ f[2] = "look" /\ f[3] = "ledger+" /\ f[4] = "read" /\ f[5] = "ledger-"
      /\ f[6] = "store" /\ f[7] = "slot-"
  BY <1>1, CoinbaserBaseSteps
<1>3. Len(handle) = 6
  BY HandleSteps
<1>4. \A k \in 1 .. 7 :
        /\ f[k] = "look" <=> k = 2
        /\ f[k] = "read" <=> k = 4
        /\ f[k] = "store" <=> k = 6
        /\ f[k] # "move" /\ f[k] # "clear"
  BY <1>2
<1>5. \A k \in 1 .. 8 : ~Late(f, k)
  BY <1>2 DEF Late
<1>6. Holding(f, 5, "slot") /\ Holding(f, 6, "slot")
  BY <1>2 DEF Holding, Taking, Giving
<1>7. \A m \in Mutex : Holding(f, 7, m) <=> Holding(f, 2, m)
  <2>1. Holding(f, 7, "slot") /\ Holding(f, 2, "slot")
    BY <1>2 DEF Holding, Taking, Giving
  <2>2. ~Holding(f, 7, "ledger") /\ ~Holding(f, 2, "ledger")
    BY <1>2 DEF Holding, Taking, Giving
  <2>3. ~Holding(f, 7, "blocks") /\ ~Holding(f, 2, "blocks")
    BY <1>2 DEF Holding, Taking, Giving
  <2> QED
    BY <2>1, <2>2, <2>3 DEF Mutex
<1>8. f # handle /\ Len(f) = 7 /\ f[7] = "slot-"
  BY Zenon, <1>2, <1>3
<1> QED
  BY <1>1, <1>4, <1>5, <1>6, <1>7, <1>8, Zenon

(* The two steps for which a payout request is late.                       *)
LEMMA HandleFacts ==
  /\ Len(handle) = 6 /\ handle[3] = "ledger-" /\ handle[4] = "slot+"
  /\ Late(handle, 3) /\ Late(handle, 4)
<1>1. PICK f : f = handle
  OBVIOUS
<1>2. /\ f \in Seq(StepName) /\ Len(f) = 6
      /\ f[1] = "ledger+" /\ f[2] = "move" /\ f[3] = "ledger-" /\ f[4] = "slot+" /\ f[5] = "clear"
      /\ f[6] = "slot-"
  BY <1>1, HandleSteps
<1>3. Late(f, 3) /\ Late(f, 4)
  BY <1>2 DEF Late
<1> QED
  BY <1>1, <1>2, <1>3

\* Every task has its place.
Seated(fn, pc) ==
  /\ todo \in [Task -> Seq(StepName)] /\ pc \in [Task -> Nat]
  /\ \A u \in Task : Placed(u, fn[u], pc[u])

\* After its k-th step t holds what f holds then, and the others what they held.
Hands(t, f, k) ==
  /\ \A m \in Mutex : owner'[m] = t <=> Holding(f, k + 1, m)
  /\ \A m \in Mutex : \A u \in Task \ {t} : owner'[m] = u <=> owner[m] = u

(* A task takes its next step: every task is placed again.                 *)
LEMMA PlacedNext ==
  ASSUME NEW fn, NEW pc, Sits(fn, pc), NEW t \in Task, todo[t] # <<>>, Goes(t),
         NEW pc2, pc2 = [pc EXCEPT ![t] = pc[t] + 1], Hands(t, fn[t], pc[t])
  PROVE  Seated(fn, pc2)'
<1>1. /\ fn \in [Task -> Program] /\ pc \in [Task -> Nat] /\ todo \in [Task -> Seq(StepName)]
      /\ \A u \in Task : Placed(u, fn[u], pc[u])
  BY DEF Sits
<1>2. fn[t] \in Seq(StepName)
  BY <1>1, AllSound
<1>3. /\ pc[t] + 1 \in 1 .. Len(fn[t]) + 1 /\ Rest(Tail(todo[t]), fn[t], pc[t] + 1)
  BY <1>1, <1>2, RestNext DEF Placed
<1>4. todo' = [todo EXCEPT ![t] = Tail(todo[t])]
  BY DEF Goes
<1>5. todo' \in [Task -> Seq(StepName)] /\ pc2 \in [Task -> Nat]
  BY <1>1, <1>3, <1>4 DEF Rest
<1>6. ASSUME NEW u \in Task PROVE Placed(u, fn[u], pc2[u])'
  <2>1. CASE u = t
    <3>1. todo'[t] = Tail(todo[t]) /\ pc2[t] = pc[t] + 1
      BY <1>1, <1>4
    <3> QED
      BY <1>1, <1>3, <2>1, <3>1 DEF Placed, Hands
  <2>2. CASE u # t
    <3>1. todo'[u] = todo[u] /\ pc2[u] = pc[u]
      BY <1>1, <1>4, <2>2
    <3>2. \A m \in Mutex : owner'[m] = u <=> owner[m] = u
      BY <2>2 DEF Hands
    <3> QED
      BY Zenon, <1>1, <2>2, <3>1, <3>2 DEF Placed
  <2> QED
    BY <2>1, <2>2
<1> QED
  BY <1>5, <1>6 DEF Seated

(* Where a task is that is about to take the step `op'.                    *)
LEMMA AtStep ==
  ASSUME NEW fn, NEW pc, Sits(fn, pc), NEW t \in Task, NEW op, At(t, op)
  PROVE  /\ fn[t] \in Program /\ fn[t] \in Seq(StepName) /\ Orderly(fn[t])
         /\ pc[t] \in 1 .. Len(fn[t]) /\ fn[t][pc[t]] = op /\ todo[t] # <<>>
         /\ \A m \in Mutex : owner[m] = t <=> Holding(fn[t], pc[t], m)
<1>1. fn[t] \in Program /\ Placed(t, fn[t], pc[t])
  BY DEF Sits
<1>2. fn[t] \in Seq(StepName) /\ Orderly(fn[t])
  BY <1>1, AllSound
<1>3. pc[t] \in 1 .. Len(fn[t]) + 1 /\ Rest(todo[t], fn[t], pc[t])
  BY <1>1 DEF Placed
<1>4. pc[t] \in 1 .. Len(fn[t]) /\ Head(todo[t]) = fn[t][pc[t]] /\ todo[t] # <<>> /\ Head(todo[t]) = op
  BY <1>2, <1>3, RestNext DEF At
<1> QED
  BY <1>1, <1>2, <1>4 DEF Placed

(* A step that leaves the mutexes alone leaves them to whom they were.     *)
LEMMA MutexStays ==
  ASSUME NEW fn, NEW pc, Sits(fn, pc), NEW t \in Task,
         NEW op \in {"look", "read", "store", "move", "clear"}, At(t, op), owner' = owner
  PROVE  owner' \in [Mutex -> Task \cup {"nobody"}] /\ Hands(t, fn[t], pc[t])
<1>1. /\ fn[t] \in Seq(StepName) /\ pc[t] \in 1 .. Len(fn[t]) /\ fn[t][pc[t]] = op
      /\ \A m \in Mutex : owner[m] = t <=> Holding(fn[t], pc[t], m)
  BY AtStep
<1>2. ASSUME NEW m \in Mutex PROVE owner'[m] = t <=> Holding(fn[t], pc[t] + 1, m)
  <2>1. op # Taking[m] /\ op # Giving[m]
    BY DEF Mutex, Taking, Giving
  <2> QED
    BY <1>1, <2>1, HoldNext
<1> QED
  BY <1>2 DEF Sits, Hands

(* Whose step it is does not matter to the others' places.                 *)
LEMMA FreshNext ==
  ASSUME NEW fn, NEW pc, Sits(fn, pc), NEW t \in Task, NEW op, At(t, op),
         op \notin {"read", "store", "move", "clear"}, op = "slot+" => owner["slot"] = "nobody",
         base' = base, copy' = copy, NEW pc2, pc2 = [pc EXCEPT ![t] = pc[t] + 1]
  PROVE  Fresh(fn, pc2)'
<1>1. /\ fn[t] \in Seq(StepName) /\ pc[t] \in 1 .. Len(fn[t]) /\ fn[t][pc[t]] = op
  BY AtStep
<1>2. /\ pc \in [Task -> Nat] /\ base \in Snapshot /\ copy \in [Task -> Snapshot] /\ Fresh(fn, pc)
      /\ \A u \in Task : Placed(u, fn[u], pc[u])
  BY DEF Sits
<1>3. pc2[t] = pc[t] + 1 /\ \A u \in Task \ {t} : pc2[u] = pc[u]
  BY <1>2
<1>4. ASSUME NEW u \in base.lacks PROVE Late(fn[u], pc2[u])
  <2>1. u \in Task /\ Late(fn[u], pc[u])
    BY <1>2 DEF Fresh, Snapshot
  <2>2. CASE u = t
    BY <1>1, <1>3, <2>1, <2>2, LateNext
  <2>3. CASE u # t
    BY <1>3, <2>1, <2>3
  <2> QED
    BY <2>2, <2>3
<1>5. ASSUME NEW s \in Task, copy[s].has PROVE fn[s] = coinbaser_base /\ pc2[s] \in {5, 6}
  <2>1. fn[s] = coinbaser_base /\ pc[s] \in {5, 6}
    BY <1>2, <1>5 DEF Fresh
  <2>2. s = t => pc[s] # 6
    BY <1>1, <2>1, ReplyFacts
  <2> QED
    BY <1>3, <2>1, <2>2
<1>6. ASSUME NEW s \in Task, NEW u \in copy[s].lacks
      PROVE  copy[s].has /\ fn[u] = handle /\ pc2[u] \in {3, 4}
  <2>1. u \in Task /\ copy[s].has /\ fn[u] = handle /\ pc[u] \in {3, 4}
    BY <1>2 DEF Fresh, Snapshot
  <2>2. owner["slot"] = s /\ s # "nobody"
    <3>1. fn[s] = coinbaser_base /\ pc[s] \in {5, 6}
      BY <1>2, <2>1 DEF Fresh
    <3>2. Holding(fn[s], pc[s], "slot")
      BY <3>1, ReplyFacts
    <3> QED
      BY <1>2, <3>2, ConnAssumption DEF Placed, Mutex, Task
  <2>3. u = t => pc[u] # 4
    BY <1>1, <2>1, <2>2, HandleFacts
  <2> QED
    BY <1>3, <2>1, <2>3
<1> QED
  BY <1>4, <1>5, <1>6 DEF Fresh

(* Every step keeps every task placed and the snapshot fresh.              *)
LEMMA LockKeeps ==
  ASSUME NEW fn, NEW pc, Sits(fn, pc), NEW t \in Task, Lock(t) \/ Unlock(t)
  PROVE  BaseInv'
<1>0. PICK pc2 : pc2 = [pc EXCEPT ![t] = pc[t] + 1]
  BY Zenon
<1>1. /\ fn \in [Task -> Program] /\ owner \in [Mutex -> Task \cup {"nobody"}]
      /\ base \in Snapshot /\ copy \in [Task -> Snapshot]
  BY DEF Sits
<1>2. t # "nobody"
  BY ConnAssumption DEF Task
<1>3. ASSUME NEW m \in Mutex, NEW op, At(t, op), Goes(t), base' = base, copy' = copy, NEW w \in Task \cup {"nobody"},
             owner' = [owner EXCEPT ![m] = w],
             \/ op = Taking[m] /\ w = t /\ owner[m] = "nobody"
             \/ op = Giving[m] /\ w = "nobody"
      PROVE  BaseInv'
  <2>1. /\ fn[t] \in Seq(StepName) /\ pc[t] \in 1 .. Len(fn[t]) /\ fn[t][pc[t]] = op /\ todo[t] # <<>>
        /\ Orderly(fn[t]) /\ \A n \in Mutex : owner[n] = t <=> Holding(fn[t], pc[t], n)
    BY <1>3, AtStep
  <2>2. op = Giving[m] => owner[m] = t
    BY <2>1 DEF Orderly
  <2>3. ASSUME NEW n \in Mutex PROVE owner'[n] = t <=> Holding(fn[t], pc[t] + 1, n)
    <3>1. Holding(fn[t], pc[t] + 1, n) <=> (op = Taking[n] \/ (Holding(fn[t], pc[t], n) /\ op # Giving[n]))
      BY <2>1, HoldNext
    <3>2. CASE n = m
      <4>1. owner'[n] = w /\ Taking[m] # Giving[m]
        BY <1>1, <1>3, <3>2 DEF Mutex, Taking, Giving
      <4> QED
        BY <1>2, <1>3, <3>1, <3>2, <4>1
    <3>3. CASE n # m
      <4>1. owner'[n] = owner[n] /\ op # Taking[n] /\ op # Giving[n]
        BY <1>1, <1>3, <3>3 DEF Mutex, Taking, Giving
      <4> QED
        BY <2>1, <3>1, <4>1
    <3> QED
      BY <3>2, <3>3
  <2>4. ASSUME NEW n \in Mutex, NEW u \in Task \ {t} PROVE owner'[n] = u <=> owner[n] = u
    <3>1. u # "nobody"
      BY ConnAssumption DEF Task
    <3>2. CASE n = m
      <4>1. owner'[n] = w
        BY <1>1, <1>3, <3>2
      <4>2. owner[n] = "nobody" \/ owner[n] = t
        BY <1>3, <2>2, <3>2
      <4> QED
        BY <1>3, <3>1, <4>1, <4>2
    <3>3. CASE n # m
      BY <1>1, <1>3, <3>3
    <3> QED
      BY <3>2, <3>3
  <2>5. Seated(fn, pc2)'
    <3>1. Hands(t, fn[t], pc[t])
      BY <2>3, <2>4 DEF Hands
    <3> QED
      BY Zenon, <1>0, <1>3, <2>1, <3>1, PlacedNext
  <2>6. op \notin {"read", "store", "move", "clear"} /\ (op = "slot+" => owner["slot"] = "nobody")
    BY <1>3 DEF Mutex, Taking, Giving
  <2>7. Fresh(fn, pc2)'
    BY Zenon, <1>0, <1>3, <2>6, FreshNext
  <2>8. owner' \in [Mutex -> Task \cup {"nobody"}]
    BY <1>1, <1>3
  <2>9. Sits(fn, pc2)'
    BY SMTT(30), <1>1, <1>3, <2>5, <2>7, <2>8 DEF Sits, Seated
  <2> QED
    BY <2>9 DEF BaseInv
<1>4. CASE Lock(t)
  <2>1. PICK m \in Mutex : /\ At(t, Taking[m]) /\ owner[m] = "nobody"
                           /\ owner' = [owner EXCEPT ![m] = t]
                           /\ Goes(t) /\ base' = base /\ copy' = copy
    BY Zenon, <1>4 DEF Lock
  <2> QED
    BY Zenon, <1>3, <2>1
<1>5. CASE Unlock(t)
  <2>1. PICK m \in Mutex : /\ At(t, Giving[m])
                           /\ owner' = [owner EXCEPT ![m] = "nobody"]
                           /\ Goes(t) /\ base' = base /\ copy' = copy
    BY Zenon, <1>5 DEF Unlock
  <2> QED
    BY Zenon, <1>3, <2>1
<1> QED
  BY <1>4, <1>5

(* A reply finds a snapshot, or goes on to make one.                       *)
LEMMA LookKeeps ==
  ASSUME NEW fn, NEW pc, Sits(fn, pc), NEW t \in Task, Look(t)
  PROVE  BaseInv'
<1>0. At(t, "look") /\ owner' = owner /\ base' = base /\ copy' = copy
  BY DEF Look
<1>1. /\ fn \in [Task -> Program] /\ pc \in [Task -> Nat] /\ todo \in [Task -> Seq(StepName)]
      /\ owner \in [Mutex -> Task \cup {"nobody"}] /\ base \in Snapshot /\ copy \in [Task -> Snapshot]
      /\ Fresh(fn, pc) /\ \A u \in Task : Placed(u, fn[u], pc[u])
  BY DEF Sits
<1>2. CASE Goes(t)
  <2>0. PICK pc2 : pc2 = [pc EXCEPT ![t] = pc[t] + 1]
    BY Zenon
  <2>1. todo[t] # <<>>
    BY <1>0, AtStep
  <2>2. Hands(t, fn[t], pc[t])
    BY <1>0, MutexStays
  <2>3. Seated(fn, pc2)'
    BY Zenon, <1>2, <2>0, <2>1, <2>2, PlacedNext
  <2>4. Fresh(fn, pc2)'
    BY Zenon, <1>0, <2>0, FreshNext
  <2>5. Sits(fn, pc2)'
    BY <1>0, <1>1, <2>3, <2>4 DEF Sits, Seated
  <2> QED
    BY <2>5 DEF BaseInv
<1>3. CASE todo' = [todo EXCEPT ![t] = <<"slot-">>]
  <2>0. PICK pc2 : pc2 = [pc EXCEPT ![t] = 7]
    BY Zenon
  <2>1. /\ fn[t] \in Program /\ Orderly(fn[t]) /\ pc[t] \in 1 .. Len(fn[t]) /\ fn[t][pc[t]] = "look"
    BY <1>0, AtStep
  <2>2. fn[t] = coinbaser_base
    BY <2>1 DEF Orderly
  <2>3. pc[t] = 2
    BY <2>1, <2>2, ReplyFacts
  <2>4. pc2 \in [Task -> Nat] /\ pc2[t] = 7 /\ \A u \in Task \ {t} : pc2[u] = pc[u] /\ todo'[u] = todo[u]
    BY <1>1, <1>3, <2>0
  <2>5. todo'[t] = <<"slot-">> /\ todo' \in [Task -> Seq(StepName)]
    <3>1. <<"slot-">> \in Seq(StepName)
      BY DEF StepName
    <3> QED
      BY <1>1, <1>3, <3>1
  <2>6. ASSUME NEW u \in Task PROVE Placed(u, fn[u], pc2[u])'
    <3>1. CASE u = t
      <4>1. Rest(<<"slot-">>, coinbaser_base, 7)
        <5>1. <<"slot-">> \in Seq(StepName) /\ Len(<<"slot-">>) = 1 /\ <<"slot-">>[1] = "slot-"
          BY DEF StepName
        <5>2. Len(coinbaser_base) = 7 /\ coinbaser_base[7] = "slot-"
          BY ReplyFacts
        <5> QED
          BY <5>1, <5>2 DEF Rest
      <4>2. \A m \in Mutex : owner'[m] = t <=> Holding(coinbaser_base, 7, m)
        BY <1>0, <1>1, <2>2, <2>3, ReplyFacts DEF Placed
      <4>3. coinbaser_base \in Calls(t) /\ 7 \in 1 .. Len(coinbaser_base) + 1
        BY <1>1, <2>2, ReplyFacts DEF Placed
      <4> QED
        BY <2>2, <2>4, <2>5, <3>1, <4>1, <4>2, <4>3 DEF Placed
    <3>2. CASE u # t
      <4>1. todo'[u] = todo[u] /\ pc2[u] = pc[u]
        BY <2>4, <3>2
      <4> QED
        BY <1>0, <1>1, <4>1 DEF Placed
    <3> QED
      BY <3>1, <3>2
  <2>7. Fresh(fn, pc2)'
    <3>1. base.lacks \subseteq Task /\ \A s \in Task : copy[s].lacks \subseteq Task
      BY <1>1 DEF Snapshot
    <3>2. t \notin base.lacks
      <4>1. ~Late(fn[t], pc[t])
        BY <2>2, <2>3, ReplyFacts
      <4> QED
        BY <1>1, <4>1 DEF Fresh
    <3>0. pc[t] \notin {5, 6} /\ pc[t] \notin {3, 4}
      BY <2>3
    <3>3. ~copy[t].has
      BY <1>1, <3>0, Zenon DEF Fresh
    <3>4. \A s \in Task : t \notin copy[s].lacks
      BY <1>1, <3>0, Zenon DEF Fresh
    <3>5. \A u \in base.lacks : Late(fn[u], pc2[u])
      BY Zenon, <1>1, <2>4, <3>1, <3>2 DEF Fresh
    <3>6. \A s \in Task : copy[s].has => fn[s] = coinbaser_base /\ pc2[s] \in {5, 6}
      BY <1>1, <2>4, <3>3 DEF Fresh
    <3>7. ASSUME NEW s \in Task, NEW u \in copy[s].lacks
          PROVE  copy[s].has /\ fn[u] = handle /\ pc2[u] \in {3, 4}
      <4>1. pc2[u] = pc[u]
        BY <2>4, <3>1, <3>4
      <4>2. copy[s].has /\ fn[u] = handle /\ pc[u] \in {3, 4}
        BY <1>1, Zenon DEF Fresh
      <4> QED
        BY <4>1, <4>2
    <3> QED
      BY <1>0, <3>5, <3>6, <3>7 DEF Fresh
  <2>8. Sits(fn, pc2)'
    BY <1>0, <1>1, <2>4, <2>5, <2>6, <2>7 DEF Sits
  <2> QED
    BY <2>8 DEF BaseInv
<1> QED
  BY <1>2, <1>3 DEF Look

(* A step that takes no mutex keeps the tasks placed, if it keeps the      *)
(* snapshot fresh.                                                         *)
LEMMA MoneyKeeps ==
  ASSUME NEW fn, NEW pc, Sits(fn, pc), NEW t \in Task,
         NEW op \in {"look", "read", "store", "move", "clear"}, At(t, op), Goes(t), owner' = owner,
         NEW pc2, pc2 = [pc EXCEPT ![t] = pc[t] + 1],
         base' \in Snapshot, copy' \in [Task -> Snapshot], Fresh(fn, pc2)'
  PROVE  BaseInv'
<1>1. owner' \in [Mutex -> Task \cup {"nobody"}] /\ Hands(t, fn[t], pc[t])
  BY MutexStays
<1>2. todo[t] # <<>>
  BY AtStep
<1>3. Seated(fn, pc2)'
  BY Zenon, <1>1, <1>2, PlacedNext
<1>4. Sits(fn, pc2)'
  BY <1>1, <1>3 DEF Sits, Seated
<1> QED
  BY <1>4 DEF BaseInv

(* A snapshot is read, stored or dropped, or money moves.                  *)
LEMMA SnapshotKeeps ==
  ASSUME NEW fn, NEW pc, Sits(fn, pc), NEW t \in Task, Read(t) \/ Store(t) \/ Clear(t) \/ Move(t)
  PROVE  BaseInv'
<1>0. PICK pc2 : pc2 = [pc EXCEPT ![t] = pc[t] + 1]
  BY Zenon
<1>1. /\ fn \in [Task -> Program] /\ pc \in [Task -> Nat] /\ base \in Snapshot /\ copy \in [Task -> Snapshot]
      /\ \A u \in Task : Placed(u, fn[u], pc[u])
  BY DEF Sits
<1>2. /\ \A u \in base.lacks : Late(fn[u], pc[u])
      /\ \A s \in Task : copy[s].has => fn[s] = coinbaser_base /\ pc[s] \in {5, 6}
      /\ \A s \in Task : \A u \in copy[s].lacks : copy[s].has /\ fn[u] = handle /\ pc[u] \in {3, 4}
  BY Zenon DEF Sits, Fresh
<1>3. base.lacks \subseteq Task /\ \A s \in Task : copy[s].lacks \subseteq Task /\ copy[s].has \in BOOLEAN
  BY <1>1 DEF Snapshot
<1>4. pc2[t] = pc[t] + 1 /\ \A u \in Task \ {t} : pc2[u] = pc[u]
  BY <1>0, <1>1
<1>5. NoBase \in Snapshot /\ NoBase.lacks = {} /\ NoBase.has = FALSE
  BY DEF NoBase, Snapshot
<1>6. CASE Read(t)
  <2>0. /\ At(t, "read") /\ Goes(t) /\ owner' = owner /\ base' = base
        /\ copy' = [copy EXCEPT ![t] = [has |-> TRUE, lacks |-> {}]]
    BY <1>6 DEF Read
  <2>1. /\ fn[t] \in Seq(StepName) /\ Orderly(fn[t]) /\ pc[t] \in 1 .. Len(fn[t]) /\ fn[t][pc[t]] = "read"
    BY <2>0, AtStep
  <2>2. fn[t] = coinbaser_base
    BY <2>1 DEF Orderly
  <2>3. pc[t] = 4 /\ ~Late(fn[t], pc[t]) /\ coinbaser_base # handle
    BY <2>1, <2>2, ReplyFacts
  <2>4. copy' \in [Task -> Snapshot] /\ copy'[t].has /\ copy'[t].lacks = {} /\ \A s \in Task \ {t} : copy'[s] = copy[s]
    <3>1. [has |-> TRUE, lacks |-> {}] \in Snapshot
      BY DEF Snapshot
    <3> QED
      BY <1>1, <2>0, <3>1
  <2>5. \A u \in base.lacks : Late(fn[u], pc2[u])
    BY <1>2, <1>3, <1>4, <2>3
  <2>6. ASSUME NEW s \in Task, copy'[s].has PROVE fn[s] = coinbaser_base /\ pc2[s] \in {5, 6}
    <3>1. CASE s = t
      BY <1>4, <2>2, <2>3, <3>1
    <3>2. CASE s # t
      BY <1>2, <1>4, <2>4, <2>6, <3>2
    <3> QED
      BY <3>1, <3>2
  <2>7. ASSUME NEW s \in Task, NEW u \in copy'[s].lacks
        PROVE  copy'[s].has /\ fn[u] = handle /\ pc2[u] \in {3, 4}
    <3>1. s # t /\ copy'[s] = copy[s]
      BY <2>4
    <3>2. copy[s].has /\ fn[u] = handle /\ pc[u] \in {3, 4} /\ u \in Task
      BY <1>2, <1>3, <3>1
    <3>3. u # t
      BY <2>2, <2>3, <3>2
    <3> QED
      BY <1>4, <3>1, <3>2, <3>3
  <2>8. Fresh(fn, pc2)'
    BY <2>0, <2>5, <2>6, <2>7 DEF Fresh
  <2> QED
    BY Zenon, <1>0, <1>1, <2>0, <2>4, <2>8, MoneyKeeps
<1>7. CASE Store(t)
  <2>0. /\ At(t, "store") /\ Goes(t) /\ owner' = owner /\ base' = copy[t]
        /\ copy' = [copy EXCEPT ![t] = NoBase]
    BY <1>7 DEF Store
  <2>1. /\ fn[t] \in Seq(StepName) /\ Orderly(fn[t]) /\ pc[t] \in 1 .. Len(fn[t]) /\ fn[t][pc[t]] = "store"
    BY <2>0, AtStep
  <2>2. fn[t] = coinbaser_base
    BY <2>1 DEF Orderly
  <2>3. coinbaser_base # handle
    BY ReplyFacts
  <2>4. /\ copy' \in [Task -> Snapshot] /\ base' \in Snapshot
        /\ copy'[t] = NoBase /\ \A s \in Task \ {t} : copy'[s] = copy[s]
    BY <1>1, <1>5, <2>0
  <2>5. ASSUME NEW s \in Task, NEW u \in copy[s].lacks
        PROVE  fn[u] = handle /\ pc2[u] \in {3, 4} /\ copy[s].has
    <3>1. copy[s].has /\ fn[u] = handle /\ pc[u] \in {3, 4} /\ u \in Task
      BY <1>2, <1>3
    <3>2. u # t
      BY <2>2, <2>3, <3>1
    <3> QED
      BY <1>4, <3>1, <3>2
  <2>6. \A u \in base'.lacks : Late(fn[u], pc2[u])
    BY <2>0, <2>5, HandleFacts
  <2>7. \A s \in Task : copy'[s].has => fn[s] = coinbaser_base /\ pc2[s] \in {5, 6}
    BY <1>2, <1>4, <1>5, <2>4
  <2>8. ASSUME NEW s \in Task, NEW u \in copy'[s].lacks
        PROVE  copy'[s].has /\ fn[u] = handle /\ pc2[u] \in {3, 4}
    <3>1. s # t /\ copy'[s] = copy[s]
      BY <1>5, <2>4
    <3> QED
      BY <2>5, <3>1
  <2>9. Fresh(fn, pc2)'
    BY SMTT(30), <2>6, <2>7, <2>8 DEF Fresh
  <2> QED
    BY Zenon, <1>0, <2>0, <2>4, <2>9, MoneyKeeps
<1>8. CASE Clear(t)
  <2>0. At(t, "clear") /\ Goes(t) /\ owner' = owner /\ base' = NoBase /\ copy' = copy
    BY <1>8 DEF Clear
  <2>1. fn[t][pc[t]] = "clear"
    BY <2>0, AtStep
  <2>2. ASSUME NEW s \in Task, copy[s].has PROVE fn[s] = coinbaser_base /\ pc2[s] \in {5, 6}
    <3>1. fn[s] = coinbaser_base /\ pc[s] \in {5, 6}
      BY <1>2, <2>2
    <3>2. s # t
      BY <2>1, <3>1, ReplyFacts
    <3> QED
      BY <1>4, <3>1, <3>2
  <2>3. ASSUME NEW s \in Task, NEW u \in copy[s].lacks
        PROVE  copy[s].has /\ fn[u] = handle /\ pc2[u] \in {3, 4}
    <3>1. copy[s].has /\ fn[u] = handle /\ pc[u] \in {3, 4} /\ u \in Task
      BY <1>2, <1>3
    <3>2. u # t
      BY SMTT(30), <2>1, <3>1, HandleFacts
    <3> QED
      BY <1>4, <3>1, <3>2
  <2>4. Fresh(fn, pc2)'
    BY <1>5, <2>0, <2>2, <2>3 DEF Fresh
  <2> QED
    BY Zenon, <1>0, <1>1, <1>5, <2>0, <2>4, MoneyKeeps
<1>9. CASE Move(t)
  <2> DEFINE Lacking(b) == IF b.has THEN [b EXCEPT !.lacks = @ \cup {t}] ELSE b
  <2>0. /\ At(t, "move") /\ Goes(t) /\ owner' = owner /\ base' = Lacking(base)
        /\ copy' = [u \in Task |-> Lacking(copy[u])]
    BY <1>9 DEF Move
  <2>1. /\ fn[t] \in Program /\ fn[t] \in Seq(StepName) /\ Orderly(fn[t])
        /\ pc[t] \in 1 .. Len(fn[t]) /\ fn[t][pc[t]] = "move"
        /\ \A m \in Mutex : owner[m] = t <=> Holding(fn[t], pc[t], m)
    BY <2>0, AtStep
  <2>2. ASSUME NEW b \in Snapshot
        PROVE  /\ Lacking(b) \in Snapshot /\ Lacking(b).has = b.has
               /\ \A u \in Lacking(b).lacks : u \in b.lacks \/ (u = t /\ b.has)
    BY DEF Snapshot
  <2> HIDE DEF Lacking
  <2>3. base' \in Snapshot /\ copy' \in [Task -> Snapshot]
    BY <1>1, <2>0, <2>2
  <2>4. Late(fn[t], pc2[t])
    BY <1>4, <2>1, LateNext
  <2>5. ASSUME NEW u \in base'.lacks PROVE Late(fn[u], pc2[u])
    <3>1. u \in base.lacks \/ u = t
      BY SMTT(30), <1>1, <2>0, <2>2
    <3> QED
      BY <1>2, <1>3, <1>4, <2>4, <3>1
  <2>6. ASSUME NEW s \in Task, copy[s].has
        PROVE  s # t /\ fn[s] = coinbaser_base /\ pc[s] \in {5, 6} /\ owner["slot"] = s
    <3>1. fn[s] = coinbaser_base /\ pc[s] \in {5, 6}
      BY <1>2, <2>6
    <3>2. s # t
      BY <2>1, <3>1, ReplyFacts
    <3>3. Holding(fn[s], pc[s], "slot")
      BY <3>1, ReplyFacts
    <3> QED
      BY SMTT(30), <1>1, <3>1, <3>2, <3>3 DEF Placed, Mutex
  <2>7. \A s \in Task : copy'[s].has => fn[s] = coinbaser_base /\ pc2[s] \in {5, 6}
    <3>1. \A s \in Task : copy'[s].has = copy[s].has
      BY <1>1, <2>0, <2>2
    <3> QED
      BY SMTT(30), <1>4, <2>6, <3>1
  <2>8. ASSUME NEW s \in Task, NEW u \in copy'[s].lacks
        PROVE  copy'[s].has /\ fn[u] = handle /\ pc2[u] \in {3, 4}
    <3>1. copy'[s].has = copy[s].has /\ (u \in copy[s].lacks \/ (u = t /\ copy[s].has))
      BY <1>1, <2>0, <2>2
    <3>2. CASE u \in copy[s].lacks
      <4>1. copy[s].has /\ fn[u] = handle /\ pc[u] \in {3, 4} /\ u \in Task
        BY <1>2, <1>3, <3>2
      <4>2. u # t
        BY <2>1, <4>1, HandleFacts
      <4> QED
        BY <1>4, <3>1, <4>1, <4>2
    <3>3. CASE u = t /\ copy[s].has
      <4>1. pc[t] + 1 \in 1 .. Len(fn[t]) + 1 /\ Late(fn[t], pc[t] + 1)
        BY <1>4, <2>1, <2>4
      <4>2. Holding(fn[t], pc[t] + 1, "slot") \/ (fn[t] = handle /\ pc[t] + 1 \in {3, 4})
        BY <2>1, <4>1 DEF Orderly
      <4>3. "slot" \in Mutex /\ Taking["slot"] # "move"
        BY DEF Mutex, Taking
      <4>4. ~Holding(fn[t], pc[t] + 1, "slot")
        <5>1. ~Holding(fn[t], pc[t], "slot")
          BY <2>1, <2>6, <3>3, <4>3
        <5> QED
          BY <2>1, <4>3, <5>1, HoldNext
      <4> QED
        BY <1>4, <3>1, <3>3, <4>2, <4>4
    <3> QED
      BY <3>1, <3>2, <3>3
  <2>9. Fresh(fn, pc2)'
    BY <2>5, <2>7, <2>8 DEF Fresh
  <2> QED
    BY Zenon, <1>0, <2>0, <2>3, <2>9, MoneyKeeps
<1> QED
  BY <1>6, <1>7, <1>8, <1>9

(* A task is called to run a function.                                     *)
LEMMA CallKeeps ==
  ASSUME NEW fn, NEW pc, Sits(fn, pc), NEW t \in Task, NEW f \in Calls(t), Call(t, f)
  PROVE  BaseInv'
<1>0. PICK fn2, pc2 : fn2 = [fn EXCEPT ![t] = f] /\ pc2 = [pc EXCEPT ![t] = 1]
  BY Zenon
<1>1. /\ fn \in [Task -> Program] /\ pc \in [Task -> Nat] /\ todo \in [Task -> Seq(StepName)]
      /\ owner \in [Mutex -> Task \cup {"nobody"}] /\ base \in Snapshot /\ copy \in [Task -> Snapshot]
      /\ \A u \in Task : Placed(u, fn[u], pc[u])
  BY DEF Sits
<1>2. /\ \A u \in base.lacks : Late(fn[u], pc[u])
      /\ \A s \in Task : copy[s].has => fn[s] = coinbaser_base /\ pc[s] \in {5, 6}
      /\ \A s \in Task : \A u \in copy[s].lacks : copy[s].has /\ fn[u] = handle /\ pc[u] \in {3, 4}
  BY Zenon DEF Sits, Fresh
<1>3. base.lacks \subseteq Task /\ \A s \in Task : copy[s].lacks \subseteq Task
  BY <1>1 DEF Snapshot
<1>4. /\ todo[t] = <<>> /\ todo' = [todo EXCEPT ![t] = f]
      /\ owner' = owner /\ base' = base /\ copy' = copy
  BY DEF Call
<1>5. f \in Program /\ f \in Seq(StepName) /\ fn[t] \in Seq(StepName) /\ Orderly(fn[t])
  BY <1>1, CallsAre, AllSound
<1>6. pc[t] = Len(fn[t]) + 1
  <2>1. pc[t] \in 1 .. Len(fn[t]) + 1 /\ Rest(todo[t], fn[t], pc[t])
    BY <1>1 DEF Placed
  <2> QED
    BY <1>4, <1>5, <2>1, RestNext
<1>7. \A m \in Mutex : owner[m] # t
  BY <1>1, <1>5, <1>6 DEF Placed, Orderly
<1>8. Len(fn[t]) \in Nat /\ ~Late(fn[t], pc[t])
  <2>1. Len(fn[t]) \in Nat
    BY <1>5
  <2>2. Len(fn[t]) + 1 \in 1 .. Len(fn[t]) + 1 /\ ~(Len(fn[t]) + 1 <= Len(fn[t]))
    BY <2>1
  <2> QED
    BY <1>5, <1>6, <2>1, <2>2 DEF Orderly
<1>9. /\ fn2[t] = f /\ pc2[t] = 1 /\ \A u \in Task \ {t} : fn2[u] = fn[u] /\ pc2[u] = pc[u]
      /\ fn2 \in [Task -> Program] /\ pc2 \in [Task -> Nat]
  BY <1>0, <1>1, <1>5
<1>10. todo' \in [Task -> Seq(StepName)] /\ todo'[t] = f /\ \A u \in Task \ {t} : todo'[u] = todo[u]
  BY <1>1, <1>4, <1>5
<1>11. ASSUME NEW u \in Task PROVE Placed(u, fn2[u], pc2[u])'
  <2>1. CASE u = t
    <3>1. \A m \in Mutex : ~Holding(f, 1, m)
      BY DEF Holding
    <3>2. 1 \in 1 .. Len(f) + 1 /\ Rest(todo'[t], f, 1)
      BY <1>5, <1>10 DEF Rest
    <3> QED
      BY <1>4, <1>7, <1>9, <2>1, <3>1, <3>2 DEF Placed
  <2>2. CASE u # t
    BY SMTT(30), <1>1, <1>4, <1>9, <1>10, <2>2 DEF Placed
  <2> QED
    BY SMTT(30), <2>1, <2>2
<1>12. \A u \in base'.lacks : Late(fn2[u], pc2[u])
  BY <1>2, <1>3, <1>4, <1>8, <1>9
<1>13. ASSUME NEW s \in Task, copy'[s].has PROVE fn2[s] = coinbaser_base /\ pc2[s] \in {5, 6}
  <2>1. fn[s] = coinbaser_base /\ pc[s] \in {5, 6}
    BY <1>2, <1>4, <1>13
  <2>2. ASSUME s = t PROVE FALSE
    <3>1. fn[t] = coinbaser_base /\ pc[t] \in {5, 6}
      BY <2>1, <2>2
    <3>2. pc[t] = Len(coinbaser_base) + 1 /\ Len(coinbaser_base) = 7
      BY <1>6, <3>1, ReplyFacts
    <3> QED
      BY <3>1, <3>2
  <2> QED
    BY <1>9, <2>1, <2>2
<1>14. ASSUME NEW s \in Task, NEW u \in copy'[s].lacks
       PROVE  copy'[s].has /\ fn2[u] = handle /\ pc2[u] \in {3, 4}
  <2>1. copy[s].has /\ fn[u] = handle /\ pc[u] \in {3, 4} /\ u \in Task
    BY <1>2, <1>3, <1>4
  <2>2. ASSUME u = t PROVE FALSE
    <3>1. fn[t] = handle /\ pc[t] \in {3, 4}
      BY <2>1, <2>2
    <3>2. pc[t] = Len(handle) + 1 /\ Len(handle) = 6
      BY <1>6, <3>1, HandleFacts
    <3> QED
      BY <3>1, <3>2
  <2> QED
    BY <1>4, <1>9, <2>1, <2>2
<1>15. Fresh(fn2, pc2)'
  BY SMTT(30), <1>12, <1>13, <1>14 DEF Fresh
<1>16. Sits(fn2, pc2)'
  BY <1>1, <1>4, <1>9, <1>10, <1>11, <1>15 DEF Sits
<1> QED
  BY <1>16 DEF BaseInv

(* Whatever happens, every task stands at a step of a function it was      *)
(* called to run, holds what the function holds there, and the snapshot    *)
(* lacks only the money of someone who will yet drop it.                   *)
LEMMA BaseInvariant == BaseSpec => []BaseInv
<1>1. BaseInit => BaseInv
  BY BaseStarts
<1>2. BaseInv /\ [BaseNext]_baseVars => BaseInv'
  <2> SUFFICES ASSUME BaseInv, [BaseNext]_baseVars PROVE BaseInv'
    OBVIOUS
  <2>1. PICK fn, pc : Sits(fn, pc)
    BY DEF BaseInv
  <2>2. ASSUME NEW t \in Task, Step(t) PROVE BaseInv'
    <3>1. CASE Lock(t) \/ Unlock(t)
      BY <2>1, <3>1, LockKeeps
    <3>2. CASE Look(t)
      BY <2>1, <3>2, LookKeeps
    <3>3. CASE Read(t) \/ Store(t) \/ Clear(t) \/ Move(t)
      BY <2>1, <3>3, SnapshotKeeps
    <3> QED
      BY <2>2, <3>1, <3>2, <3>3 DEF Step
  <2>3. ASSUME NEW t \in Task, NEW f \in Calls(t), Call(t, f) PROVE BaseInv'
    BY <2>1, <2>3, CallKeeps
  <2>4. CASE UNCHANGED baseVars
    <3>1. todo' = todo /\ owner' = owner /\ base' = base /\ copy' = copy
      BY <2>4 DEF baseVars
    <3>2. \A u \in Task : Placed(u, fn[u], pc[u])'
      BY <2>1, <3>1 DEF Sits, Placed
    <3>3. Fresh(fn, pc)'
      BY <2>1, <3>1 DEF Sits, Fresh
    <3>4. Sits(fn, pc)'
      BY <2>1, <3>1, <3>2, <3>3 DEF Sits
    <3> QED
      BY <3>4 DEF BaseInv
  <2> QED
    BY <2>2, <2>3, <2>4 DEF BaseNext
<1> QED
  BY <1>1, <1>2, PTL DEF BaseSpec

(* What is left of a function is its tail.                                 *)
LEMMA RestIsSubSeq ==
  ASSUME NEW f \in Seq(StepName), NEW k \in 1 .. Len(f), NEW p, Rest(p, f, k)
  PROVE  p = SubSeq(f, k, Len(f))
<1>1. PICK q : q = SubSeq(f, k, Len(f))
  BY Zenon
<1>2. k \in Int /\ Len(f) \in Int /\ k <= Len(f) /\ \A i \in k .. Len(f) : f[i] \in StepName
  OBVIOUS
<1>3. /\ q \in Seq(StepName)
      /\ Len(q) = Len(f) - k + 1
      /\ \A i \in 1 .. Len(f) - k + 1 : q[i] = f[k + i - 1]
  BY <1>1, <1>2, SubSeqProperties
<1>4. p \in Seq(StepName) /\ Len(p) = Len(f) + 1 - k /\ \A i \in 1 .. Len(p) : p[i] = f[k - 1 + i]
  BY DEF Rest
<1>5. Len(p) = Len(q)
  BY <1>2, <1>3, <1>4
<1>6. ASSUME NEW i \in 1 .. Len(q) PROVE p[i] = q[i]
  <2>1. k + i - 1 = k - 1 + i /\ i \in 1 .. Len(f) - k + 1 /\ i \in 1 .. Len(p)
    BY <1>2, <1>3, <1>5
  <2>2. p[i] = f[k - 1 + i] /\ q[i] = f[k + i - 1]
    BY <1>3, <1>4, <2>1
  <2> QED
    BY <2>1, <2>2
<1> QED
  BY <1>1, <1>3, <1>4, <1>5, <1>6, SeqEqual

(* A task that waits for a mutex holds only mutexes that come before it.   *)
LEMMA TakenInOrder ==
  ASSUME BaseInv, NEW t \in Task, NEW m \in Mutex, NEW n \in Mutex, At(t, Taking[m]), owner[n] = t
  PROVE  Rank[n] < Rank[m]
<1>1. PICK fn, pc : Sits(fn, pc)
  BY DEF BaseInv
<1>2. /\ Orderly(fn[t]) /\ pc[t] \in 1 .. Len(fn[t]) /\ fn[t][pc[t]] = Taking[m]
      /\ Holding(fn[t], pc[t], n)
  BY <1>1, AtStep
<1> QED
  BY <1>2 DEF Orderly

(* Who waits for someone in a ring waits for a mutex held there.           *)
LEMMA Waited ==
  ASSUME NEW ring, NEW t \in ring, WaitsFor(t) \cap ring # {}
  PROVE  \E m \in Mutex : At(t, Taking[m]) /\ owner[m] \in ring
  BY DEF WaitsFor

(* Whoever takes the snapshot's mutex finds no snapshot that lacks money a *)
(* block or a rebate has moved, and no ring of tasks waits for one         *)
(* another's mutexes: for any number of connections, however the steps of  *)
(* coinbaser_base, book_block_debits, settle_confirmed, mark_orphan,       *)
(* payouts::handle and stats::build interleave.                            *)
THEOREM RepliesPricedOffTheBooks == BaseSpec => []PricedOffTheBooks
<1>1. BaseInv => PricedOffTheBooks
  <2> SUFFICES ASSUME BaseInv PROVE PricedOffTheBooks
    OBVIOUS
  <2>1. PICK fn, pc : Sits(fn, pc)
    BY DEF BaseInv
  <2>2. ASSUME owner["slot"] = "nobody", NEW t \in base.lacks PROVE MovedByHand(t)
    <3>1. t \in Task /\ Late(fn[t], pc[t])
      BY <2>1 DEF Sits, Fresh, Snapshot
    <3>2. fn[t] \in Program /\ Placed(t, fn[t], pc[t])
      BY <2>1, <3>1 DEF Sits
    <3>3. Orderly(fn[t]) /\ fn[t] \in Calls(t) /\ pc[t] \in 1 .. Len(fn[t]) + 1 /\ Rest(todo[t], fn[t], pc[t])
      BY SMTT(30), <3>2, AllSound DEF Placed
    <3>4. ~Holding(fn[t], pc[t], "slot")
      BY SMTT(30), <2>2, <3>1, <3>2, ConnAssumption DEF Placed, Mutex, Task
    <3>5. fn[t] = handle /\ pc[t] \in {3, 4}
      BY SMTT(30), <3>1, <3>3, <3>4 DEF Orderly
    <3>6. t = "poller"
      BY <3>1, <3>3, <3>5, CallsAre
    <3>7. handle \in Seq(StepName) /\ pc[t] \in 1 .. Len(handle) /\ Rest(todo[t], handle, pc[t])
      BY <3>3, <3>5, HandleFacts, HandleSound
    <3>8. todo[t] = SubSeq(handle, pc[t], Len(handle))
      BY <3>7, RestIsSubSeq
    <3> QED
      BY SMTT(30), <3>5, <3>6, <3>8 DEF MovedByHand
  <2>3. ASSUME NEW ring \in (SUBSET Task) \ {{}}, \A t \in ring : WaitsFor(t) \cap ring # {}
        PROVE  FALSE
    <3>1. \A t \in ring : \E m \in Mutex : At(t, Taking[m]) /\ owner[m] \in ring
      BY <2>3, Waited
    <3>2. \A t \in ring : \A m, n \in Mutex : (At(t, Taking[m]) /\ owner[n] = t) => Rank[n] < Rank[m]
      BY TakenInOrder
    <3>3. PICK t0 \in ring : TRUE
      OBVIOUS
    <3>4. PICK m0 \in Mutex : At(t0, Taking[m0]) /\ owner[m0] \in ring
      BY <3>1
    <3>5. PICK m1 \in Mutex : At(owner[m0], Taking[m1]) /\ owner[m1] \in ring
      BY <3>1, <3>4
    <3>6. PICK m2 \in Mutex : At(owner[m1], Taking[m2]) /\ owner[m2] \in ring
      BY <3>1, <3>5
    <3>7. PICK m3 \in Mutex : At(owner[m2], Taking[m3]) /\ owner[m3] \in ring
      BY <3>1, <3>6
    <3>8. Rank[m0] < Rank[m1] /\ Rank[m1] < Rank[m2] /\ Rank[m2] < Rank[m3]
      BY <3>2, <3>4, <3>5, <3>6, <3>7
    <3> QED
      BY <3>8 DEF Mutex, Rank
  <2> QED
    BY <2>2, <2>3 DEF PricedOffTheBooks
<1> QED
  BY <1>1, BaseInvariant, PTL
=============================================================================
