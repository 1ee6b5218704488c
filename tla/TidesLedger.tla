----------------------------- MODULE TidesLedger -----------------------------
(***************************************************************************)
(* The money side of Prime: tides::Ledger's carry, debt and holds, as the  *)
(* sessions (coinbasers and block candidates), the node poller (confirmed  *)
(* and orphaned blocks), the submitblock tasks and the payout requests     *)
(* move them.  Every action is one critical section of the ledger lock.    *)
(*                                                                         *)
(* A coinbaser is the carry it pays out: it was priced from the balances   *)
(* of its moment, and a block found on it later debits that much whatever  *)
(* the balances have become.  Which balances a split places, and how much  *)
(* of each, is the split's business; here it is any part of them.          *)
(***************************************************************************)
EXTENDS BlockBooks, Picks, FiniteSets, Functions

CONSTANTS Block, Batch,
          Amount,      \* sats one block may credit one identity
          Correction,  \* sats an operator's credit request may move
          Sats,        \* sats Accounts may move in one step: all of Nat, or what the
                       \* bounds below let happen
          MaxSats,     \* bound: no identity is credited past this by hand
          MaxOut       \* bound: different coinbasers a gateway may still name

ASSUME LedgerAssumption ==
  /\ Amount \subseteq Sats /\ Correction \subseteq Sats /\ Sats \subseteq Nat
  /\ MaxSats \in Nat /\ MaxOut \in Nat \ {0}

VARIABLES acct,     \* identity -> [carry, debt]
          holds,    \* batches in (created_ts, id) order, [id, entries]
          books,    \* block -> its record's figures and tides::Books
          settled,  \* block -> BlockRecord.settled
          orphan,   \* block -> the record's kind starts with "orphan:"
          verdict,  \* block -> Prime's own submitblock: none, asked, answered
          cbs,      \* coinbasers some session keeps: the carry each pays out
          paying    \* the Paid request waiting on the node: [id, entries]

vars == <<acct, holds, books, settled, orphan, verdict, cbs, paying>>

Idle == [id |-> "idle", entries |-> [i \in Ident |-> 0]]

\* What all batches together have of each identity.
Held == [i \in Ident |-> SumFunction([k \in DOMAIN holds |-> holds[k].entries[i]])]

\* What Accounts promises, seen through this state.
A == INSTANCE Accounts WITH
       Amount <- Sats,
       held <- Held,
       claim <- [i \in Ident |-> Net(acct[i]) + Held[i]]

Init ==
  /\ acct \in [Ident -> [carry : Amount, debt : {0}]]
  /\ holds = <<>>
  /\ books = [b \in Block |-> NoBooks]
  /\ settled = [b \in Block |-> FALSE]
  /\ orphan = [b \in Block |-> FALSE]
  /\ verdict = [b \in Block |-> "none"]
  /\ cbs = {}
  /\ paying = Idle

-----------------------------------------------------------------------------
\* What batch k gives identity i when `want' is drawn oldest batch first.
Take(k, i, want) ==
  LET older == SumFunction([j \in 1 .. (k - 1) |-> holds[j].entries[i]])
  IN  Lesser(holds[k].entries[i], IF want > older THEN want - older ELSE 0)

\* The holds after want[i] is drawn for every i; a batch left empty is dropped.
draw_from_holds(want) ==
  LET left == [k \in DOMAIN holds |->
                 [holds[k] EXCEPT !.entries =
                    [i \in Ident |-> @[i] - Take(k, i, want[i])]]]
  IN  Picked(left, {k \in DOMAIN left : \E i \in Ident : left[k].entries[i] > 0})

\* What booking a block's debits asks of the holds.
Wanted(k) ==
  [i \in Ident |-> IF k.debits_live THEN 0
                   ELSE k.debit[i] - from_carry(acct[i], k.debit[i])]

\* on_coinbaser_request: a split of the balances as they are now.
IssueCoinbaser(d) ==
  /\ \A i \in Ident : d[i] <= acct[i].carry
  /\ cbs' = cbs \cup {d}
  /\ Cardinality(cbs') <= MaxOut
  /\ UNCHANGED <<acct, holds, books, settled, orphan, verdict, paying>>

\* A session keeps its last COINBASERS_KEPT, and none once it is closed.
ForgetCoinbaser(d) ==
  /\ cbs' = cbs \ {d}
  /\ UNCHANGED <<acct, holds, books, settled, orphan, verdict, paying>>

\* on_block_candidate: book the debits of the coinbaser the job names and
\* record the block; c is what its coinbase could not place.
BlockCandidate(b, d, c) ==
  LET k == [NoBooks EXCEPT !.seen = TRUE, !.debit = d, !.credit = c]
  IN  /\ ~books[b].seen
      /\ books' = [books EXCEPT ![b] = book_debits(k, acct, Held)]
      /\ acct' = after_debits(k, acct, Held)
      /\ holds' = draw_from_holds(Wanted(k))
      /\ verdict' = [verdict EXCEPT ![b] = "asked"]
      /\ UNCHANGED <<settled, orphan, cbs, paying>>

\* node::settle_confirmed: debits an orphaning took off, then the credits.
SettleConfirmed(b) ==
  LET k  == books[b]
      a1 == after_debits(k, acct, Held)
      k1 == book_debits(k, acct, Held)
  IN  /\ k.seen /\ ~settled[b]
      /\ books' = [books EXCEPT ![b] = book_credits(k1, a1)]
      /\ acct' = after_credits(k1, a1)
      /\ holds' = draw_from_holds(Wanted(k))
      /\ settled' = [settled EXCEPT ![b] = TRUE]
      /\ orphan' = [orphan EXCEPT ![b] = FALSE]
      /\ UNCHANGED <<verdict, cbs, paying>>

\* Mutation: an orphan's record is relabelled but stays on the ledger.
mark_orphan_keeps_books(b) ==
  /\ books[b].seen /\ ~orphan[b]
  /\ books' = [books EXCEPT ![b] = unbook(books[b])]
  /\ orphan' = [orphan EXCEPT ![b] = TRUE]
  /\ settled' = [settled EXCEPT ![b] = FALSE]
  /\ UNCHANGED acct

\* node::mark_orphan.
mark_orphan(b) ==
  /\ books[b].seen /\ ~orphan[b]
  /\ books' = [books EXCEPT ![b] = unbook(books[b])]
  /\ acct' = undebited(books[b], uncredited(books[b], acct))
  /\ orphan' = [orphan EXCEPT ![b] = TRUE]
  /\ settled' = [settled EXCEPT ![b] = FALSE]

\* confirm_blocks looks only at records that are not settled.
OrphanedByPoll(b) ==
  /\ ~settled[b]
  /\ mark_orphan(b)
  /\ UNCHANGED <<holds, verdict, cbs, paying>>

\* submit_candidate: the node's answer arrives, whatever has happened since
\* it was asked; "the block is invalid" orphans the record on the spot.
SubmitInvalid(b) ==
  /\ verdict[b] = "asked"
  /\ verdict' = [verdict EXCEPT ![b] = "answered"]
  /\ \/ mark_orphan(b)
     \/ orphan[b] /\ UNCHANGED <<acct, books, orphan, settled>>
  /\ UNCHANGED <<holds, cbs, paying>>

SubmitOther(b) ==
  /\ verdict[b] = "asked"
  /\ verdict' = [verdict EXCEPT ![b] = "answered"]
  /\ UNCHANGED <<acct, holds, books, settled, orphan, cbs, paying>>

-----------------------------------------------------------------------------
(* Payout requests.  The poller handles one at a time, so none starts      *)
(* while a Paid request waits on the node.                                 *)

\* A hold names somebody.
read_request(S) == S # {}

\* Who may have stopped mining: how long ago is not told apart.
stale_carries == {i \in Ident : acct[i].carry > 0}

\* Mutation: a hold is made while a Paid request waits on the node.
HoldRequest_concurrent(batch, S) ==
  /\ \A k \in DOMAIN holds : holds[k].id # batch
  /\ read_request(S) /\ S \subseteq stale_carries
  /\ holds' = Append(holds,
       [id |-> batch,
        entries |-> [i \in Ident |-> IF i \in S THEN acct[i].carry ELSE 0]])
  /\ acct' = [i \in Ident |-> IF i \in S THEN adjust_carry(acct[i], -acct[i].carry)
                                         ELSE acct[i]]
  /\ UNCHANGED <<books, settled, orphan, verdict, cbs, paying>>

\* Hold: whole stale balances, as asked for; a batch id is used once a time.
HoldRequest(batch, S) ==
  /\ paying = Idle
  /\ \A k \in DOMAIN holds : holds[k].id # batch
  /\ read_request(S) /\ S \subseteq stale_carries
  /\ holds' = Append(holds,
       [id |-> batch,
        entries |-> [i \in Ident |-> IF i \in S THEN acct[i].carry ELSE 0]])
  /\ acct' = [i \in Ident |-> IF i \in S THEN adjust_carry(acct[i], -acct[i].carry)
                                         ELSE acct[i]]
  /\ UNCHANGED <<books, settled, orphan, verdict, cbs, paying>>

\* Every batch but those of this id.
Drop(id) == Picked(holds, {k \in DOMAIN holds : holds[k].id # id})

ReleaseRequest(k) ==
  /\ paying = Idle
  /\ acct' = [i \in Ident |-> restore_carry(acct[i], holds[k].entries[i])]
  /\ holds' = Drop(holds[k].id)
  /\ UNCHANGED <<books, settled, orphan, verdict, cbs, paying>>

\* Paid: the hold is read, then the node is asked for the transaction.
PaidRequest(k) ==
  /\ paying = Idle
  /\ paying' = [id |-> holds[k].id, entries |-> holds[k].entries]
  /\ UNCHANGED <<acct, holds, books, settled, orphan, verdict, cbs>>

\* The transaction is deep enough and pays what was read: the hold, as it is
\* now, leaves the books.  If a block has drawn all of it, there is none.
PaidConfirmed ==
  /\ paying # Idle
  /\ holds' = Drop(paying.id)
  /\ paying' = Idle
  /\ UNCHANGED <<acct, books, settled, orphan, verdict, cbs>>

\* It is not: the request is left to be looked at again, or refused.
PaidRefused ==
  /\ paying # Idle
  /\ paying' = Idle
  /\ UNCHANGED <<acct, holds, books, settled, orphan, verdict, cbs>>

\* Everything that is, or may come back as, a balance of i.
Reach(i) ==
  acct[i].carry + Held[i]
    + SumFunction([b \in Block |-> books[b].debited[i] + books[b].shortfall[i]])

CreditRequest(i, delta) ==
  /\ paying = Idle
  /\ delta > 0 => Reach(i) + delta <= MaxSats
  /\ acct' = [acct EXCEPT ![i] = settle_carry(@, delta)]
  /\ UNCHANGED <<holds, books, settled, orphan, verdict, cbs, paying>>

-----------------------------------------------------------------------------
Balances == [Ident -> UNION {0 .. acct[i].carry : i \in Ident}]

Next ==
  \/ \E d \in Balances : IssueCoinbaser(d)
  \/ \E d \in cbs : ForgetCoinbaser(d)
  \/ \E b \in Block, d \in cbs, c \in [Ident -> Amount] : BlockCandidate(b, d, c)
  \/ \E b \in Block : SettleConfirmed(b) \/ OrphanedByPoll(b)
                        \/ SubmitInvalid(b) \/ SubmitOther(b)
  \/ \E batch \in Batch, S \in SUBSET Ident : HoldRequest(batch, S)
  \/ \E k \in DOMAIN holds : ReleaseRequest(k) \/ PaidRequest(k)
  \/ PaidConfirmed \/ PaidRefused
  \/ \E i \in Ident, s \in Correction : CreditRequest(i, s) \/ CreditRequest(i, -s)

Spec == Init /\ [][Next]_vars

-----------------------------------------------------------------------------
(* Types; no balance and no batch of the holds is booked below zero.        *)
TypeOK ==
  /\ acct \in [Ident -> Account]
  /\ holds \in Seq([id : Batch, entries : [Ident -> Nat]])
  /\ books \in [Block -> BookRecord]
  /\ settled \in [Block -> BOOLEAN] /\ orphan \in [Block -> BOOLEAN]
  /\ verdict \in [Block -> {"none", "asked", "answered"}]
  /\ cbs \in SUBSET [Ident -> Nat]
  /\ paying = Idle \/ paying \in [id : Batch, entries : [Ident -> Nat]]

(* Every step of the ledger is a step Accounts allows, so money is         *)
(* conserved with the holds kept batch by batch, whatever order candidates,*)
(* confirmations, orphans, submit answers and payout requests come in.     *)
KeepsAccounts == A!Spec

(* TypeOK; and a Paid request finishes a hold after an await.  What it     *)
(* writes off the books then is never more than the transaction was        *)
(* checked to pay.                                                         *)
PaidCoversHold ==
  /\ TypeOK
  /\ paying # Idle =>
       \A k \in DOMAIN holds : holds[k].id = paying.id =>
         \A i \in Ident : holds[k].entries[i] <= paying.entries[i]

=============================================================================
