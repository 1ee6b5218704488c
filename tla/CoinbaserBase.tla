--------------------------- MODULE CoinbaserBase ---------------------------
(***************************************************************************)
(* The snapshot of the window that coinbaser replies are priced off        *)
(* (Shared::coinbaser_base), and the three mutexes that those who read it  *)
(* and those who move money take one inside the other: the snapshot's, the *)
(* ledger's and the block records'.                                        *)
(*                                                                         *)
(* A function is the sequence of its steps on them: taking a mutex ("+"),  *)
(* giving it back ("-"), and what it does between to the balances and the  *)
(* snapshot.  The mutexes stats::build takes inside the ledger's and that  *)
(* nobody holds while taking another (clients, seen, connections) are left *)
(* out.                                                                    *)
(***************************************************************************)
EXTENDS Naturals, Sequences

CONSTANTS Conn   \* connections, each a task; "poller", "submit" and "stats" are others

ASSUME ConnAssumption == Conn \cap {"poller", "submit", "stats", "nobody"} = {}

Mutex == {"slot", "ledger", "blocks"}
Taking == [slot |-> "slot+", ledger |-> "ledger+", blocks |-> "blocks+"]
Giving == [slot |-> "slot-", ledger |-> "ledger-", blocks |-> "blocks-"]

Task == Conn \cup {"poller", "submit", "stats"}

VARIABLES todo,     \* task -> the steps its function has yet to take
          owner,    \* mutex -> who holds it, or "nobody"
          base,     \* the snapshot: [has, lacks (tasks whose move of money it lacks)]
          copy      \* task -> a snapshot it has read and not stored

baseVars == <<todo, owner, base, copy>>

NoBase == [has |-> FALSE, lacks |-> {}]

BaseInit ==
  /\ todo = [t \in Task |-> <<>>]
  /\ owner = [m \in Mutex |-> "nobody"]
  /\ base = NoBase /\ copy = [t \in Task |-> NoBase]

-----------------------------------------------------------------------------
\* A reply's snapshot: the one there is, or one made anew out of the ledger.
coinbaser_base == <<"slot+", "look", "ledger+", "read", "ledger-", "store", "slot-">>

drop_coinbaser_base == <<"slot+", "clear", "slot-">>

\* Mutation: the snapshot is dropped once both mutexes are free.
book_block_debits_drop_late == <<"slot+", "ledger+", "move", "ledger-", "slot-">> \o drop_coinbaser_base

book_block_debits == <<"slot+", "ledger+", "move", "ledger-", "clear", "slot-">>

record_block == <<"blocks+", "blocks-">>

\* The record and the ledger change inside update_block.
update_block == <<"blocks+", "move", "blocks-">>

\* settle_confirmed, and mark_orphan once it has looked at the record.
settle_confirmed_locks == <<"slot+", "ledger+">> \o update_block \o <<"ledger-", "clear", "slot-">>
mark_orphan_locks ==
  <<"blocks+", "blocks-", "slot+", "ledger+">> \o update_block \o <<"ledger-", "clear", "slot-">>

\* solo::scan books a rebate.
solo_rebate == <<"slot+", "ledger+", "move", "ledger-", "clear", "slot-">>

\* payouts::handle: hold, credit and release.
handle == <<"ledger+", "move", "ledger-">> \o drop_coinbaser_base

\* A share's credit, the window's target, a flush: the ledger alone.
credit == <<"ledger+", "ledger-">>

\* stats::build holds the ledger while it reads the block records.
build == <<"ledger+", "blocks+", "blocks-", "ledger-">>

\* What a task may be called to do.
Calls(t) ==
  CASE t \in Conn -> {coinbaser_base, book_block_debits \o record_block, credit}
    [] t = "poller"  -> {settle_confirmed_locks, mark_orphan_locks, solo_rebate, handle, credit}
    [] t = "submit"  -> {mark_orphan_locks}
    [] OTHER         -> {build, credit}

Call(t, f) ==
  /\ todo[t] = <<>> /\ f \in Calls(t)
  /\ todo' = [todo EXCEPT ![t] = f]
  /\ UNCHANGED <<owner, base, copy>>

-----------------------------------------------------------------------------
Goes(t) == todo' = [todo EXCEPT ![t] = Tail(@)]
At(t, step) == todo[t] # <<>> /\ Head(todo[t]) = step

Lock(t) == \E m \in Mutex :
  /\ At(t, Taking[m]) /\ owner[m] = "nobody"
  /\ owner' = [owner EXCEPT ![m] = t]
  /\ Goes(t) /\ UNCHANGED <<base, copy>>

Unlock(t) == \E m \in Mutex :
  /\ At(t, Giving[m])
  /\ owner' = [owner EXCEPT ![m] = "nobody"]
  /\ Goes(t) /\ UNCHANGED <<base, copy>>

\* A snapshot younger than COINBASER_BASE_TTL is taken as it is.
Look(t) ==
  /\ At(t, "look")
  /\ \/ base.has /\ todo' = [todo EXCEPT ![t] = <<"slot-">>]
     \/ Goes(t)
  /\ UNCHANGED <<owner, base, copy>>

Read(t) ==
  /\ At(t, "read")
  /\ copy' = [copy EXCEPT ![t] = [has |-> TRUE, lacks |-> {}]]
  /\ Goes(t) /\ UNCHANGED <<owner, base>>

Store(t) ==
  /\ At(t, "store")
  /\ base' = copy[t] /\ copy' = [copy EXCEPT ![t] = NoBase]
  /\ Goes(t) /\ UNCHANGED owner

\* Money moves on the ledger: every snapshot read before lacks it.
Move(t) ==
  LET Lacking(b) == IF b.has THEN [b EXCEPT !.lacks = @ \cup {t}] ELSE b
  IN  /\ At(t, "move")
      /\ base' = Lacking(base)
      /\ copy' = [u \in Task |-> Lacking(copy[u])]
      /\ Goes(t) /\ UNCHANGED owner

Clear(t) ==
  /\ At(t, "clear")
  /\ base' = NoBase
  /\ Goes(t) /\ UNCHANGED <<owner, copy>>

Step(t) == Lock(t) \/ Unlock(t) \/ Look(t) \/ Read(t) \/ Store(t) \/ Move(t) \/ Clear(t)

BaseNext == \E t \in Task : Step(t) \/ \E f \in Calls(t) : Call(t, f)

BaseSpec == BaseInit /\ [][BaseNext]_baseVars

-----------------------------------------------------------------------------
\* A payout request has moved money and has yet to drop the snapshot.
MovedByHand(t) == t = "poller" /\ \E k \in {3, 4} : todo[t] = SubSeq(handle, k, Len(handle))

\* Who holds the mutex a task is about to take.
WaitsFor(t) == {owner[m] : m \in {n \in Mutex : At(t, Taking[n])}} \ {"nobody"}

(* "A reply must not be priced off the pre-debit snapshot in the gap       *)
(* between the two" (book_block_debits): whoever takes the snapshot's      *)
(* mutex finds none that lacks money a block or a solo rebate has moved,   *)
(* nor money moved by hand once the request is done.  And the mutexes,     *)
(* taken one inside another by every kind of task, are never waited for in *)
(* a ring, which would be the end of every reply.                          *)
PricedOffTheBooks ==
  /\ owner["slot"] = "nobody" => \A t \in base.lacks : MovedByHand(t)
  /\ \A ring \in (SUBSET Task) \ {{}} : \E t \in ring : WaitsFor(t) \cap ring = {}
=============================================================================
