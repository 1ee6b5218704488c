---------------------------- MODULE BlockRecords ----------------------------
(***************************************************************************)
(* A found block's record and what it has on the ledger, in memory and on  *)
(* disk, while three kinds of task work on it: the session that saw the    *)
(* candidate, the task that submits it to the node, and the node poller    *)
(* that settles or orphans it.  The process may be killed between any two  *)
(* steps; what it finds at the next start is blocks.jsonl and window.json. *)
(*                                                                         *)
(* Amounts are left out (CarryBooks has them): the ledger counts how often *)
(* a block's debits and credits are in its balances, so that a block       *)
(* booked twice or not at all shows.  ledger.sync may fail: the code logs  *)
(* it and goes on.                                                         *)
(***************************************************************************)
EXTENDS Integers, FiniteSets

CONSTANTS Candidate,  \* blocks found
          MaxCrash,   \* bound: kills of the process
          MaxFail     \* bound: syncs of the ledger that fail

VARIABLES rec,      \* block -> its BlockRecord in Shared::blocks
          led,      \* the ledger in memory: debit, credit counts and applied
          disk,     \* the ledger of window.json
          logged,   \* block -> its latest line in blocks.jsonl
          cand,     \* block -> how far on_block_candidate has got
          sub,      \* block -> how far submit_candidate has got
          line,     \* block -> the line the submit task has yet to append
          poll,     \* what the poller is doing: [pc, b]
          crit,     \* who is inside settle_confirmed or mark_orphan
          chain,    \* block -> the node's view: none, main, side
          crashes, fails,
          orphaned  \* history: blocks that were labelled orphan at some time

disks == <<disk, logged>>
tasks == <<cand, sub, line, poll, crit>>
recordVars == <<rec, led, disks, tasks, chain, crashes, fails, orphaned>>

\* orphans: how many "orphan:" prefixes the record's kind has.
Record == [seen : BOOLEAN, orphans : 0 .. 2, settled : BOOLEAN,
           debits_live : BOOLEAN, credits_live : BOOLEAN, submitted : BOOLEAN]

NoRecord == [seen |-> FALSE, orphans |-> 0, settled |-> FALSE,
             debits_live |-> FALSE, credits_live |-> FALSE, submitted |-> FALSE]

\* What on_block_candidate records: the debits are booked already.
NewRecord == [NoRecord EXCEPT !.seen = TRUE, !.debits_live = TRUE]

Ledger == [debit : [Candidate -> Int], credit : [Candidate -> Int], applied : SUBSET Candidate]

Nobody == [by |-> "nobody", b |-> "none", pc |-> "none", line |-> NoRecord]
Resting == [pc |-> "idle", b |-> "none"]

RecordsInit ==
  /\ rec = [b \in Candidate |-> NoRecord]
  /\ led = [debit |-> [b \in Candidate |-> 0], credit |-> [b \in Candidate |-> 0], applied |-> {}]
  /\ disk = led
  /\ logged = rec
  /\ cand = [b \in Candidate |-> "none"]
  /\ sub = [b \in Candidate |-> "none"]
  /\ line = rec
  /\ poll = Resting
  /\ crit = Nobody
  /\ chain = [b \in Candidate |-> "none"]
  /\ crashes = 0 /\ fails = 0
  /\ orphaned = {}

\* The ledger mutex, as these tasks hold it.
LedgerFree == crit = Nobody /\ \A b \in Candidate : cand[b] # "booked"

\* Ledger::sync: window.json is the ledger of now, or the write failed.
sync ==
  \/ disk' = led /\ UNCHANGED fails
  \/ fails < MaxFail /\ fails' = fails + 1 /\ UNCHANGED disk

\* BlockLog::append: the line is whole once synced, and it is the block's
\* latest, the only one of its lines that read_all yields.
append(b, r) == [logged EXCEPT ![b] = r]

-----------------------------------------------------------------------------
(* The session: book_block_debits, then record_block.                      *)

BookDebits(b) ==
  /\ cand[b] = "none" /\ LedgerFree
  /\ led' = [led EXCEPT !.debit[b] = @ + 1, !.applied = @ \cup {b}]
  /\ cand' = [cand EXCEPT ![b] = "booked"]
  /\ UNCHANGED <<rec, disks, sub, line, poll, crit, chain, crashes, fails, orphaned>>

SyncDebits(b) ==
  /\ cand[b] = "booked"
  /\ sync
  /\ cand' = [cand EXCEPT ![b] = "synced"]
  /\ UNCHANGED <<rec, led, logged, sub, line, poll, crit, chain, crashes, orphaned>>

LogCandidate(b) ==
  /\ cand[b] = "synced"
  /\ logged' = append(b, NewRecord)
  /\ cand' = [cand EXCEPT ![b] = "logged"]
  /\ UNCHANGED <<rec, led, disk, sub, line, poll, crit, chain, crashes, fails, orphaned>>

\* The record joins Shared::blocks, and the transactions are asked for.
PushCandidate(b) ==
  /\ cand[b] = "logged"
  /\ rec' = [rec EXCEPT ![b] = NewRecord]
  /\ cand' = [cand EXCEPT ![b] = "done"]
  /\ sub' = [sub EXCEPT ![b] = "asked"]
  /\ UNCHANGED <<led, disks, line, poll, crit, chain, crashes, fails, orphaned>>

-----------------------------------------------------------------------------
(* The submit task.  update_block changes the record under the blocks lock *)
(* and appends a copy of it once that is released.                         *)

SubmitAnswer(b) ==
  /\ sub[b] = "asked"
  /\ rec' = [rec EXCEPT ![b].submitted = TRUE]
  /\ line' = [line EXCEPT ![b] = rec'[b]]
  /\ sub' = [sub EXCEPT ![b] = "answered"]
  /\ UNCHANGED <<led, disks, cand, poll, crit, chain, crashes, fails, orphaned>>

\* What the node's answer leads to: an outcome that says_invalid goes to
\* mark_orphan, every other one waits for confirm_blocks.
says_invalid == {"invalid", "done"}

\* The copy is appended.
SubmitLog(b) ==
  /\ sub[b] = "answered"
  /\ logged' = append(b, line[b])
  /\ line' = [line EXCEPT ![b] = NoRecord]
  /\ \E outcome \in says_invalid : sub' = [sub EXCEPT ![b] = outcome]
  /\ UNCHANGED <<rec, led, disk, cand, poll, crit, chain, crashes, fails, orphaned>>

\* mark_orphan looks whether the record is labelled, then takes the locks.
SubmitCheck(b) ==
  /\ sub[b] = "invalid"
  /\ sub' = [sub EXCEPT ![b] = IF rec[b].orphans > 0 THEN "done" ELSE "checked"]
  /\ UNCHANGED <<rec, led, disks, cand, line, poll, crit, chain, crashes, fails, orphaned>>

-----------------------------------------------------------------------------
(* settle_confirmed and mark_orphan: under the ledger lock the record and  *)
(* the ledger change together, the line is appended, the ledger is synced. *)

\* Mutation: the label goes on but the debits stay on the ledger.
mark_orphan_keeps_debits(b) ==
  LET r == rec[b]
  IN  /\ rec' = [rec EXCEPT ![b] =
                   [r EXCEPT !.orphans = @ + 1, !.settled = FALSE,
                             !.debits_live = FALSE, !.credits_live = FALSE]]
      /\ led' = [led EXCEPT !.credit[b] = IF r.credits_live THEN @ - 1 ELSE @]
      /\ orphaned' = orphaned \cup {b}

mark_orphan(b) ==
  LET r == rec[b]
  IN  /\ rec' = [rec EXCEPT ![b] =
                   [r EXCEPT !.orphans = @ + 1, !.settled = FALSE,
                             !.debits_live = FALSE, !.credits_live = FALSE]]
      /\ led' = [led EXCEPT !.debit[b] = IF r.debits_live THEN @ - 1 ELSE @,
                            !.credit[b] = IF r.credits_live THEN @ - 1 ELSE @]
      /\ orphaned' = orphaned \cup {b}

settle_confirmed(b) ==
  LET r == rec[b]
  IN  /\ rec' = [rec EXCEPT ![b] =
                   [r EXCEPT !.orphans = IF @ > 0 THEN @ - 1 ELSE 0, !.settled = TRUE,
                             !.debits_live = TRUE, !.credits_live = TRUE]]
      /\ led' = [led EXCEPT !.debit[b] = IF r.debits_live THEN @ ELSE @ + 1,
                            !.credit[b] = IF r.credits_live THEN @ ELSE @ + 1]
      /\ UNCHANGED orphaned

SubmitOrphan(b) ==
  /\ sub[b] = "checked" /\ LedgerFree
  /\ mark_orphan(b)
  /\ crit' = [by |-> "submit", b |-> b, pc |-> "append", line |-> rec'[b]]
  /\ sub' = [sub EXCEPT ![b] = "done"]
  /\ UNCHANGED <<disks, cand, line, poll, chain, crashes, fails>>

\* confirm_blocks: a record that is not settled, and the node's answer on it.
\* A side-chain block that is labelled already is left as it is.
PollAsks(b) ==
  /\ poll = Resting
  /\ rec[b].seen /\ ~rec[b].settled
  /\ \/ chain[b] = "main" /\ poll' = [pc |-> "settle", b |-> b]
     \/ chain[b] = "side" /\ rec[b].orphans = 0 /\ poll' = [pc |-> "orphan", b |-> b]
  /\ UNCHANGED <<rec, led, disks, cand, sub, line, crit, chain, crashes, fails, orphaned>>

PollActs ==
  /\ LedgerFree
  /\ \/ poll.pc = "settle" /\ settle_confirmed(poll.b)
     \/ poll.pc = "orphan" /\ mark_orphan(poll.b)
  /\ crit' = [by |-> "poller", b |-> poll.b, pc |-> "append", line |-> rec'[poll.b]]
  /\ poll' = [poll EXCEPT !.pc = "inside"]
  /\ UNCHANGED <<disks, cand, sub, line, chain, crashes, fails>>

\* The copy update_block made is appended.
CritLog ==
  /\ crit.pc = "append"
  /\ logged' = append(crit.b, crit.line)
  /\ crit' = [crit EXCEPT !.pc = "sync"]
  /\ UNCHANGED <<rec, led, disk, cand, sub, line, poll, chain, crashes, fails, orphaned>>

CritSync ==
  /\ crit.pc = "sync"
  /\ sync
  /\ poll' = IF crit.by = "poller" THEN Resting ELSE poll
  /\ crit' = Nobody
  /\ UNCHANGED <<rec, led, logged, cand, sub, line, chain, crashes, orphaned>>

-----------------------------------------------------------------------------
\* stats::housekeeping: the ledger is flushed on a timer.
HousekeepingSync ==
  /\ LedgerFree /\ disk # led
  /\ disk' = led
  /\ UNCHANGED <<rec, led, logged, tasks, chain, crashes, fails, orphaned>>

\* The node connects the block, leaves it on a side chain, or reorganises.
ChainMoves(b) ==
  /\ cand[b] # "none"
  /\ \E c \in {"main", "side"} : chain' = [chain EXCEPT ![b] = c]
  /\ UNCHANGED <<rec, led, disks, tasks, crashes, fails, orphaned>>

\* Mutation: a record's debits are taken again although they are noted.
reconcile_debits_always(d) ==
  LET owing == {b \in Candidate : logged[b].seen /\ logged[b].debits_live}
  IN  [d EXCEPT !.debit = [b \in Candidate |-> IF b \in owing THEN @[b] + 1 ELSE @[b]],
                !.applied = @ \cup owing]

\* Debits that are on the block log but not in this window.
reconcile_debits(d) ==
  LET owing == {b \in Candidate : logged[b].seen /\ logged[b].debits_live /\ b \notin d.applied}
  IN  [d EXCEPT !.debit = [b \in Candidate |-> IF b \in owing THEN @[b] + 1 ELSE @[b]],
                !.applied = @ \cup owing]

\* The process is killed; the next start loads window.json and the latest line
\* of every block, reconciles them and syncs.  No task is picked up again.
CrashAndRestart ==
  /\ crashes < MaxCrash /\ crashes' = crashes + 1
  /\ rec' = logged
  /\ led' = reconcile_debits(disk)
  /\ disk' = led'
  /\ cand' = [b \in Candidate |-> IF cand[b] = "none" THEN "none"
                              ELSE IF logged[b].seen THEN "done" ELSE "lost"]
  /\ sub' = [b \in Candidate |-> IF cand[b] = "none" THEN "none" ELSE "done"]
  /\ line' = [b \in Candidate |-> NoRecord]
  /\ poll' = Resting /\ crit' = Nobody
  /\ UNCHANGED <<logged, chain, fails, orphaned>>

RecordsNext ==
  \/ \E b \in Candidate : BookDebits(b) \/ SyncDebits(b) \/ LogCandidate(b) \/ PushCandidate(b)
  \/ \E b \in Candidate : SubmitAnswer(b) \/ SubmitLog(b) \/ SubmitCheck(b) \/ SubmitOrphan(b)
  \/ \E b \in Candidate : PollAsks(b) \/ ChainMoves(b)
  \/ PollActs \/ CritLog \/ CritSync \/ HousekeepingSync \/ CrashAndRestart

RecordsSpec == RecordsInit /\ [][RecordsNext]_recordVars

-----------------------------------------------------------------------------
\* Types; a record carries no more "orphan:" prefixes than mark_orphan can put on,
\* and settle_confirmed takes off only one that is there.
RecordsTypeOK ==
  /\ rec \in [Candidate -> Record] /\ logged \in [Candidate -> Record]
  /\ led \in Ledger /\ disk \in Ledger
  /\ cand \in [Candidate -> {"none", "booked", "synced", "logged", "done", "lost"}]
  /\ sub \in [Candidate -> {"none", "asked", "answered", "invalid", "checked", "done"}]
  /\ line \in [Candidate -> Record]
  /\ poll.pc \in {"idle", "settle", "orphan", "inside"}
  /\ crit.pc \in {"none", "append", "sync"}
  /\ chain \in [Candidate -> {"none", "main", "side"}]

(* Types; and while the process lives, a record's books and the ledger     *)
(* tell the same story: debits and credits are in the balances exactly     *)
(* once while the record has them live, and not at all otherwise, whichever*)
(* of the poller and the submit task settled or orphaned the block, in     *)
(* whatever order.                                                         *)
RecordMatchesLedger ==
  /\ RecordsTypeOK
  /\ crashes = 0 =>
       \A b \in Candidate : rec[b].seen =>
         /\ led.debit[b] = IF rec[b].debits_live THEN 1 ELSE 0
         /\ led.credit[b] = IF rec[b].credits_live THEN 1 ELSE 0

(* A block's first booking survives: for a block that was never labelled   *)
(* orphan, a record with live debits has them in the balances exactly      *)
(* once, whatever syncs failed and wherever the process was killed         *)
(* (reconcile_debits, "a kill in the moment after the block record was     *)
(* appended and before `window.json` was flushed"); and a debit in the     *)
(* balances is noted with them, in memory and in window.json, so that      *)
(* reconcile_debits never takes again what the window has.                 *)
FirstBookingSurvives ==
  \A b \in Candidate \ orphaned :
    /\ rec[b].debits_live => led.debit[b] = 1
    /\ led.debit[b] > 0 => b \in led.applied
    /\ disk.debit[b] > 0 => b \in disk.applied

-----------------------------------------------------------------------------
(* The latest line of a block is its latest state once nothing is on its   *)
(* way to the log ("status updates are appended, never rewritten"; a hash  *)
(* "yields only its latest line", BlockLog::read_all).                     *)
LatestLineIsLatest ==
  \A b \in Candidate :
    rec[b].seen /\ sub[b] # "answered" /\ crit.pc # "append" =>
      /\ logged[b].settled = rec[b].settled
      /\ logged[b].debits_live = rec[b].debits_live
      /\ logged[b].credits_live = rec[b].credits_live
=============================================================================
