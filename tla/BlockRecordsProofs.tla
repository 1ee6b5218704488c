------------------------ MODULE BlockRecordsProofs ------------------------
(***************************************************************************)
(* While the process lives a record and the ledger tell the same story,    *)
(* and a block's first booking survives every kill, for any set of blocks, *)
(* any number of kills and any number of failed syncs.                     *)
(***************************************************************************)
EXTENDS BlockRecords, TLAPS

\* How far on_block_candidate has got before the record is pushed.
Unpushed == {"none", "booked", "synced", "logged", "lost"}

\* The submit task may still come to mark_orphan.
Submitting == {"asked", "answered", "invalid", "checked"}

PollType == {Resting} \cup [pc : {"settle", "orphan", "inside"}, b : Candidate]
CritType == {Nobody} \cup
            [by : {"submit", "poller"}, b : Candidate, pc : {"append", "sync"}, line : Record]

(* The whole of the types: what the poller and the holder of the ledger    *)
(* lock have in hand is a block and a record.                              *)
Typed ==
  /\ RecordsTypeOK
  /\ poll \in PollType /\ crit \in CritType
  /\ crashes \in Nat
  /\ orphaned \subseteq Candidate

(* Where a block's record is, by how far its candidate has got, and who    *)
(* may still label it: the submit task looks for a label only once, before *)
(* it takes the locks, so that it and the poller may both put one on.      *)
Placed ==
  /\ \A b \in Candidate :
       /\ cand[b] \in Unpushed => rec[b] = NoRecord
       /\ cand[b] \in {"none", "booked", "synced", "lost"} => logged[b] = NoRecord
       /\ cand[b] = "logged" => logged[b] = NewRecord
       /\ cand[b] = "done" => rec[b].seen /\ logged[b].seen
       /\ sub[b] \in Submitting => cand[b] = "done" /\ rec[b].orphans <= 1
       /\ sub[b] = "answered" => line[b].seen
  /\ poll # Resting => cand[poll.b] = "done"
  /\ poll.pc = "orphan" =>
       rec[poll.b].orphans <= IF sub[poll.b] \in Submitting THEN 0 ELSE 1
  /\ crit # Nobody => crit.line.seen /\ cand[crit.b] = "done"

(* Before the first kill the ledger has what the record says, from the     *)
(* booking of the debits on.                                               *)
Lively ==
  crashes = 0 => \A b \in Candidate :
    /\ cand[b] # "lost"
    /\ cand[b] = "none" => led.debit[b] = 0 /\ led.credit[b] = 0
    /\ cand[b] \in {"booked", "synced", "logged"} => led.debit[b] = 1 /\ led.credit[b] = 0
    /\ cand[b] = "done" =>
         /\ led.debit[b] = IF rec[b].debits_live THEN 1 ELSE 0
         /\ led.credit[b] = IF rec[b].credits_live THEN 1 ELSE 0

(* A block never labelled orphan has its debits live in every copy of its  *)
(* record, and in a ledger exactly when the ledger notes it as applied.    *)
Booked ==
  \A b \in Candidate \ orphaned :
    /\ led.debit[b] = IF b \in led.applied THEN 1 ELSE 0
    /\ disk.debit[b] = IF b \in disk.applied THEN 1 ELSE 0
    /\ cand[b] = "none" => b \notin led.applied /\ b \notin disk.applied
    /\ cand[b] \in {"booked", "synced", "logged", "done"} => b \in led.applied
    /\ rec[b].seen => rec[b].debits_live
    /\ logged[b].seen => logged[b].debits_live
    /\ sub[b] = "answered" => line[b].debits_live
    /\ crit # Nobody /\ crit.b = b => crit.line.debits_live

RecordsInv == Typed /\ Placed /\ Lively /\ Booked

-----------------------------------------------------------------------------
(* The invariant holds at the start.                                       *)
LEMMA InitHolds == RecordsInit => RecordsInv
<1> SUFFICES ASSUME RecordsInit PROVE RecordsInv
  OBVIOUS
<1>1. NoRecord \in Record /\ led \in Ledger
  BY DEF RecordsInit, NoRecord, Record, Ledger
<1>2. Typed
  BY <1>1 DEF RecordsInit, Typed, RecordsTypeOK, PollType, CritType, Resting, Nobody
<1>3. Placed
  BY DEF RecordsInit, Placed, Unpushed, Submitting, NoRecord, Resting, Nobody
<1>4. Lively
  BY DEF RecordsInit, Lively
<1>5. Booked
  BY SMTT(30) DEF RecordsInit, Booked, NoRecord, Nobody
<1>6. QED
  BY <1>2, <1>3, <1>4, <1>5 DEF RecordsInv

(* A record with some of its fields replaced is a record.                  *)
LEMMA RecordUpdates ==
  /\ \A r \in Record : [r EXCEPT !.submitted = TRUE] \in Record
  /\ \A r \in Record : [r EXCEPT !.seen = TRUE, !.debits_live = TRUE] \in Record
  /\ \A r \in Record, n \in 0 .. 2, x \in BOOLEAN, y \in BOOLEAN, z \in BOOLEAN :
       [r EXCEPT !.orphans = n, !.settled = x, !.debits_live = y, !.credits_live = z] \in Record
<1>1. \A r \in Record : [r EXCEPT !.submitted = TRUE] \in Record
  BY Zenon DEF Record
<1>2. \A r \in Record : [r EXCEPT !.seen = TRUE, !.debits_live = TRUE] \in Record
  BY Zenon DEF Record
<1>3. \A r \in Record, n \in 0 .. 2, x \in BOOLEAN, y \in BOOLEAN, z \in BOOLEAN :
        [r EXCEPT !.orphans = n, !.settled = x, !.debits_live = y, !.credits_live = z] \in Record
  BY ZenonT(30) DEF Record
<1>4. QED
  BY Zenon, <1>1, <1>2, <1>3

(* A ledger with a block's counts replaced, or the block noted, is one.    *)
LEMMA LedgerUpdates ==
  \A d \in Ledger, b \in Candidate, x \in Int :
    /\ [d EXCEPT !.debit[b] = x, !.applied = @ \cup {b}] \in Ledger
    /\ \A y \in Int : [d EXCEPT !.debit[b] = x, !.credit[b] = y] \in Ledger
<1> SUFFICES ASSUME NEW d \in Ledger, NEW b \in Candidate, NEW x \in Int
             PROVE  /\ [d EXCEPT !.debit[b] = x, !.applied = @ \cup {b}] \in Ledger
                    /\ \A y \in Int : [d EXCEPT !.debit[b] = x, !.credit[b] = y] \in Ledger
  BY Zenon
<1>1. [d EXCEPT !.debit[b] = x, !.applied = @ \cup {b}] \in Ledger
  BY Zenon DEF Ledger
<1>2. ASSUME NEW y \in Int PROVE [d EXCEPT !.debit[b] = x, !.credit[b] = y] \in Ledger
  BY Zenon DEF Ledger
<1>3. QED
  BY Zenon, <1>1, <1>2

(* The records that on_block_candidate starts from and makes.              *)
LEMMA RecordsTyped ==
  /\ NoRecord \in Record /\ ~NoRecord.seen /\ NoRecord.orphans = 0
  /\ NewRecord \in Record /\ NewRecord.seen /\ NewRecord.debits_live
  /\ ~NewRecord.credits_live /\ NewRecord.orphans = 0
<1>1. NoRecord \in Record /\ ~NoRecord.seen /\ NoRecord.orphans = 0
  BY SMTT(30) DEF NoRecord, Record
<1>2. NewRecord \in Record
  BY Zenon, <1>1, RecordUpdates DEF NewRecord
<1>3. NewRecord.seen /\ NewRecord.debits_live
  BY DEF NewRecord, NoRecord
<1>4. ~NewRecord.credits_live /\ NewRecord.orphans = 0
  BY DEF NewRecord, NoRecord
<1>5. QED
  BY <1>1, <1>2, <1>3, <1>4

(* What the types say of each variable.                                    *)
LEMMA Shapes ==
  ASSUME Typed
  PROVE  /\ rec \in [Candidate -> Record] /\ logged \in [Candidate -> Record] /\ line \in [Candidate -> Record]
         /\ led.debit \in [Candidate -> Int] /\ led.credit \in [Candidate -> Int] /\ led.applied \subseteq Candidate
         /\ disk.debit \in [Candidate -> Int] /\ disk.credit \in [Candidate -> Int] /\ disk.applied \subseteq Candidate
         /\ led \in Ledger /\ disk \in Ledger
         /\ poll # Resting => poll \in [pc : {"settle", "orphan", "inside"}, b : Candidate]
         /\ crit # Nobody =>
              crit \in [by : {"submit", "poller"}, b : Candidate, pc : {"append", "sync"}, line : Record]
BY DEF Typed, RecordsTypeOK, Ledger, PollType, CritType

(* Booking the debits: the ledger counts the block once and notes it.      *)
LEMMA BookDebitsKeeps ==
  ASSUME RecordsInv, NEW b \in Candidate, BookDebits(b)
  PROVE  RecordsInv'
<1>1. led' \in Ledger
  <2>1. led \in Ledger /\ led.debit[b] + 1 \in Int
    BY Shapes DEF RecordsInv
  <2>2. QED
    BY Zenon, <2>1, LedgerUpdates DEF BookDebits
<1>2. Typed'
  BY <1>1 DEF RecordsInv, BookDebits, disks, Typed, RecordsTypeOK, Resting, Nobody, PollType, CritType
<1>3. Placed'
  BY DEF RecordsInv, BookDebits, disks, Typed, RecordsTypeOK, Placed, Unpushed, Submitting
<1>4. Lively'
  BY Shapes DEF RecordsInv, BookDebits, Typed, RecordsTypeOK, Lively
<1>5. Booked'
  BY Shapes DEF RecordsInv, BookDebits, disks, Typed, RecordsTypeOK, Booked
<1>6. QED
  BY SMTT(30), <1>2, <1>3, <1>4, <1>5 DEF RecordsInv

(* A sync writes the ledger of now or fails; neither undoes a booking.     *)
LEMMA SyncDebitsKeeps ==
  ASSUME RecordsInv, NEW b \in Candidate, SyncDebits(b)
  PROVE  RecordsInv'
<1>1. disk' \in {disk, led}
  BY DEF SyncDebits, sync
<1>2. Typed'
  BY <1>1 DEF RecordsInv, SyncDebits, Typed, RecordsTypeOK, Resting, Nobody, PollType, CritType
<1>3. Placed'
  BY DEF RecordsInv, SyncDebits, Typed, RecordsTypeOK, Placed, Unpushed, Submitting
<1>4. Lively'
  BY DEF RecordsInv, SyncDebits, Typed, RecordsTypeOK, Lively
<1>5. Booked'
  BY <1>1 DEF RecordsInv, SyncDebits, Typed, RecordsTypeOK, Booked
<1>6. QED
  BY <1>2, <1>3, <1>4, <1>5 DEF RecordsInv

(* The candidate's line is the new record, its debits live.                *)
LEMMA LogCandidateKeeps ==
  ASSUME RecordsInv, NEW b \in Candidate, LogCandidate(b)
  PROVE  RecordsInv'
<1>1. /\ logged' \in [Candidate -> Record] /\ logged'[b] = NewRecord
      /\ \A c \in Candidate \ {b} : logged'[c] = logged[c]
  BY Shapes, RecordsTyped DEF RecordsInv, LogCandidate, append
<1>2. Typed'
  BY Zenon, <1>1 DEF RecordsInv, LogCandidate, Typed, RecordsTypeOK, Resting, Nobody, PollType, CritType
<1>3. Placed'
  BY <1>1, RecordsTyped
  DEF RecordsInv, LogCandidate, Typed, RecordsTypeOK, Placed, Unpushed, Submitting
<1>4. Lively'
  BY DEF RecordsInv, LogCandidate, Typed, RecordsTypeOK, Lively
<1>5. Booked'
  BY <1>1, RecordsTyped DEF RecordsInv, LogCandidate, Typed, RecordsTypeOK, Booked
<1>6. QED
  BY <1>2, <1>3, <1>4, <1>5 DEF RecordsInv

(* The record joins the list; neither poller nor holder can have it yet.   *)
LEMMA PushCandidateKeeps ==
  ASSUME RecordsInv, NEW b \in Candidate, PushCandidate(b)
  PROVE  RecordsInv'
<1>1. /\ rec' \in [Candidate -> Record] /\ rec'[b] = NewRecord
      /\ \A c \in Candidate \ {b} : rec'[c] = rec[c] /\ cand'[c] = cand[c] /\ sub'[c] = sub[c]
      /\ cand'[b] = "done" /\ sub'[b] = "asked" /\ cand[b] = "logged"
  BY Shapes, RecordsTyped DEF RecordsInv, PushCandidate, Typed, RecordsTypeOK
<1>2. Typed'
  BY <1>1 DEF RecordsInv, PushCandidate, disks, Typed, RecordsTypeOK, Resting, Nobody, PollType, CritType
<1>3. Placed'
  <2>1. poll # Resting => poll.b \in Candidate \ {b}
    BY <1>1, Shapes DEF RecordsInv, Placed
  <2>2. crit # Nobody => crit.b \in Candidate \ {b}
    BY <1>1, Shapes DEF RecordsInv, Placed
  <2>3. poll.pc = "orphan" => poll # Resting
    BY DEF Resting
  <2>4. QED
    BY <1>1, <2>1, <2>2, <2>3, RecordsTyped
    DEF RecordsInv, PushCandidate, disks, Placed, Unpushed, Submitting
<1>4. Lively'
  BY <1>1, RecordsTyped DEF RecordsInv, PushCandidate, Lively
<1>5. Booked'
  BY <1>1, RecordsTyped DEF RecordsInv, PushCandidate, disks, Booked
<1>6. QED
  BY <1>2, <1>3, <1>4, <1>5 DEF RecordsInv

-----------------------------------------------------------------------------
(* The submit task.                                                        *)

(* The node's answer changes nothing of the record but `submitted'.        *)
LEMMA SubmitAnswerKeeps ==
  ASSUME RecordsInv, NEW b \in Candidate, SubmitAnswer(b)
  PROVE  RecordsInv'
<1>1. /\ rec' \in [Candidate -> Record] /\ line' \in [Candidate -> Record]
      /\ rec'[b] = [rec[b] EXCEPT !.submitted = TRUE] /\ line'[b] = rec'[b]
      /\ \A c \in Candidate \ {b} : rec'[c] = rec[c] /\ line'[c] = line[c] /\ sub'[c] = sub[c]
      /\ sub[b] = "asked" /\ sub'[b] = "answered"
  <2>1. [rec[b] EXCEPT !.submitted = TRUE] \in Record
    BY Zenon, Shapes, RecordUpdates DEF RecordsInv
  <2>2. QED
    BY <2>1, Shapes DEF RecordsInv, SubmitAnswer, Typed, RecordsTypeOK
<1>2. \A c \in Candidate : /\ rec'[c].seen = rec[c].seen /\ rec'[c].orphans = rec[c].orphans
                       /\ rec'[c].debits_live = rec[c].debits_live
                       /\ rec'[c].credits_live = rec[c].credits_live
  BY SMTT(30), <1>1, Shapes DEF RecordsInv, Record
<1>3. Typed'
  BY <1>1 DEF RecordsInv, SubmitAnswer, disks, Typed, RecordsTypeOK, Resting, Nobody, PollType, CritType
<1>4. Placed'
  <2>1. poll.pc = "orphan" => poll.b \in Candidate
    BY Shapes DEF RecordsInv, Resting
  <2>2. cand[b] = "done"
    BY <1>1 DEF RecordsInv, Placed, Submitting
  <2>3. QED
    BY <1>1, <1>2, <2>1, <2>2
    DEF RecordsInv, SubmitAnswer, disks, Placed, Unpushed, Submitting
<1>5. Lively'
  BY <1>2 DEF RecordsInv, SubmitAnswer, Lively
<1>6. Booked'
  BY <1>1, <1>2 DEF RecordsInv, SubmitAnswer, disks, Placed, Submitting, Booked
<1>7. QED
  BY <1>3, <1>4, <1>5, <1>6 DEF RecordsInv

(* The copy that the task appends is of a block whose record is there.     *)
LEMMA SubmitLogKeeps ==
  ASSUME RecordsInv, NEW b \in Candidate, SubmitLog(b)
  PROVE  RecordsInv'
<1>1. /\ logged' \in [Candidate -> Record] /\ line' \in [Candidate -> Record]
      /\ logged'[b] = line[b] /\ sub[b] = "answered" /\ sub'[b] \in {"invalid", "done"}
      /\ \A c \in Candidate \ {b} : logged'[c] = logged[c] /\ line'[c] = line[c] /\ sub'[c] = sub[c]
  BY Shapes, RecordsTyped DEF RecordsInv, SubmitLog, append, says_invalid, Typed, RecordsTypeOK
<1>2. Typed'
  BY <1>1 DEF RecordsInv, SubmitLog, says_invalid, Typed, RecordsTypeOK, Resting, Nobody, PollType, CritType
<1>3. Placed'
  <2>1. poll.pc = "orphan" => poll.b \in Candidate
    BY Shapes DEF RecordsInv, Resting
  <2>2. cand[b] = "done"
    BY <1>1 DEF RecordsInv, Placed, Submitting
  <2>3. QED
    BY <1>1, <2>1, <2>2, Shapes, RecordsTyped
    DEF RecordsInv, SubmitLog, Placed, Unpushed, Submitting, Record
<1>4. Lively'
  BY DEF RecordsInv, SubmitLog, Lively
<1>5. Booked'
  BY <1>1 DEF RecordsInv, SubmitLog, Booked
<1>6. QED
  BY <1>2, <1>3, <1>4, <1>5 DEF RecordsInv

(* The look for a label is what lets the task go on to put one on.         *)
LEMMA SubmitCheckKeeps ==
  ASSUME RecordsInv, NEW b \in Candidate, SubmitCheck(b)
  PROVE  RecordsInv'
<1>1. Typed'
  BY DEF RecordsInv, SubmitCheck, disks, Typed, RecordsTypeOK, Resting, Nobody, PollType, CritType
<1>2. Placed'
  BY DEF RecordsInv, SubmitCheck, disks, Typed, RecordsTypeOK, PollType, Resting, Record,
         Placed, Unpushed, Submitting
<1>3. Lively'
  BY DEF RecordsInv, SubmitCheck, Lively
<1>4. Booked'
  BY DEF RecordsInv, SubmitCheck, disks, Typed, RecordsTypeOK, Booked
<1>5. QED
  BY <1>1, <1>2, <1>3, <1>4 DEF RecordsInv

-----------------------------------------------------------------------------
(* settle_confirmed and mark_orphan.                                       *)

(* mark_orphan of a block that carries at most one label takes what is     *)
(* live off the ledger and says so on the record.                          *)
LEMMA OrphanMoves ==
  ASSUME Typed, NEW b \in Candidate, rec[b].seen, rec[b].orphans <= 1, mark_orphan(b)
  PROVE  /\ rec' \in [Candidate -> Record] /\ led' \in Ledger
         /\ rec'[b].seen /\ rec'[b].orphans = rec[b].orphans + 1
         /\ ~rec'[b].debits_live /\ ~rec'[b].credits_live
         /\ led'.debit[b] = (IF rec[b].debits_live THEN led.debit[b] - 1 ELSE led.debit[b])
         /\ led'.credit[b] = (IF rec[b].credits_live THEN led.credit[b] - 1 ELSE led.credit[b])
         /\ led'.applied = led.applied
         /\ \A c \in Candidate \ {b} : /\ rec'[c] = rec[c] /\ led'.debit[c] = led.debit[c]
                                   /\ led'.credit[c] = led.credit[c]
         /\ orphaned' = orphaned \cup {b}
<1> DEFINE r == [rec[b] EXCEPT !.orphans = @ + 1, !.settled = FALSE,
                              !.debits_live = FALSE, !.credits_live = FALSE]
           x == IF rec[b].debits_live THEN led.debit[b] - 1 ELSE led.debit[b]
           y == IF rec[b].credits_live THEN led.credit[b] - 1 ELSE led.credit[b]
<1>1. rec[b] \in Record /\ rec[b].orphans + 1 \in 0 .. 2 /\ x \in Int /\ y \in Int
  BY SMTT(30), Shapes DEF Record
<1>2. r \in Record
  BY Zenon, <1>1, RecordUpdates
<1>3. /\ r.seen /\ r.orphans = rec[b].orphans + 1
      /\ ~r.debits_live /\ ~r.credits_live
  BY <1>1 DEF Record
<1>4. rec' = [rec EXCEPT ![b] = r] /\ led' = [led EXCEPT !.debit[b] = x, !.credit[b] = y]
  BY SMTT(30) DEF mark_orphan
<1>5. led' \in Ledger
  BY Zenon, <1>1, <1>4, Shapes, LedgerUpdates
<1> HIDE DEF r, x, y
<1>6. /\ led'.debit[b] = x /\ led'.credit[b] = y /\ led'.applied = led.applied
      /\ \A c \in Candidate \ {b} : led'.debit[c] = led.debit[c] /\ led'.credit[c] = led.credit[c]
  BY <1>1, <1>4, Shapes DEF Ledger
<1>7. QED
  BY <1>2, <1>3, <1>4, <1>5, <1>6, Shapes DEF mark_orphan, x, y

(* settle_confirmed puts on the ledger what is not live, takes one label   *)
(* off if there is one, and says so on the record.                         *)
LEMMA SettleMoves ==
  ASSUME Typed, NEW b \in Candidate, rec[b].seen, settle_confirmed(b)
  PROVE  /\ rec' \in [Candidate -> Record] /\ led' \in Ledger
         /\ rec'[b].seen /\ rec'[b].orphans <= rec[b].orphans
         /\ rec'[b].orphans <= 1
         /\ rec'[b].debits_live /\ rec'[b].credits_live
         /\ led'.debit[b] = (IF rec[b].debits_live THEN led.debit[b] ELSE led.debit[b] + 1)
         /\ led'.credit[b] = (IF rec[b].credits_live THEN led.credit[b] ELSE led.credit[b] + 1)
         /\ led'.applied = led.applied
         /\ \A c \in Candidate \ {b} : /\ rec'[c] = rec[c] /\ led'.debit[c] = led.debit[c]
                                   /\ led'.credit[c] = led.credit[c]
         /\ orphaned' = orphaned
<1> DEFINE n == IF rec[b].orphans > 0 THEN rec[b].orphans - 1 ELSE 0
           r == [rec[b] EXCEPT !.orphans = n, !.settled = TRUE,
                              !.debits_live = TRUE, !.credits_live = TRUE]
           x == IF rec[b].debits_live THEN led.debit[b] ELSE led.debit[b] + 1
           y == IF rec[b].credits_live THEN led.credit[b] ELSE led.credit[b] + 1
<1>1. rec[b] \in Record /\ n \in 0 .. 2 /\ n <= 1 /\ n <= rec[b].orphans /\ x \in Int /\ y \in Int
  BY SMTT(30), Shapes DEF Record
<1>2. r \in Record
  BY Zenon, <1>1, RecordUpdates
<1>3. /\ r.seen /\ r.orphans = n
      /\ r.debits_live /\ r.credits_live
  BY <1>1 DEF Record
<1>4. rec' = [rec EXCEPT ![b] = r] /\ led' = [led EXCEPT !.debit[b] = x, !.credit[b] = y]
  BY SMTT(30) DEF settle_confirmed
<1>5. led' \in Ledger
  BY Zenon, <1>1, <1>4, Shapes, LedgerUpdates
<1> HIDE DEF n, r, x, y
<1>6. /\ led'.debit[b] = x /\ led'.credit[b] = y /\ led'.applied = led.applied
      /\ \A c \in Candidate \ {b} : led'.debit[c] = led.debit[c] /\ led'.credit[c] = led.credit[c]
  BY <1>1, <1>4, Shapes DEF Ledger
<1>7. /\ rec' \in [Candidate -> Record] /\ rec'[b] = r
      /\ \A c \in Candidate \ {b} : rec'[c] = rec[c]
  BY <1>2, <1>4, Shapes
<1>8. orphaned' = orphaned
  BY DEF settle_confirmed
<1>9. QED
  BY <1>1, <1>3, <1>5, <1>6, <1>7, <1>8 DEF x, y

(* The submit task's label comes on top of at most one of the poller's.    *)
LEMMA SubmitOrphanKeeps ==
  ASSUME RecordsInv, NEW b \in Candidate, SubmitOrphan(b)
  PROVE  RecordsInv'
<1>1. cand[b] = "done" /\ rec[b].seen /\ rec[b].orphans <= 1 /\ rec[b] \in Record
  BY Shapes DEF RecordsInv, SubmitOrphan, Placed, Submitting
<1>2. /\ rec' \in [Candidate -> Record] /\ led' \in Ledger
      /\ rec'[b].seen /\ rec'[b].orphans = rec[b].orphans + 1
      /\ ~rec'[b].debits_live /\ ~rec'[b].credits_live
      /\ led'.debit[b] = (IF rec[b].debits_live THEN led.debit[b] - 1 ELSE led.debit[b])
      /\ led'.credit[b] = (IF rec[b].credits_live THEN led.credit[b] - 1 ELSE led.credit[b])
      /\ led'.applied = led.applied
      /\ \A c \in Candidate \ {b} : /\ rec'[c] = rec[c] /\ led'.debit[c] = led.debit[c]
                                /\ led'.credit[c] = led.credit[c]
      /\ orphaned' = orphaned \cup {b}
  BY <1>1, OrphanMoves DEF RecordsInv, SubmitOrphan
<1>3. /\ crit' = [by |-> "submit", b |-> b, pc |-> "append", line |-> rec'[b]]
      /\ sub[b] = "checked" /\ sub'[b] = "done"
      /\ \A c \in Candidate \ {b} : sub'[c] = sub[c]
      /\ UNCHANGED <<disk, logged, cand, line, poll, chain, crashes>>
  BY DEF RecordsInv, SubmitOrphan, Typed, RecordsTypeOK, disks
<1>4. Typed'
  <2>1. crit' \in CritType
    BY <1>2, <1>3 DEF CritType
  <2>2. sub' \in [Candidate -> {"none", "asked", "answered", "invalid", "checked", "done"}]
    BY DEF RecordsInv, SubmitOrphan, Typed, RecordsTypeOK
  <2>3. QED
    BY <1>2, <1>3, <2>1, <2>2 DEF RecordsInv, Typed, RecordsTypeOK
<1>5. Placed'
  <2>1. poll.pc = "orphan" => poll.b \in Candidate
    BY Shapes DEF RecordsInv, Resting
  <2>2. QED
    BY <1>1, <1>2, <1>3, <2>1 DEF RecordsInv, Placed, Unpushed, Submitting, Record
<1>6. Lively'
  BY <1>1, <1>2, <1>3, Shapes DEF RecordsInv, Lively
<1>7. Booked'
  BY <1>1, <1>2, <1>3 DEF RecordsInv, Booked
<1>8. QED
  BY <1>4, <1>5, <1>6, <1>7 DEF RecordsInv

(* The poller asks about a record it has read; a side-chain block is asked *)
(* about only while it carries no label.                                   *)
LEMMA PollAsksKeeps ==
  ASSUME RecordsInv, NEW b \in Candidate, PollAsks(b)
  PROVE  RecordsInv'
<1>1. /\ rec[b].seen
      /\ \/ poll' = [pc |-> "settle", b |-> b]
         \/ rec[b].orphans = 0 /\ poll' = [pc |-> "orphan", b |-> b]
      /\ UNCHANGED <<rec, led, disk, logged, cand, sub, line, crit, chain, crashes, orphaned>>
  BY DEF PollAsks, disks
<1>2. cand[b] = "done"
  BY <1>1, RecordsTyped DEF RecordsInv, Typed, RecordsTypeOK, Placed, Unpushed
<1>3. Typed'
  BY <1>1 DEF RecordsInv, Typed, RecordsTypeOK, PollType
<1>4. Placed'
  BY <1>1, <1>2 DEF RecordsInv, Placed
<1>5. Lively'
  BY <1>1 DEF RecordsInv, Lively
<1>6. Booked'
  BY <1>1 DEF RecordsInv, Booked
<1>7. QED
  BY <1>3, <1>4, <1>5, <1>6 DEF RecordsInv

(* The poller settles or orphans the block it asked about.  Its label      *)
(* comes first while the submit task may still put one on.                 *)
LEMMA PollActsKeeps ==
  ASSUME RecordsInv, PollActs
  PROVE  RecordsInv'
<1> DEFINE b == poll.b
<1>1. /\ poll.pc \in {"settle", "orphan"} /\ b \in Candidate /\ poll # Resting
      /\ poll \in [pc : {"settle", "orphan", "inside"}, b : Candidate]
  BY Shapes DEF RecordsInv, PollActs, Resting
<1>2. cand[b] = "done" /\ rec[b].seen /\ rec[b] \in Record
  BY <1>1, Shapes DEF RecordsInv, Placed
<1>3. /\ crit' = [by |-> "poller", b |-> b, pc |-> "append", line |-> rec'[b]]
      /\ poll'.pc = "inside" /\ poll'.b = b /\ poll' \in PollType /\ poll' # Resting
      /\ UNCHANGED <<disk, logged, cand, sub, line, chain, crashes>>
  BY <1>1 DEF PollActs, disks, PollType, Resting
<1>4. CASE poll.pc = "settle"
  <2>1. /\ rec' \in [Candidate -> Record] /\ led' \in Ledger
        /\ rec'[b].seen /\ rec'[b].orphans <= rec[b].orphans
        /\ rec'[b].debits_live /\ rec'[b].credits_live
        /\ led'.debit[b] = (IF rec[b].debits_live THEN led.debit[b] ELSE led.debit[b] + 1)
        /\ led'.credit[b] = (IF rec[b].credits_live THEN led.credit[b] ELSE led.credit[b] + 1)
        /\ led'.applied = led.applied
        /\ \A c \in Candidate \ {b} : /\ rec'[c] = rec[c] /\ led'.debit[c] = led.debit[c]
                                  /\ led'.credit[c] = led.credit[c]
        /\ orphaned' = orphaned
    BY <1>1, <1>2, <1>4, SettleMoves DEF RecordsInv, PollActs
  <2> HIDE DEF b
  <2>2. Typed'
    <3>1. crit' \in CritType
      BY <1>1, <1>3, <2>1 DEF CritType
    <3>2. poll'.pc \in {"idle", "settle", "orphan", "inside"} /\ crit'.pc \in {"none", "append", "sync"}
      BY <1>3
    <3>3. QED
      BY <1>3, <2>1, <3>1, <3>2 DEF RecordsInv, Typed, RecordsTypeOK
  <2>3. Placed'
    BY <1>1, <1>2, <1>3, <2>1 DEF RecordsInv, Placed, Unpushed, Submitting, Record
  <2>4. Lively'
    BY <1>1, <1>2, <1>3, <2>1, Shapes DEF RecordsInv, Lively
  <2>5. Booked'
    BY <1>1, <1>2, <1>3, <2>1 DEF RecordsInv, Booked
  <2>6. QED
    BY <2>2, <2>3, <2>4, <2>5 DEF RecordsInv
<1>5. CASE poll.pc = "orphan"
  <2>1. rec[b].orphans <= 1 /\ (sub[b] \in Submitting => rec[b].orphans = 0)
    BY <1>2, <1>5 DEF RecordsInv, Placed, Record
  <2>2. /\ rec' \in [Candidate -> Record] /\ led' \in Ledger
        /\ rec'[b].seen /\ rec'[b].orphans = rec[b].orphans + 1
        /\ ~rec'[b].debits_live /\ ~rec'[b].credits_live
        /\ led'.debit[b] = (IF rec[b].debits_live THEN led.debit[b] - 1 ELSE led.debit[b])
        /\ led'.credit[b] = (IF rec[b].credits_live THEN led.credit[b] - 1 ELSE led.credit[b])
        /\ led'.applied = led.applied
        /\ \A c \in Candidate \ {b} : /\ rec'[c] = rec[c] /\ led'.debit[c] = led.debit[c]
                                  /\ led'.credit[c] = led.credit[c]
        /\ orphaned' = orphaned \cup {b}
    BY <1>1, <1>2, <1>5, <2>1, OrphanMoves DEF RecordsInv, PollActs
  <2> HIDE DEF b
  <2>3. Typed'
    <3>1. crit' \in CritType
      BY <1>1, <1>3, <2>2 DEF CritType
    <3>2. poll'.pc \in {"idle", "settle", "orphan", "inside"} /\ crit'.pc \in {"none", "append", "sync"}
      BY <1>3
    <3>3. QED
      BY <1>1, <1>3, <2>2, <3>1, <3>2 DEF RecordsInv, Typed, RecordsTypeOK
  <2>4. Placed'
    BY <1>1, <1>2, <1>3, <2>1, <2>2 DEF RecordsInv, Placed, Unpushed, Submitting, Record
  <2>5. Lively'
    BY SMTT(30), <1>1, <1>2, <1>3, <2>2, Shapes DEF RecordsInv, Lively
  <2>6. Booked'
    BY <1>1, <1>2, <1>3, <2>2 DEF RecordsInv, Booked
  <2>7. QED
    BY <2>3, <2>4, <2>5, <2>6 DEF RecordsInv
<1>6. QED
  BY <1>1, <1>4, <1>5

(* The copy appended under the ledger lock is of a block that is there.    *)
LEMMA CritLogKeeps ==
  ASSUME RecordsInv, CritLog
  PROVE  RecordsInv'
<1>1. /\ crit # Nobody /\ crit.b \in Candidate /\ crit.line \in Record
      /\ crit \in [by : {"submit", "poller"}, b : Candidate, pc : {"append", "sync"}, line : Record]
  BY Shapes DEF RecordsInv, CritLog, Nobody
<1>2. /\ logged' \in [Candidate -> Record] /\ logged'[crit.b] = crit.line
      /\ \A c \in Candidate \ {crit.b} : logged'[c] = logged[c]
  BY <1>1, Shapes DEF RecordsInv, CritLog, append
<1>3. /\ crit'.b = crit.b /\ crit'.line = crit.line /\ crit'.pc = "sync"
      /\ crit' \in CritType /\ crit' # Nobody
  BY <1>1 DEF CritLog, CritType, Nobody
<1>4. UNCHANGED <<rec, led, disk, cand, sub, line, poll, chain, crashes, orphaned>>
  BY DEF CritLog
<1>5. Typed'
  BY <1>2, <1>3, <1>4 DEF RecordsInv, Typed, RecordsTypeOK
<1>6. Placed'
  BY SMTT(30), <1>1, <1>2, <1>3, <1>4 DEF RecordsInv, Placed, Unpushed
<1>7. Lively'
  BY <1>4 DEF RecordsInv, Lively
<1>8. Booked'
  BY <1>1, <1>2, <1>3, <1>4 DEF RecordsInv, Booked
<1>9. QED
  BY <1>5, <1>6, <1>7, <1>8 DEF RecordsInv

(* The holder syncs and lets go.                                           *)
LEMMA CritSyncKeeps ==
  ASSUME RecordsInv, CritSync
  PROVE  RecordsInv'
<1>1. /\ disk' \in {disk, led} /\ poll' \in {poll, Resting} /\ crit' = Nobody
      /\ UNCHANGED <<rec, led, logged, cand, sub, line, chain, crashes, orphaned>>
  BY DEF CritSync, sync
<1>2. Resting.pc = "idle" /\ Nobody.pc = "none" /\ Resting \in PollType /\ Nobody \in CritType
  BY DEF Resting, Nobody, PollType, CritType
<1>3. Typed'
  BY <1>1, <1>2 DEF RecordsInv, Typed, RecordsTypeOK
<1>4. Placed'
  BY <1>1, <1>2 DEF RecordsInv, Placed
<1>5. Lively'
  BY <1>1 DEF RecordsInv, Lively
<1>6. Booked'
  BY <1>1 DEF RecordsInv, Booked
<1>7. QED
  BY <1>3, <1>4, <1>5, <1>6 DEF RecordsInv

-----------------------------------------------------------------------------
(* The timer's flush and the moves of the chain touch no record.           *)
LEMMA OutsideKeeps ==
  ASSUME RecordsInv, HousekeepingSync \/ \E b \in Candidate : ChainMoves(b)
  PROVE  RecordsInv'
<1>1. /\ disk' \in {disk, led}
      /\ chain' \in [Candidate -> {"none", "main", "side"}]
      /\ UNCHANGED <<rec, led, logged, cand, sub, line, poll, crit, crashes, orphaned>>
  BY DEF RecordsInv, HousekeepingSync, ChainMoves, tasks, disks, Typed, RecordsTypeOK
<1>2. Typed'
  BY <1>1 DEF RecordsInv, Typed, RecordsTypeOK
<1>3. Placed'
  BY <1>1 DEF RecordsInv, Placed
<1>4. Lively'
  BY <1>1 DEF RecordsInv, Lively
<1>5. Booked'
  BY <1>1 DEF RecordsInv, Booked
<1>6. QED
  BY <1>2, <1>3, <1>4, <1>5 DEF RecordsInv

(* reconcile_debits adds exactly the debits that the log has and the       *)
(* window does not.                                                        *)
LEMMA ReconcileAdds ==
  ASSUME Typed
  PROVE  LET d == reconcile_debits(disk)
             owing(b) == logged[b].seen /\ logged[b].debits_live /\ b \notin disk.applied
         IN  /\ d \in Ledger
             /\ \A b \in Candidate :
                  /\ d.debit[b] = IF owing(b) THEN disk.debit[b] + 1 ELSE disk.debit[b]
                  /\ b \in d.applied <=> b \in disk.applied \/ owing(b)
<1> DEFINE owe == {b \in Candidate : logged[b].seen /\ logged[b].debits_live /\ b \notin disk.applied}
           f == [b \in Candidate |-> IF b \in owe THEN disk.debit[b] + 1 ELSE disk.debit[b]]
<1>1. f \in [Candidate -> Int] /\ owe \subseteq Candidate
  BY Shapes
<1>2. reconcile_debits(disk) = [disk EXCEPT !.debit = f, !.applied = disk.applied \cup owe]
  BY DEF reconcile_debits
<1>3. disk \in Ledger /\ disk.applied \cup owe \in SUBSET Candidate
  BY <1>1, Shapes
<1> HIDE DEF owe, f
<1>4. /\ reconcile_debits(disk) \in Ledger
      /\ reconcile_debits(disk).debit = f
      /\ reconcile_debits(disk).applied = disk.applied \cup owe
  BY Zenon, <1>1, <1>2, <1>3 DEF Ledger
<1>5. QED
  BY <1>4 DEF owe, f

(* A kill and the restart: every record is its latest line, and a block    *)
(* that was never labelled has its debits in the window exactly once.      *)
LEMMA CrashKeeps ==
  ASSUME RecordsInv, CrashAndRestart
  PROVE  RecordsInv'
<1>1. /\ rec' = logged /\ logged' = logged /\ disk' = led' /\ led' = reconcile_debits(disk)
      /\ poll' = Resting /\ crit' = Nobody /\ chain' = chain /\ orphaned' = orphaned
      /\ line' = [b \in Candidate |-> NoRecord]
      /\ crashes' = crashes + 1
      /\ cand' = [b \in Candidate |-> IF cand[b] = "none" THEN "none"
                                  ELSE IF logged[b].seen THEN "done" ELSE "lost"]
      /\ sub' = [b \in Candidate |-> IF cand[b] = "none" THEN "none" ELSE "done"]
  BY DEF CrashAndRestart
<1>2. Resting.pc = "idle" /\ Nobody.pc = "none" /\ Resting \in PollType /\ Nobody \in CritType
  BY DEF Resting, Nobody, PollType, CritType
<1>3. /\ led' \in Ledger
      /\ \A b \in Candidate :
           LET owing == logged[b].seen /\ logged[b].debits_live /\ b \notin disk.applied
           IN  /\ led'.debit[b] = IF owing THEN disk.debit[b] + 1 ELSE disk.debit[b]
               /\ b \in led'.applied <=> b \in disk.applied \/ owing
  BY <1>1, ReconcileAdds DEF RecordsInv
<1>4. crashes' \in Nat /\ crashes' # 0
  BY <1>1 DEF RecordsInv, Typed
<1>5. \A b \in Candidate : ~logged[b].seen => logged[b] = NoRecord
  BY RecordsTyped DEF RecordsInv, Typed, RecordsTypeOK, Placed
<1>6. \A b \in Candidate : cand[b] = "none" => logged[b] = NoRecord
  BY DEF RecordsInv, Placed
<1>7. Typed'
  BY <1>1, <1>2, <1>3, <1>4, RecordsTyped DEF RecordsInv, Typed, RecordsTypeOK
<1>8. Placed'
  BY <1>1, <1>2, <1>5, <1>6 DEF Placed, Unpushed, Submitting
<1>9. Lively'
  BY <1>4 DEF Lively
<1>10. Booked'
  BY <1>1, <1>3, <1>5, <1>6, Shapes, RecordsTyped DEF RecordsInv, Booked
<1>11. QED
  BY <1>7, <1>8, <1>9, <1>10 DEF RecordsInv

(* Every step keeps it.                                                    *)
LEMMA NextKeeps == RecordsInv /\ [RecordsNext]_recordVars => RecordsInv'
<1> SUFFICES ASSUME RecordsInv, [RecordsNext]_recordVars PROVE RecordsInv'
  OBVIOUS
<1>1. ASSUME NEW b \in Candidate,
             BookDebits(b) \/ SyncDebits(b) \/ LogCandidate(b) \/ PushCandidate(b)
      PROVE  RecordsInv'
  BY <1>1, BookDebitsKeeps, SyncDebitsKeeps, LogCandidateKeeps, PushCandidateKeeps
<1>2. ASSUME NEW b \in Candidate,
             SubmitAnswer(b) \/ SubmitLog(b) \/ SubmitCheck(b) \/ SubmitOrphan(b)
      PROVE  RecordsInv'
  BY <1>2, SubmitAnswerKeeps, SubmitLogKeeps, SubmitCheckKeeps, SubmitOrphanKeeps
<1>3. ASSUME NEW b \in Candidate, PollAsks(b)
      PROVE  RecordsInv'
  BY <1>3, PollAsksKeeps
<1>4. CASE PollActs \/ CritLog \/ CritSync \/ CrashAndRestart
  BY <1>4, PollActsKeeps, CritLogKeeps, CritSyncKeeps, CrashKeeps
<1>5. CASE HousekeepingSync \/ \E b \in Candidate : ChainMoves(b)
  BY SMTT(30), <1>5, OutsideKeeps
<1>6. CASE UNCHANGED recordVars
  <2>1. UNCHANGED <<rec, led, disk, logged, cand, sub, line, poll, crit, chain, crashes, orphaned>>
    BY <1>6 DEF recordVars, disks, tasks
  <2>2. QED
    BY <2>1 DEF RecordsInv, Typed, RecordsTypeOK, Placed, Lively, Booked
<1>7. QED
  BY <1>1, <1>2, <1>3, <1>4, <1>5, <1>6 DEF RecordsNext

-----------------------------------------------------------------------------
(* RecordsInv is an invariant.                                             *)
LEMMA RecordsInvariant == RecordsSpec => []RecordsInv
BY InitHolds, NextKeeps, PTL DEF RecordsSpec

(* While the process lives, a record's books and the ledger tell the same  *)
(* story, and a record never carries more labels than two (mark_orphan,    *)
(* settle_confirmed, update_block).                                        *)
THEOREM RecordsAgree == RecordsSpec => []RecordMatchesLedger
<1>1. RecordsInv => RecordMatchesLedger
  <2> SUFFICES ASSUME RecordsInv PROVE RecordMatchesLedger
    OBVIOUS
  <2>1. \A b \in Candidate : rec[b].seen => cand[b] = "done"
    BY RecordsTyped DEF RecordsInv, Typed, RecordsTypeOK, Placed, Unpushed
  <2>2. QED
    BY <2>1 DEF RecordsInv, Typed, Lively, RecordMatchesLedger
<1>2. QED
  BY <1>1, RecordsInvariant, PTL

(* The first booking of a block survives every kill and every failed sync  *)
(* (book_block_debits, reconcile_debits).                                  *)
THEOREM BookingsSurvive == RecordsSpec => []FirstBookingSurvives
<1>1. RecordsInv => FirstBookingSurvives
  <2> SUFFICES ASSUME RecordsInv, NEW b \in Candidate \ orphaned
               PROVE  /\ rec[b].debits_live => led.debit[b] = 1
                      /\ led.debit[b] > 0 => b \in led.applied
                      /\ disk.debit[b] > 0 => b \in disk.applied
    BY DEF FirstBookingSurvives
  <2>1. rec[b].debits_live => cand[b] = "done"
    BY DEF RecordsInv, Typed, RecordsTypeOK, Placed, Unpushed, NoRecord
  <2>2. QED
    BY <2>1 DEF RecordsInv, Booked
<1>2. QED
  BY <1>1, RecordsInvariant, PTL
=============================================================================
