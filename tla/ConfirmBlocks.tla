---------------------------- MODULE ConfirmBlocks ----------------------------
(***************************************************************************)
(* node::confirm_blocks over the life of a chain: which records a pass of  *)
(* the poller asks the node about, and what their answers do.  A pass      *)
(* copies the newest records that are still open, then asks about each in  *)
(* turn; the chain moves while it does.  What settling and orphaning do to *)
(* the books is in TidesLedger and BlockRecords.                           *)
(***************************************************************************)
EXTENDS Integers, Sequences, SequencesExt

CONSTANTS Block,
          PassSize,      \* records a pass asks about (20)
          RecheckOrphan, \* ORPHAN_RECHECK_BLOCKS (100)
          GiveUp,        \* blocks after which an open record is left (2000)
          NeverSeen,     \* blocks after which an unknown block has lost (6)
          MaxTip,        \* bound: height of the chain
          LastFind       \* bound: tip height at which blocks are still found

ASSUME ConfirmAssumption ==
  /\ {PassSize, RecheckOrphan, GiveUp, NeverSeen, MaxTip, LastFind} \subseteq Nat
  /\ NeverSeen < RecheckOrphan /\ RecheckOrphan <= GiveUp

VARIABLES tip,      \* the node's height
          view,     \* block -> unknown to the node, main chain, side chain
          records,  \* recorded blocks, oldest first
          height,   \* block -> height
          settled, orphan,   \* block -> BlockRecord.settled, labelled orphan
          queue,    \* what is left of this pass
          seenTip   \* the tip height the pass was started with

vars == <<tip, view, records, height, settled, orphan, queue, seenTip>>

Init ==
  /\ tip = 0 /\ seenTip = 0
  /\ view = [b \in Block |-> "unknown"]
  /\ records = <<>>
  /\ height = [b \in Block |-> 0]
  /\ settled = [b \in Block |-> FALSE] /\ orphan = [b \in Block |-> FALSE]
  /\ queue = <<>>

Found(b) == b \in ToSet(records)

\* on_block_candidate: the gateway's node may be a block behind or ahead.
Candidate(b) ==
  /\ ~Found(b) /\ tip <= LastFind
  /\ records' = Append(records, b)
  /\ \E h \in {tip, tip + 1, tip + 2} : height' = [height EXCEPT ![b] = h]
  /\ UNCHANGED <<tip, view, settled, orphan, queue, seenTip>>

\* The node's chain: it grows, and our blocks join it, lose, or come back.
TipGrows ==
  /\ tip < MaxTip /\ tip' = tip + 1
  /\ UNCHANGED <<view, records, height, settled, orphan, queue, seenTip>>

Reorg(b) ==
  /\ Found(b) /\ height[b] <= tip
  /\ \E v \in {"main", "side"} : v # view[b] /\ view' = [view EXCEPT ![b] = v]
  /\ UNCHANGED <<tip, records, height, settled, orphan, queue, seenTip>>

\* Mutation: an orphan is not looked at again.
Open_not_orphans(b) == ~settled[b] /\ ~orphan[b] /\ height[b] + GiveUp > tip

\* The filter of confirm_blocks.
Open(b) ==
  /\ ~settled[b]
  /\ height[b] + (IF orphan[b] THEN RecheckOrphan ELSE GiveUp) > tip

\* A pass starts: the newest PassSize records still open.
PassStarts ==
  /\ queue = <<>>
  /\ LET open == SelectSeq(Reverse(records), Open)
     IN  queue' = SubSeq(open, 1, IF Len(open) < PassSize THEN Len(open) ELSE PassSize)
  /\ queue' # <<>>
  /\ seenTip' = tip
  /\ UNCHANGED <<tip, view, records, height, settled, orphan>>

\* settle_confirmed and mark_orphan, as far as the record's label goes.
settle_confirmed(b) ==
  settled' = [settled EXCEPT ![b] = TRUE] /\ orphan' = [orphan EXCEPT ![b] = FALSE]

mark_orphan(b) ==
  settled' = [settled EXCEPT ![b] = FALSE] /\ orphan' = [orphan EXCEPT ![b] = TRUE]

\* The node answers about the next block of the pass.
Answered(b) ==
  /\ queue # <<>> /\ b = Head(queue) /\ queue' = Tail(queue)
  /\ \/ view[b] = "main" /\ settle_confirmed(b)
     \/ view[b] = "side" /\ mark_orphan(b)
     \/ view[b] = "unknown" /\ seenTip > height[b] + NeverSeen /\ mark_orphan(b)
     \/ view[b] = "unknown" /\ seenTip <= height[b] + NeverSeen /\ UNCHANGED <<settled, orphan>>
  /\ UNCHANGED <<tip, view, records, height, seenTip>>

\* The call fails; the record waits for the next pass.
NotAnswered ==
  /\ queue # <<>> /\ queue' = Tail(queue)
  /\ UNCHANGED <<tip, view, records, height, settled, orphan, seenTip>>

Next ==
  \/ \E b \in Block : Candidate(b) \/ Reorg(b) \/ Answered(b)
  \/ TipGrows \/ PassStarts \/ NotAnswered

\* The poller keeps running passes (every 30 s and on every new tip), asks
\* about every record of a pass, and the node's RPC does not fail for ever.
\* Nothing is asked of the chain: it may stand still.
Fairness ==
  /\ WF_vars(PassStarts)
  /\ \A b \in Block : SF_vars(Answered(b))

Spec == Init /\ [][Next]_vars /\ Fairness

-----------------------------------------------------------------------------
(* A block the node has in its main chain is settled, also one that was    *)
(* called an orphan before, unless the chain drops it again or has moved   *)
(* RecheckOrphan past it first ("a record called `orphan:` is re-checked   *)
(* for 100 blocks and un-labelled if a reorg brings it back").             *)
MainIsSettled ==
  \A b \in Block :
    (Found(b) /\ view[b] = "main")
      ~> (settled[b] \/ view[b] # "main" \/ tip >= height[b] + RecheckOrphan)

(* No record waits for ever: a block the node has an opinion on, or that   *)
(* the chain has left NeverSeen behind without the node hearing of it, is  *)
(* settled or called an orphan, unless it is GiveUp behind by then.        *)
EveryRecordDecided ==
  \A b \in Block :
    (Found(b) /\ (view[b] # "unknown" \/ tip > height[b] + NeverSeen))
      ~> (settled[b] \/ orphan[b] \/ tip >= height[b] + GiveUp)
=============================================================================
