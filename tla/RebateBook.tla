----------------------------- MODULE RebateBook -----------------------------
(***************************************************************************)
(* The DATUM rebate: what the pool owes DATUM miners out of stratum and    *)
(* solo fees.  A split credits it, with whatever is owed from before, when *)
(* its block confirms, or defers it to the owed balance when nobody can    *)
(* take it; solo.rs books the share of each buried solo block the same     *)
(* way, moving a cursor through the chain.  The block's side is synced at  *)
(* once, the solo side waits for the next flush.                           *)
(*                                                                         *)
(* History variables: `funded', the rebates fees have paid for; `odd', one *)
(* of the cases the cap does not reach has happened; `booked', how often   *)
(* the ledger has each solo block; `from', the height scanning began at;   *)
(* `slips', kills and failed writes that tore a booking from its cursor.   *)
(***************************************************************************)
EXTENDS Integers, Sequences, FiniteSets, FiniteSetsExt, Functions

CONSTANTS Found,        \* block candidates of the pool, numbers
          Fee,          \* the rebate a block's own stratum fee pays for
          SoloBlock,    \* [kind, value, pool]: solo blocks, as coinbase_facts reads them
          Bps,          \* solo_rebate_bps
          Depth,        \* SOLO_DEPTH, and how deep a reorganisation goes
          PerPass,      \* blocks in one scan
          MaxHeight, MaxKills   \* bounds

ASSUME RebateAssumption ==
  /\ IsFiniteSet(Found) /\ Fee \subseteq Nat
  /\ Bps \in Nat /\ \A x \in SoloBlock : x.value \in Nat /\ x.pool \in Nat
  /\ Depth \in Nat \ {0} /\ PerPass \in Nat \ {0} /\ MaxHeight \in Nat

VARIABLES owed,      \* Window::rebate_owed
          credited,  \* rebate credited to carry
          issued,    \* block -> the figures of the split it is mined on
          bk,        \* block -> its Books, as far as the rebate goes
          buried,    \* the node's chain from the first height on
          cursor,    \* solo-scan.json, from the first height on; -1: none
          scan,      \* where the scan is: [pc, h, end]
          tipMoved,     \* the tip is not the one last scanned from
          flushed,   \* window.json
          kills, slips, funded, odd, booked, from

money == <<owed, credited, funded, booked>>
solo == <<buried, cursor, scan, tipMoved, kills, slips, from>>
rebateVars == <<money, issued, bk, odd, flushed, solo>>

\* A block of the chain: a solo one, or any other: without the tag, paying the pool
\* nothing, or one that Prime recorded itself.
Plain == [kind |-> "other", value |-> 0, pool |-> 0]
ChainBlock == {Plain} \cup SoloBlock

Idle == [pc |-> "idle", h |-> 0, end |-> 0]
NoSplit == [made |-> FALSE, live |-> FALSE, fee |-> 0, owed_credited |-> 0, deferred |-> 0]
NoBook == [seen |-> FALSE, debits_live |-> FALSE, credits_live |-> FALSE,
           debited |-> 0, credit |-> 0]

RebateInit ==
  /\ owed = 0 /\ credited = 0 /\ funded = 0 /\ booked = [h \in 1 .. MaxHeight |-> 0]
  /\ issued = [b \in Found |-> NoSplit] /\ bk = [b \in Found |-> NoBook]
  /\ buried = <<>> /\ cursor \in {-1, 0} /\ scan = Idle /\ tipMoved = TRUE
  /\ flushed = [owed |-> 0, credited |-> 0, funded |-> 0, booked |-> booked]
  /\ kills = 0 /\ slips = 0 /\ odd = FALSE /\ from = 0

Books == [owed |-> owed, credited |-> credited, funded |-> funded, booked |-> booked]

\* The ledger as a step leaves it, synced.
Sync == flushed' = [owed |-> owed', credited |-> credited', funded |-> funded', booked |-> booked']

\* Window::adjust_rebate_owed: never below zero.
Less(x, y) == IF x > y THEN x - y ELSE 0

-----------------------------------------------------------------------------
(* Blocks of the pool.                                                     *)

\* The split the next block, b, will be mined on, with the rebate f of its own fee: credited
\* with all that is owed if somebody can take it, deferred if not.
SplitFor(b, f, taker, live) ==
  /\ ~issued[b].made /\ \A c \in Found : c < b => issued[c].made
  /\ issued' = [issued EXCEPT ![b] =
       [made |-> TRUE, live |-> live, fee |-> IF taker THEN f ELSE 0,
        owed_credited |-> IF taker THEN owed ELSE 0, deferred |-> IF taker THEN 0 ELSE f]]
  /\ UNCHANGED <<money, bk, odd, flushed, solo>>

\* Mutation: the credits of the split stand whatever was still owed.
capped_never(c, drawn) == c.fee + c.owed_credited

\* cap_rebate_to_owed_drawn: what another block drew of it is not credited again.
\* A live split is not capped.
capped(c, drawn) ==
  c.fee + IF c.live THEN c.owed_credited ELSE drawn

\* on_block_candidate: the owed rebate its split credits comes off.
FoundCandidate(b) ==
  LET c == issued[b]
      drawn == Min({owed, c.owed_credited})
  IN  /\ c.made /\ ~bk[b].seen
      /\ owed' = owed - drawn
      /\ bk' = [bk EXCEPT ![b] = [seen |-> TRUE, debits_live |-> TRUE, credits_live |-> FALSE,
                                   debited |-> drawn, credit |-> capped(c, drawn)]]
      /\ odd' = (odd \/ (c.live /\ drawn < c.owed_credited))
      /\ UNCHANGED <<credited, funded, booked, issued, solo>>
      /\ Sync

\* settle_confirmed: anything not on goes on.
FoundConfirmed(b) ==
  LET c == issued[b]
      k == bk[b]
      drawn == IF k.debits_live THEN k.debited ELSE Min({owed, c.owed_credited})
  IN  /\ k.seen /\ ~k.credits_live
      /\ owed' = (IF k.debits_live THEN owed ELSE owed - drawn) + c.deferred
      /\ credited' = credited + k.credit
      /\ funded' = funded + c.fee + c.deferred
      /\ bk' = [bk EXCEPT ![b] = [k EXCEPT !.debits_live = TRUE, !.credits_live = TRUE, !.debited = drawn]]
      /\ odd' = (odd \/ ~k.debits_live)
      /\ UNCHANGED <<booked, issued, solo>>
      /\ Sync

\* mark_orphan: the rebate it drew is owed again, what it earned comes off.
FoundOrphaned(b) ==
  LET c == issued[b]
      k == bk[b]
      on == k.credits_live
  IN  /\ k.debits_live
      /\ owed' = (IF on THEN Less(owed, c.deferred) ELSE owed) + k.debited
      /\ credited' = credited - (IF on THEN k.credit ELSE 0)
      /\ funded' = funded - (IF on THEN c.fee + c.deferred ELSE 0)
      /\ bk' = [bk EXCEPT ![b] = [k EXCEPT !.debits_live = FALSE, !.credits_live = FALSE, !.debited = 0]]
      /\ odd' = (odd \/ on)
      /\ UNCHANGED <<booked, issued, solo>>
      /\ Sync

-----------------------------------------------------------------------------
(* Solo blocks.                                                            *)

\* The node's chain grows, or loses its last block to a longer branch.
ChainGrows(x) ==
  /\ Len(buried) < MaxHeight
  /\ buried' = Append(buried, x) /\ tipMoved' = TRUE
  /\ UNCHANGED <<money, issued, bk, odd, flushed, cursor, scan, kills, slips, from>>

ChainReorganises(x, y) ==
  /\ Len(buried) \in 1 .. MaxHeight - 1
  /\ buried' = SubSeq(buried, 1, Len(buried) - 1) \o <<x, y>> /\ tipMoved' = TRUE
  /\ UNCHANGED <<money, issued, bk, odd, flushed, cursor, scan, kills, slips, from>>

\* scan up to its loop: a fresh data directory starts at the current tip.
ScanStarts ==
  LET upto == Len(buried) - Depth
      first == cursor + 1
  IN  /\ scan.pc = "idle" /\ tipMoved /\ tipMoved' = FALSE
      /\ IF upto > 0 /\ cursor = -1 THEN cursor' = upto /\ from' = upto
         ELSE UNCHANGED <<cursor, from>>
      /\ scan' = IF cursor >= 0 /\ first <= upto
                 THEN [pc |-> "ask", h |-> first, end |-> Min({upto, first + PerPass - 1})] ELSE Idle
      /\ UNCHANGED <<money, issued, bk, odd, flushed, buried, kills, slips>>

rebate_for(x) == Min({(x.value * Bps) \div 10000, x.pool})

\* A tagged block that pays the pool, and is none of Prime's own.
IsSolo(x) == x.kind = "solo" /\ x.pool > 0

\* One block of the loop up to its cursor; `taker': a DATUM miner can be credited.
ScanBlock(taker) ==
  LET x == buried[scan.h]
      rebate == rebate_for(x)
  IN  /\ scan.pc = "ask"
      /\ scan' = [scan EXCEPT !.pc = "cursor"]
      /\ IF IsSolo(x)
         THEN /\ credited' = IF taker THEN credited + rebate + owed ELSE credited
              /\ owed' = IF taker THEN 0 ELSE owed + rebate
              /\ funded' = funded + rebate
              /\ booked' = [booked EXCEPT ![scan.h] = @ + 1]
         ELSE UNCHANGED money
      /\ UNCHANGED <<issued, bk, odd, flushed, buried, cursor, tipMoved, kills, slips, from>>

ScanOn == IF scan.h < scan.end THEN [scan EXCEPT !.pc = "ask", !.h = @ + 1] ELSE Idle

\* Mutation: the cursor is written when the pass is done.
WriteCursor_at_end ==
  /\ scan.pc = "cursor"
  /\ cursor' = IF scan.h = scan.end THEN scan.h ELSE cursor
  /\ scan' = ScanOn
  /\ UNCHANGED <<money, issued, bk, odd, flushed, buried, tipMoved, kills, slips, from>>

WriteCursor ==
  /\ scan.pc = "cursor"
  /\ cursor' = scan.h
  /\ scan' = ScanOn
  /\ UNCHANGED <<money, issued, bk, odd, flushed, buried, tipMoved, kills, slips, from>>

\* The write fails and is only logged.
CursorNotWritten ==
  /\ scan.pc = "cursor" /\ kills < MaxKills /\ kills' = kills + 1
  /\ scan' = ScanOn
  /\ slips' = slips + 1
  /\ UNCHANGED <<money, issued, bk, odd, flushed, buried, cursor, tipMoved, from>>

\* A call to the node fails: the rest waits for the next tip.
ScanFails ==
  /\ scan.pc = "ask" /\ scan' = Idle
  /\ UNCHANGED <<money, issued, bk, odd, flushed, buried, cursor, tipMoved, kills, slips, from>>

HousekeepingFlush ==
  /\ flushed # Books /\ flushed' = Books
  /\ UNCHANGED <<money, issued, bk, odd, solo>>

\* The process is killed and starts again.
KillAndRestart ==
  /\ kills < MaxKills /\ kills' = kills + 1
  /\ slips' = IF Books # flushed \/ (scan.pc = "cursor" /\ booked[scan.h] > 0) THEN slips + 1 ELSE slips
  /\ owed' = flushed.owed /\ credited' = flushed.credited
  /\ funded' = flushed.funded /\ booked' = flushed.booked
  /\ issued' = [b \in Found |-> IF bk[b].seen THEN issued[b] ELSE NoSplit]
  /\ scan' = Idle /\ tipMoved' = TRUE
  /\ UNCHANGED <<bk, odd, flushed, buried, cursor, from>>

RebateNext ==
  \/ \E b \in Found : \/ \E f \in Fee, taker, live \in BOOLEAN : SplitFor(b, f, taker, live)
                      \/ FoundCandidate(b) \/ FoundConfirmed(b) \/ FoundOrphaned(b)
  \/ \E x \in ChainBlock : ChainGrows(x) \/ \E y \in ChainBlock : ChainReorganises(x, y)
  \/ ScanStarts \/ \E taker \in BOOLEAN : ScanBlock(taker)
  \/ WriteCursor \/ CursorNotWritten \/ ScanFails
  \/ HousekeepingFlush \/ KillAndRestart

RebateSpec == RebateInit /\ [][RebateNext]_rebateVars

-----------------------------------------------------------------------------
\* The rebate blocks have drawn and not credited yet.
Drawn(b) == IF bk[b].credits_live THEN 0 ELSE bk[b].debited
AllDrawn == SumFunction([b \in Found |-> Drawn(b)])

(* Every sat of rebate that fees paid for is owed, credited or drawn by a  *)
(* block not yet confirmed, once: blocks mined on splits from before the   *)
(* balance was drawn, orphans and solo blocks do not hand it out twice     *)
(* (book_debits, cap_rebate_to_owed_drawn, unbook, scan).  Except: a block *)
(* orphaned and back, one that was settled and orphaned, and a live split  *)
(* outrun by another booking.                                              *)
RebateConserved ==
  odd \/ owed + credited + AllDrawn = funded

(* Whatever the node's failures, the reorganisations above the scanned     *)
(* depth and the restarts, each buried solo block is booked exactly once   *)
(* from the first scan on; only a kill or a failed write between booking,  *)
(* flush and cursor can tell otherwise, once each (scan, write_cursor).    *)
SoloBookedOnce ==
  \A h \in 1 .. MaxHeight :
    /\ booked[h] <= 1 + slips
    /\ slips = 0 => booked[h] =
         IF /\ h \in DOMAIN buried /\ IsSolo(buried[h]) /\ cursor >= 0 /\ h > from
            /\ h <= cursor \/ (scan.pc = "cursor" /\ h <= scan.h)
         THEN 1 ELSE 0
=============================================================================
