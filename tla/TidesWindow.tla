---------------------------- MODULE TidesWindow ----------------------------
(***************************************************************************)
(* tides::Window and the files Ledger keeps it in: the sliding window of   *)
(* credit rows (credits.bin), the identity table rows index into           *)
(* (identities.txt), and window.json with the target and who has carry.    *)
(*                                                                         *)
(* The two append-only files are written through buffers: a file is what   *)
(* was written to it (all), of which the first `os' entries have left the  *)
(* process and the first `safe' are fsynced.  A kill keeps the first os; a *)
(* power cut any number between safe and os.  A half-written entry at the  *)
(* end is cut off by Ledger::open, so files end at an entry.               *)
(* window.json is replaced atomically and fsynced (write_atomic).          *)
(***************************************************************************)
EXTENDS Integers, Sequences, SequencesExt

CONSTANTS Ident,      \* payout addresses
          Work,       \* work of one credit
          Target,     \* window targets the node's difficulty gives
          Slack,      \* rows the file may be ahead of the window (8192)
          MaxShares,  \* bound: credits
          MaxStops    \* bound: kills and power cuts

ASSUME WindowAssumption ==
  /\ Work \subseteq Nat /\ Target \subseteq Nat
  /\ Slack \in Nat /\ MaxShares \in Nat /\ MaxStops \in Nat

VARIABLES table,    \* identity table in memory
          rows,     \* the window, oldest first: [n, idx, owner, work]
          total,    \* total_work
          totals,   \* per identity [work, rows]
          target,   \* target_work
          carried,  \* identities with carry
          idents,   \* identities.txt: [all, os, safe]
          credits,  \* credits.bin: [all, os, safe]
          meta,     \* window.json: [target, carried]
          pc,       \* what a critical section has yet to do
          shares,   \* lifetime_shares
          stops     \* how often the process was killed, and the power cut

disk == <<idents, credits, meta>>
win == <<table, rows, total, totals, target, carried>>
vars == <<win, disk, pc, shares, stops>>

\* A row names its identity by index; `owner' is a history field.
Row == [n : Nat, idx : Nat, owner : Ident, work : Nat]

WorkOf(rs) == FoldLeft(LAMBDA s, r : s + r.work, 0, rs)
RowsOf(i, rs) == SelectSeq(rs, LAMBDA r : table[r.idx] = i)

Nothing == [i \in Ident |-> [work |-> 0, rows |-> 0]]
File(s) == [all |-> s, os |-> Len(s), safe |-> Len(s)]

Init ==
  /\ table = <<>> /\ rows = <<>> /\ total = 0 /\ totals = Nothing
  /\ target = 0 /\ carried = {}
  /\ idents = File(<<>>) /\ credits = File(<<>>)
  /\ meta = [target |-> 0, carried |-> {}]
  /\ pc = "idle" /\ shares = 0 /\ stops = [kills |-> 0, cuts |-> 0]

-----------------------------------------------------------------------------
\* Mutation: the row that reaches the target is dropped too.
Excess_past(rs, goal) ==
  IF goal = 0 THEN 0
  ELSE Cardinality({k \in 1 .. Len(rs) : WorkOf(SubSeq(rs, k, Len(rs))) >= goal})

\* How many of the oldest rows trim drops: while the rest holds the target.
Excess(rs, goal) ==
  IF goal = 0 THEN 0
  ELSE Cardinality({k \in 1 .. Len(rs) : WorkOf(SubSeq(rs, k + 1, Len(rs))) >= goal})

Kept(rs, goal) == SubSeq(rs, Excess(rs, goal) + 1, Len(rs))
Dropped(rs, goal) == SubSeq(rs, 1, Excess(rs, goal))

\* Mutation: a dropped row stays in its identity's total.
trimmed_total_kept(ts, gone) == ts

\* totals once the rows `gone' are taken out; an empty entry is removed.
trimmed(ts, gone) ==
  [i \in Ident |-> [work |-> ts[i].work - WorkOf(RowsOf(i, gone)),
                    rows |-> ts[i].rows - Len(RowsOf(i, gone))]]

added(ts, i, w) == [ts EXCEPT ![i] = [work |-> @.work + w, rows |-> @.rows + 1]]

IndexOf(t, i) == CHOOSE k \in DOMAIN t : t[k] = i

\* intern: known identities keep their index.
intern(t, i) == IF i \in ToSet(t) THEN t ELSE Append(t, i)

\* Mutation: an identity first met by its carry is not written to the file.
written_by_credit_only(f, i) == f

\* A new identity's line goes into the buffer.
written(f, i) == IF i \in ToSet(table) THEN f ELSE [f EXCEPT !.all = Append(@, i)]

\* Ledger::credit: one appended row, never merged with the last.
Credit(i, w) ==
  /\ pc = "idle" /\ shares < MaxShares
  /\ shares' = shares + 1
  /\ table' = intern(table, i)
  /\ idents' = IF i \in ToSet(table) THEN idents ELSE [idents EXCEPT !.all = Append(@, i)]
  /\ LET row == [n |-> shares', idx |-> IndexOf(table', i), owner |-> i, work |-> w]
         rs == Append(rows, row)
     IN  /\ rows' = Kept(rs, target)
         /\ total' = total + w - WorkOf(Dropped(rs, target))
         /\ totals' = trimmed(added(totals, i, w), Dropped(rs, target))
         /\ credits' = [credits EXCEPT !.all = Append(@, row)]
  /\ UNCHANGED <<target, carried, meta, pc, stops>>

\* book_credits and settle_carry: an identity gets its first carry.
GainCarry(i) ==
  /\ pc = "idle" /\ i \notin carried
  /\ carried' = carried \cup {i}
  /\ table' = intern(table, i)
  /\ idents' = written(idents, i)
  /\ UNCHANGED <<rows, total, totals, target, credits, meta, pc, shares, stops>>

\* A coinbase pays it out again.
SpendCarry(i) ==
  /\ pc = "idle" /\ i \in carried
  /\ carried' = carried \ {i}
  /\ UNCHANGED <<table, rows, total, totals, target, disk, pc, shares, stops>>

-----------------------------------------------------------------------------
\* A BufWriter that is full spills what it has, at any time.
SpillIdents ==
  /\ idents.os < Len(idents.all)
  /\ idents' = [idents EXCEPT !.os = Len(idents.all)]
  /\ UNCHANGED <<win, credits, meta, pc, shares, stops>>

SpillCredits ==
  /\ credits.os < Len(credits.all)
  /\ credits' = [credits EXCEPT !.os = Len(credits.all)]
  /\ UNCHANGED <<win, idents, meta, pc, shares, stops>>

\* write_atomic: a crash finds window.json as it was before or as it is now
\* (load_meta falls back on the copy kept beside it).
write_atomic(m) == meta' = m

\* flush: the identities, then the rows, then window.json.
flushed(f) == [f EXCEPT !.os = Len(f.all)]

Flush(next) ==
  /\ idents' = flushed(idents)
  /\ credits' = flushed(credits)
  /\ write_atomic([target |-> target, carried |-> carried])
  /\ pc' = next

\* housekeeping's flush, and the compaction it may end with.
TimerFlush ==
  /\ pc = "idle"
  /\ meta # [target |-> target, carried |-> carried]
       \/ idents.os < Len(idents.all) \/ credits.os < Len(credits.all)
  /\ Flush(IF Len(credits.all) > Len(rows) + Slack THEN "compact" ELSE "idle")
  /\ UNCHANGED <<win, shares, stops>>

\* Window::set_target: resize, and trim.
set_target(goal) ==
  /\ target' = goal
  /\ rows' = Kept(rows, goal)
  /\ total' = total - WorkOf(Dropped(rows, goal))
  /\ totals' = trimmed(totals, Dropped(rows, goal))

\* The node's difficulty moves the target: set_target, then persist_window.
SetTarget(goal) ==
  /\ pc = "idle" /\ goal # target
  /\ set_target(goal)
  /\ pc' = "flush"
  /\ UNCHANGED <<table, carried, disk, shares, stops>>

\* sync as part of persist_window: flush, then fsync the rows, the identities.
SyncFlush ==
  /\ pc = "flush"
  /\ Flush("fsync")
  /\ UNCHANGED <<win, shares, stops>>

\* Mutation: persist_window leaves the rows the window has dropped.
Fsync_keeps_file ==
  /\ pc = "fsync"
  /\ credits' = [credits EXCEPT !.safe = credits.os]
  /\ idents' = [idents EXCEPT !.safe = idents.os]
  /\ pc' = "idle"
  /\ UNCHANGED <<win, meta, shares, stops>>

Fsync ==
  /\ pc = "fsync"
  /\ credits' = [credits EXCEPT !.safe = credits.os]
  /\ idents' = [idents EXCEPT !.safe = idents.os]
  /\ pc' = IF Len(credits.all) # Len(rows) THEN "compact" ELSE "idle"
  /\ UNCHANGED <<win, meta, shares, stops>>

\* compact: credits.bin becomes the window, by an fsynced file and a rename.
Compact ==
  /\ pc = "compact"
  /\ credits' = File(rows)
  /\ pc' = "idle"
  /\ UNCHANGED <<win, idents, meta, shares, stops>>

-----------------------------------------------------------------------------
\* window.json as the next start reads it.
load_meta == meta

known(t, rs) == SelectSeq(rs, LAMBDA r : r.idx <= Len(t))

\* Ledger::open on the first ni lines and nr rows, of which si and sr have
\* reached the disk.  Identities that only window.json knows are interned after
\* the file's, in name order.
Opened(ni, nr, si, sr) ==
  LET lines == SubSeq(idents.all, 1, ni)
      extra == SetToSeq(load_meta.carried \ ToSet(lines))
      t     == lines \o extra
      mine  == known(t, SubSeq(credits.all, 1, nr))
      kept  == Kept(mine, load_meta.target)
  IN  /\ table' = t
      /\ idents' = [all |-> t, os |-> ni, safe |-> si]
      /\ rows' = kept
      /\ total' = WorkOf(kept)
      /\ totals' = [i \in Ident |->
           LET own == SelectSeq(kept, LAMBDA r : t[r.idx] = i)
           IN  [work |-> WorkOf(own), rows |-> Len(own)]]
      /\ target' = load_meta.target /\ carried' = load_meta.carried
      /\ credits' = IF Len(mine) < nr \/ nr > Len(kept) + Slack
                    THEN File(kept)
                    ELSE [all |-> SubSeq(credits.all, 1, nr), os |-> nr, safe |-> sr]
      /\ pc' = "idle"
      /\ UNCHANGED <<meta, shares>>

Kill ==
  /\ stops.kills + stops.cuts < MaxStops /\ stops' = [stops EXCEPT !.kills = @ + 1]
  /\ Opened(idents.os, credits.os, idents.safe, credits.safe)

PowerCut ==
  /\ stops.kills + stops.cuts < MaxStops /\ stops' = [stops EXCEPT !.cuts = @ + 1]
  /\ \E ni \in idents.safe .. idents.os, nr \in credits.safe .. credits.os :
       Opened(ni, nr, ni, nr)

Next ==
  \/ \E i \in Ident, w \in Work : Credit(i, w)
  \/ \E i \in Ident : GainCarry(i) \/ SpendCarry(i)
  \/ \E goal \in Target : SetTarget(goal)
  \/ SpillIdents \/ SpillCredits \/ TimerFlush \/ SyncFlush \/ Fsync \/ Compact
  \/ Kill \/ PowerCut

Spec == Init /\ [][Next]_vars

-----------------------------------------------------------------------------
(* Types; and of no file has more reached the disk than left the process,  *)
(* or more left the process than was written.                              *)
TypeOK ==
  /\ table \in Seq(Ident) /\ rows \in Seq(Row)
  /\ total \in Nat /\ totals \in [Ident -> [work : Nat, rows : Nat]]
  /\ target \in Target \cup {0} /\ carried \subseteq Ident
  /\ idents.safe <= idents.os /\ idents.os <= Len(idents.all)
  /\ credits.safe <= credits.os /\ credits.os <= Len(credits.all)
  /\ pc \in {"idle", "flush", "fsync", "compact"}

(* Work is never credited to somebody else: a row's index stands for the   *)
(* identity that did the work, wherever the process was killed.            *)
RowsKeepTheirOwner ==
  stops.cuts = 0 =>
    \A k \in DOMAIN rows :
      rows[k].idx \in DOMAIN table /\ table[rows[k].idx] = rows[k].owner

(* TypeOK; and the running totals are the sums over the rows of the        *)
(* window, whatever was trimmed, replayed or resized.                      *)
TotalsAreSums ==
  /\ TypeOK
  /\ total = WorkOf(rows)
  /\ \A i \in Ident : totals[i] = [work |-> WorkOf(RowsOf(i, rows)),
                                   rows |-> Len(RowsOf(i, rows))]

(* "disk rows 1:1 with window rows so a replay reproduces the window       *)
(* exactly" (Ledger::credit): once everything written has reached the file *)
(* and window.json has the target, opening the ledger gives this window,   *)
(* although the target has moved up and down since rows were trimmed.      *)
ReplayReproduces ==
  pc = "idle" /\ credits.os = Len(credits.all) /\ meta.target = target
    => Kept(credits.all, target) = rows

(* No row leaves the window early.  Trimming and resizing never take a     *)
(* window that holds the target below it ("Drop the oldest rows while the  *)
(* window still holds at least the target"); and a kill loses only rows    *)
(* that had not left the process, or whose identity had not: every other   *)
(* row of the window is in it at the next start.                           *)
NoRowLeavesEarly ==
  [][/\ stops' = stops /\ total >= target' => total' >= target'
     /\ stops' # stops /\ stops'.cuts = 0 =>
          \A k \in DOMAIN rows :
            (/\ rows[k] \in ToSet(SubSeq(credits.all, 1, credits.os))
             /\ rows[k].idx <= idents.os
             /\ meta.target = target)
               => rows[k] \in ToSet(rows')]_vars
=============================================================================
