----------------------------- MODULE GraceBook ------------------------------
(***************************************************************************)
(* tides::grace: for a while after an address starts on the house stratum  *)
(* its work is charged the grace fee.  The book of clocks is kept in       *)
(* grace.json, written by the same flush as the window's rows; a book that *)
(* is lost is rebuilt from the rows.  Stored times move in steps of        *)
(* Coarse, and what can no longer change an answer is pruned.              *)
(*                                                                         *)
(* `run' is a history variable: the runs of house-stratum work an address  *)
(* has really done, as far as its rows survive.                            *)
(***************************************************************************)
EXTENDS Integers, FiniteSets, FiniteSetsExt, TLC

CONSTANTS Addr,
          Secs, DatumSecs, Rearm, Epoch,  \* GraceParams
          Lookback,     \* DATUM_LOOKBACK
          Coarse,       \* COARSE
          MaxTime,      \* bound: how long the clock runs (from 1)
          MaxStops      \* bound: how often the process stops

VARIABLES time,     \* now()
          clock,    \* address -> Episode, for the addresses that have one
          seenOn,   \* datum_seen: address -> time, likewise
          unsaved,  \* GraceBook::dirty
          tagged,   \* address -> its rows in the window, as far as seed reads them
          kept,     \* what the last flush wrote
          run, gstops

graceVars == <<time, clock, seenOn, unsaved, tagged, kept, run, gstops>>

NoRun == [first |-> 0, short |-> 0, last |-> 0, charged |-> "None", sighted |-> 0,
          rebuilt |-> FALSE, old |-> FALSE]

Nothing == [a \in {} |-> 0]

\* Times of an address's oldest and newest house-stratum rows, its newest one
\* at the full fee and its newest DATUM row; 0: none.
NoRows == [oldest |-> 0, newest |-> 0, full |-> 0, datum |-> 0]

GraceInit ==
  /\ time = 1 /\ clock = Nothing /\ seenOn = Nothing /\ unsaved = FALSE
  /\ tagged = [a \in Addr |-> NoRows] /\ run = [a \in Addr |-> NoRun] /\ gstops = 0
  /\ kept = [file |-> FALSE, clock |-> Nothing, seenOn |-> Nothing, rows |-> tagged, run |-> run]

-----------------------------------------------------------------------------
note_datum(a) ==
  IF a \in DOMAIN seenOn /\ time < seenOn[a] + Coarse THEN seenOn ELSE (a :> time) @@ seenOn

on_datum(a) == a \in DOMAIN seenOn /\ seenOn[a] <= time /\ seenOn[a] + Lookback >= time

note_stratum(a) ==
  IF a \notin DOMAIN clock \/ (Rearm > 0 /\ time >= clock[a].last + Rearm)
  THEN (a :> [start |-> time, last |-> time, datum |-> on_datum(a)]) @@ clock
  ELSE IF time >= clock[a].last + Coarse THEN [clock EXCEPT ![a].last = time] ELSE clock

until(c, a) == c[a].start + IF c[a].datum THEN Max({DatumSecs, Secs}) ELSE Secs

\* source_for: the tag a share gets now.
source_for(a, house) ==
  IF ~house THEN "Datum"
  ELSE IF time < until(note_stratum(a), a) THEN "StratumGrace" ELSE "Stratum"

\* The runs, by the real times: `first' after Rearm off the stratum, `short'
\* after as little as the stored times can take for it.
NewRun(r, gap) == r.first = 0 \/ (Rearm > 0 /\ time >= r.last + gap)

Worked(r, tag) ==
  IF tag = "Datum" THEN [r EXCEPT !.sighted = IF @ = 0 THEN time ELSE @]
  ELSE [r EXCEPT !.first = IF NewRun(r, Rearm) THEN time ELSE @,
                 !.short = IF NewRun(r, Rearm - Coarse + 1) THEN time ELSE @,
                 !.rebuilt = @ /\ ~NewRun(r, Rearm), !.old = @ /\ ~NewRun(r, Rearm),
                 !.last = time, !.charged = tag]

Row(w, tag) ==
  IF tag = "Datum" THEN [w EXCEPT !.datum = time]
  ELSE [w EXCEPT !.oldest = IF @ = 0 THEN time ELSE @, !.newest = time,
                 !.full = IF tag = "Stratum" THEN time ELSE @]

\* A share of a is credited.
Credit(a, house) ==
  LET tag == source_for(a, house)
  IN  /\ seenOn' = IF house THEN seenOn ELSE note_datum(a)
      /\ clock' = IF house THEN note_stratum(a) ELSE clock
      /\ unsaved' = (unsaved \/ clock' # clock \/ seenOn' # seenOn)
      /\ tagged' = [tagged EXCEPT ![a] = Row(@, tag)]
      /\ run' = [run EXCEPT ![a] = Worked(@, tag)]
      /\ UNCHANGED <<time, kept, gstops>>

\* The rows from before t leave the window; the oldest one left is of any time
\* from t on.
Since(w, t, first) ==
  [oldest |-> IF w.newest < t THEN 0 ELSE Max({first, w.oldest}),
   newest |-> IF w.newest < t THEN 0 ELSE w.newest,
   full   |-> IF w.full < t THEN 0 ELSE w.full,
   datum  |-> IF w.datum < t THEN 0 ELSE w.datum]

TrimRows(t) ==
  /\ \E first \in [Addr -> t .. MaxTime] :
       /\ \A a \in Addr : \A old \in {tagged[a].full, tagged[a].newest} : old >= t => first[a] <= old
       /\ tagged' = [a \in Addr |-> Since(tagged[a], t, first[a])]
  /\ tagged' # tagged
  /\ UNCHANGED <<time, clock, seenOn, unsaved, kept, run, gstops>>

ClockTicks ==
  /\ time < MaxTime /\ time' = time + 1
  /\ UNCHANGED <<clock, seenOn, unsaved, tagged, kept, run, gstops>>

\* Ledger::flush: the book if it is dirty, then the rows.
Flushed(c, d, dirty) ==
  [file |-> kept.file \/ dirty,
   clock |-> IF dirty THEN c ELSE kept.clock, seenOn |-> IF dirty THEN d ELSE kept.seenOn,
   rows |-> tagged, run |-> run]

FlushBook ==
  /\ kept # Flushed(clock, seenOn, unsaved)
  /\ kept' = Flushed(clock, seenOn, unsaved) /\ unsaved' = FALSE
  /\ UNCHANGED <<time, clock, seenOn, tagged, run, gstops>>

\* Mutation: by when the clock started, not when it was last seen to run.
Episodes_by_start == {a \in DOMAIN clock : Rearm = 0 \/ time < clock[a].start + Rearm}

\* prune: the episodes and the sightings that may still matter.
Episodes == {a \in DOMAIN clock : Rearm = 0 \/ time < clock[a].last + Rearm}

Sightings ==
  {a \in DOMAIN seenOn : a \in Episodes \/ time < seenOn[a] + Lookback + Max({DatumSecs, Secs}) + Rearm}

PruneAndPersist ==
  LET c == [a \in Episodes |-> clock[a]]
      d == [a \in Sightings |-> seenOn[a]]
  IN  /\ c # clock \/ d # seenOn
      /\ clock' = c /\ seenOn' = d
      /\ kept' = Flushed(c, d, TRUE) /\ unsaved' = FALSE
      /\ UNCHANGED <<time, tagged, run, gstops>>

-----------------------------------------------------------------------------
\* seed: the clocks the window's rows tell of.
seed(rows) ==
  [a \in {b \in Addr : rows[b].newest > 0} |->
     LET w    == rows[a]
         full == Epoch > 0 /\ w.full > 0
     IN  [start |-> IF full THEN Epoch ELSE w.oldest,
          last  |-> IF full THEN Max({w.newest, Epoch}) ELSE w.newest,
          datum |-> w.datum > 0]]

seed_seen(rows) == [a \in {b \in Addr : rows[b].datum > 0} |-> rows[a].datum]

\* A book rebuilt while a run goes on may have its clock wrong.
Rebuilt(r, w) ==
  IF r.first = 0 THEN r
  ELSE [r EXCEPT !.rebuilt = TRUE, !.old = @ \/ w.oldest \in 1 .. r.first - 1]

\* The process is killed and starts again with what was flushed; grace.json may
\* not parse (load_grace, seed_grace).
Reopen(parses) ==
  LET read == kept.file /\ parses
  IN  /\ gstops < MaxStops /\ gstops' = gstops + 1
      /\ tagged' = kept.rows
      /\ clock' = IF read THEN kept.clock ELSE seed(kept.rows)
      /\ seenOn' = IF read THEN kept.seenOn ELSE seed_seen(kept.rows)
      /\ unsaved' = ~read
      /\ run' = IF read THEN kept.run
                ELSE [a \in Addr |-> Rebuilt(kept.run[a], kept.rows[a])]
      /\ UNCHANGED <<time, kept>>

GraceNext ==
  \/ \E a \in Addr, house \in BOOLEAN : Credit(a, house)
  \/ \E t \in 2 .. MaxTime : TrimRows(t)
  \/ ClockTicks \/ FlushBook \/ PruneAndPersist
  \/ \E parses \in BOOLEAN : Reopen(parses)

GraceSpec == GraceInit /\ [][GraceNext]_graceVars

-----------------------------------------------------------------------------
(* The grace follows the real work, through coarse times, pruning, kills   *)
(* and lost files: nobody pays the full fee within Secs of really starting *)
(* (unless a lost book was rebuilt from rows of an earlier run), and nobody*)
(* has the grace longer than one run of work grants, the longer one only   *)
(* to an address that was on DATUM when it started (note_stratum, prune,   *)
(* seed).                                                                   *)
GraceMatchesRun ==
  \A a \in Addr :
    LET r == run[a]
    IN  /\ (r.charged = "Stratum" /\ ~r.old) => r.last - r.first >= Secs
        /\ (r.charged = "StratumGrace" /\ ~r.rebuilt) =>
             \/ r.last - r.short < Secs
             \/ r.last - r.short < DatumSecs /\ r.sighted \in 1 .. r.short
=============================================================================
