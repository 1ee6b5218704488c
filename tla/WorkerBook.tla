----------------------------- MODULE WorkerBook -----------------------------
(***************************************************************************)
(* workers::WorkerBook: what one gateway session's shares said about the   *)
(* machines behind them.  An identity keeps MaxPerIdentity names and the   *)
(* session MaxPerSession; past a limit the name least recently seen makes  *)
(* room and what it had done goes into an overflow tally.  Each tally also *)
(* has the work of the last Buckets minutes.                               *)
(*                                                                         *)
(* `noted' is a history variable: the work noted in each minute.           *)
(***************************************************************************)
EXTENDS Integers, FiniteSets, FiniteSetsExt, TLC

CONSTANTS Payee, Name, Work,
          MaxPerIdentity, MaxPerSession, Buckets,
          MaxNotes, MaxMinute   \* bounds: shares noted, minutes that pass

VARIABLES identities,  \* identity -> [workers : name -> Worker, overflow], for those held
          names,       \* names held
          seen,        \* shares noted
          rest,        \* overflow of identities no longer held
          minute, noted

workerVars == <<identities, names, seen, rest, minute, noted>>

Empty == [x \in {} |-> 0]
NoRecent == [minute |-> 0, work |-> [i \in 1 .. Buckets |-> 0]]
NoTally == [work |-> 0, shares |-> 0, recent |-> NoRecent]
NoOverflow == [names |-> 0, tally |-> NoTally]

WorkerInit ==
  /\ identities = Empty /\ names = 0 /\ seen = 0 /\ rest = NoOverflow
  /\ minute = 0 /\ noted = [m \in 0 .. MaxMinute |-> 0]

-----------------------------------------------------------------------------
\* The buckets of r with the newest moved up to minute m; never back.
Gap(r, m) == IF m > r.minute THEN m - r.minute ELSE 0

Shifted(r, gap) == [i \in 1 .. Buckets |-> IF i + gap <= Buckets THEN r.work[i + gap] ELSE 0]

advance(r, m) == [minute |-> r.minute + Gap(r, m), work |-> Shifted(r, Gap(r, m))]

add_recent(r, work, m) == LET a == advance(r, m) IN [a EXCEPT !.work[Buckets] = @ + work]

merge(r, o) ==
  LET a == advance(r, o.minute)
  IN  [a EXCEPT !.work = [i \in 1 .. Buckets |-> a.work[i] + Shifted(o, a.minute - o.minute)[i]]]

work_at(r, m) == MapThenSumSet(LAMBDA i : Shifted(r, Gap(r, m))[i], 1 .. Buckets)

add(t, work, m) ==
  [work |-> t.work + work, shares |-> t.shares + 1, recent |-> add_recent(t.recent, work, m)]

absorb(t, o) ==
  IF o.shares = 0 THEN t
  ELSE [work |-> t.work + o.work, shares |-> t.shares + o.shares, recent |-> merge(t.recent, o.recent)]

take(v, w) == [names |-> v.names + 1, tally |-> absorb(v.tally, w.tally)]

absorb_overflow(v, o) == [names |-> v.names + o.names, tally |-> absorb(v.tally, o.tally)]

-----------------------------------------------------------------------------
Without(f, x) == [y \in DOMAIN f \ {x} |-> f[y]]

\* The name least recently seen, of the identities in S.
Oldest(S) ==
  LET all == UNION {{[id |-> i, name |-> n] : n \in DOMAIN identities[i].workers} : i \in S}
  IN  CHOOSE e \in all : \A o \in all :
        identities[e.id].workers[e.name].seen <= identities[o.id].workers[o.name].seen

\* Mutation: an identity left without a name goes with its overflow.
evict_and_forget(S) ==
  LET e == Oldest(S)
      k == identities[e.id]
      left == [workers |-> Without(k.workers, e.name), overflow |-> take(k.overflow, k.workers[e.name])]
  IN  IF left.workers = Empty THEN [ids |-> Without(identities, e.id), rest |-> rest]
      ELSE [ids |-> [identities EXCEPT ![e.id] = left], rest |-> rest]

\* evict: that name goes into its identity's overflow; an identity left with
\* none goes too, its overflow into rest.
evict(S) ==
  LET e == Oldest(S)
      k == identities[e.id]
      left == [workers |-> Without(k.workers, e.name), overflow |-> take(k.overflow, k.workers[e.name])]
  IN  IF left.workers = Empty
      THEN [ids |-> Without(identities, e.id), rest |-> absorb_overflow(rest, left.overflow)]
      ELSE [ids |-> [identities EXCEPT ![e.id] = left], rest |-> rest]

Named(ids, id) == IF id \in DOMAIN ids THEN ids[id] ELSE [workers |-> Empty, overflow |-> NoOverflow]

\* The book with room for one more name of id.
Roomy(id) ==
  IF Cardinality(DOMAIN Named(identities, id).workers) >= MaxPerIdentity THEN evict({id})
  ELSE IF names >= MaxPerSession THEN evict(DOMAIN identities)
  ELSE [ids |-> identities, rest |-> rest]

Insert(ids, id, name, w) ==
  (id :> [Named(ids, id) EXCEPT !.workers = (name :> w) @@ @]) @@ ids

\* One credited share of `work'.
Note(id, name, work) ==
  LET held == name \in DOMAIN Named(identities, id).workers
      room == IF held THEN [ids |-> identities, rest |-> rest] ELSE Roomy(id)
      old  == IF held THEN identities[id].workers[name].tally ELSE NoTally
  IN  /\ seen < MaxNotes /\ seen' = seen + 1
      /\ identities' = Insert(room.ids, id, name, [tally |-> add(old, work, minute), seen |-> seen + 1])
      /\ rest' = room.rest
      /\ names' = IF held \/ room.ids # identities THEN names ELSE names + 1
      /\ noted' = [noted EXCEPT ![minute] = @ + work]
      /\ UNCHANGED minute

MinutePasses ==
  /\ minute < MaxMinute /\ minute' = minute + 1
  /\ UNCHANGED <<identities, names, seen, rest, noted>>

WorkerNext ==
  \/ \E id \in Payee, name \in Name, work \in Work : Note(id, name, work)
  \/ MinutePasses

WorkerSpec == WorkerInit /\ [][WorkerNext]_workerVars

-----------------------------------------------------------------------------
\* What the rows of the stats document add up to, by a figure of a tally.
OverAll(F(_)) ==
  F(rest.tally) + MapThenSumSet(LAMBDA id :
      F(identities[id].overflow.tally)
        + MapThenSumSet(LAMBDA n : F(identities[id].workers[n].tally), DOMAIN identities[id].workers),
    DOMAIN identities)

(* However names come, go and come back, the tallies of a session add up   *)
(* to the work its shares were noted with, and their recent work to that   *)
(* of the last Buckets minutes; the book holds no more than its limits and *)
(* no identity without a name (note, evict, Recent::merge).                *)
TalliesAddUp ==
  /\ OverAll(LAMBDA t : t.work) = MapThenSumSet(LAMBDA m : noted[m], 0 .. MaxMinute)
  /\ OverAll(LAMBDA t : work_at(t.recent, minute)) =
       MapThenSumSet(LAMBDA m : noted[m], {m \in 0 .. MaxMinute : m <= minute /\ minute - m < Buckets})
  /\ OverAll(LAMBDA t : t.shares) = seen
  /\ names = MapThenSumSet(LAMBDA id : Cardinality(DOMAIN identities[id].workers), DOMAIN identities)
  /\ names <= MaxPerSession
  /\ \A id \in DOMAIN identities : Cardinality(DOMAIN identities[id].workers) \in 1 .. MaxPerIdentity
=============================================================================
