------------------------------ MODULE JobSlot -------------------------------
(***************************************************************************)
(* verify::JobSlot and verify: how Prime rebuilds the header a share was   *)
(* ground on from what the gateway sent for the slot, with a cache that    *)
(* stands in for the header's hash, and what work it credits.              *)
(*                                                                         *)
(* A coinbase section is of a class: "plain", whose difficulty byte is     *)
(* hashed, "whole", which has none, and "bad", which does not parse, has   *)
(* another height or pays somebody else.  A header is a record of what it  *)
(* commits to, and stands for its hash H2; a share says which header it    *)
(* was really ground on and how hard its hash is.  The hash of any other   *)
(* header meets no target (the 2^-32 chance is left out).                  *)
(***************************************************************************)
EXTENDS Integers, FiniteSets

CONSTANTS SlotJob,      \* job sections
          CbId,         \* coinbase ids
          Class,        \* the classes of section that occur
          Pot,          \* difficulties a share may claim
          Stamp,        \* the version and time fields of a share
          MinPot, UncommittedPot, Trusted,   \* Policy
          MaxSections,  \* MAX_COINBASES_PER_SLOT
          MaxH2, MaxCb, \* MAX_H2_CACHE, MAX_CB_CACHE
          MaxPow        \* bound: shares

ASSUME SlotAssumption == {MaxH2, MaxCb} \subseteq Nat \ {0} /\ Trusted \in BOOLEAN

VARIABLES slot,     \* the JobSlot: [job, coinbases, h2, cb, includes]; includes: the
                    \* readings of the transaction count still tried
          verdict,  \* the last share that verified
          paid,     \* history: the hashes credited, and with what
          pows

slotVars == <<slot, verdict, paid, pows>>

NoMap == [k \in {} |-> 0]
NoVerdict == [hashed |-> NoMap, commitment |-> NoMap, parsed |-> "none", class |-> "none"]
Unset == [job |-> "none", coinbases |-> NoMap, h2 |-> NoMap, cb |-> NoMap, includes |-> BOOLEAN]

SlotInit == slot = Unset /\ verdict = NoVerdict /\ paid = {} /\ pows = 0

Put(f, k, v) == [x \in DOMAIN f \cup {k} |-> IF x = k THEN v ELSE f[x]]

Keep(f, S) == [k \in DOMAIN f \cap S |-> f[k]]

\* forget_coinbase, and absorb's own clearing: what was derived from id goes.
Cleared(t, id) ==
  [t EXCEPT !.h2 = Keep(@, {k \in DOMAIN @ : k.id # id}), !.cb = Keep(@, {k \in DOMAIN @ : k.id # id})]

forget_coinbase(t, id) == Cleared([t EXCEPT !.coinbases = Keep(@, DOMAIN @ \ {id})], id)

evict_sections(t) == [t EXCEPT !.coinbases = NoMap, !.h2 = NoMap, !.cb = NoMap]

\* Mutation: a section replaced under its id leaves the caches.
absorb_section_keeping(t, id, class) ==
  IF id \in DOMAIN t.coinbases /\ t.coinbases[id] = class THEN [slot |-> t, ok |-> TRUE]
  ELSE IF id \notin DOMAIN t.coinbases /\ Cardinality(DOMAIN t.coinbases) >= MaxSections
  THEN [slot |-> t, ok |-> FALSE]
  ELSE [slot |-> [t EXCEPT !.coinbases = Put(@, id, class)], ok |-> TRUE]

\* absorb: the coinbase section of a share.
absorb_section(t, id, class) ==
  IF id \in DOMAIN t.coinbases /\ t.coinbases[id] = class THEN [slot |-> t, ok |-> TRUE]
  ELSE IF id \notin DOMAIN t.coinbases /\ Cardinality(DOMAIN t.coinbases) >= MaxSections
  THEN [slot |-> t, ok |-> FALSE]
  ELSE [slot |-> Cleared([t EXCEPT !.coinbases = Put(@, id, class)], id), ok |-> TRUE]

\* absorb: a job section that is another job starts the slot afresh.
absorb_job(t, job) ==
  IF job = "none" \/ job = t.job THEN t ELSE [Unset EXCEPT !.job = job]

absorb_pow(t, s) ==
  LET j == absorb_job(t, s.job)
  IN  IF s.section = "none" THEN [slot |-> j, ok |-> TRUE] ELSE absorb_section(j, s.id, s.section)

-----------------------------------------------------------------------------
\* coinbase::commits_target and is_whole.
commits_target(class) == class = "plain"

\* The header of a job's share; its transaction count is the job's own or one more.
Header(job, class, pot, stamp, includes) ==
  [job |-> job, class |-> class, pot |-> IF commits_target(class) THEN pot ELSE 0,
   stamp |-> stamp, includes |-> includes]

HKey(s, includes) == [id |-> s.id, pot |-> s.pot, stamp |-> s.stamp, includes |-> includes]

\* The hash the loop tries for one reading of the transaction count.
H2(t, s, includes) ==
  IF HKey(s, includes) \in DOMAIN t.h2 THEN t.h2[HKey(s, includes)]
  ELSE Header(t.job, t.coinbases[s.id], s.pot, s.stamp, includes)

meets_target(h, s, pot) == h = s.ground /\ s.level >= pot

\* The readings under which the share's hash meets its claim.
Readings(t, s) == {c \in t.includes : meets_target(H2(t, s, c), s, s.pot)}

\* Mutation: the claim is taken wherever it clears the floor.
work_claimed(class, s) ==
  IF s.pot >= MinPot THEN 2 ^ s.pot
  ELSE LET pot == IF UncommittedPot > MinPot THEN UncommittedPot ELSE MinPot
       IN  IF s.level >= pot THEN 2 ^ pot ELSE 0

\* VerifiedShare::work: the claim if it was hashed and clears the floor, else by
\* the hash alone.
work(class, s) ==
  IF (commits_target(class) \/ (Trusted /\ class = "whole")) /\ s.pot >= MinPot THEN 2 ^ s.pot
  ELSE LET pot == IF UncommittedPot > MinPot THEN UncommittedPot ELSE MinPot
       IN  IF s.level >= pot THEN 2 ^ pot ELSE 0

Bounded(f, k, v, limit) == Put(IF Cardinality(DOMAIN f) >= limit THEN NoMap ELSE f, k, v)

\* A share is absorbed and verified; `over': its section is over the session's budget.
Pow(s, over) ==
  LET a == absorb_pow(slot, s)
      t == a.slot
      ckey == [id |-> s.id, pot |-> s.pot]
      class == IF ckey \in DOMAIN t.cb THEN t.cb[ckey] ELSE t.coinbases[s.id]
      c == CHOOSE r \in Readings(t, s) : TRUE
  IN  /\ pows < MaxPow /\ pows' = pows + 1
      /\ IF ~a.ok THEN slot' = t /\ UNCHANGED <<verdict, paid>>
         ELSE IF over /\ s.section # "none"
         THEN slot' = forget_coinbase(t, s.id) /\ UNCHANGED <<verdict, paid>>
         ELSE IF \/ t.job = "none" \/ s.id \notin DOMAIN t.coinbases \/ class = "bad"
                 \/ Readings(t, s) = {}
         THEN slot' = t /\ UNCHANGED <<verdict, paid>>
         ELSE /\ slot' = [t EXCEPT !.h2 = Bounded(@, HKey(s, c), H2(t, s, c), MaxH2),
                                   !.includes = {c},
                                   !.cb = IF ckey \in DOMAIN @ THEN @ ELSE Bounded(@, ckey, class, MaxCb)]
              /\ verdict' = [hashed |-> H2(t, s, c), parsed |-> class, class |-> t.coinbases[s.id],
                             commitment |-> Header(t.job, t.coinbases[s.id], s.pot, s.stamp, c)]
              /\ paid' = paid \cup {[hash |-> <<s.ground, s.level>>, work |-> work(class, s)]}

\* touch_slot: other slots were started since.
EvictSections ==
  /\ slot # evict_sections(slot) /\ slot' = evict_sections(slot)
  /\ UNCHANGED <<verdict, paid, pows>>

\* The shares a gateway may send: ground on any job and section it has had.
Submits ==
  [job : SlotJob \cup {"none"}, section : Class \cup {"none"}, id : CbId, pot : Pot, stamp : Stamp,
   level : Pot, ground : {Header(j, x, p, t, c) : j \in SlotJob, x \in Class \ {"bad"}, p \in Pot, t \in Stamp, c \in BOOLEAN}]

SlotNext ==
  \/ \E s \in Submits, over \in BOOLEAN : Pow(s, over)
  \/ EvictSections

SlotSpec == SlotInit /\ [][SlotNext]_slotVars

-----------------------------------------------------------------------------
(* What is credited, checked against the split and assembled into a block  *)
(* is the header and the coinbase that were hashed, whatever sections came *)
(* and went and whatever the caches hold; the caches keep their limits     *)
(* (h2_cache, cb_cache, absorb).                                           *)
HeaderIsHashed ==
  /\ verdict.commitment = verdict.hashed /\ verdict.parsed = verdict.class
  /\ Cardinality(DOMAIN slot.h2) <= MaxH2 /\ Cardinality(DOMAIN slot.cb) <= MaxCb

(* From a gateway that is not trusted with it, the same hash earns the same*)
(* work whatever difficulty is claimed for it (VerifiedShare::work).       *)
HashFixesCredit ==
  Trusted \/ \A p, q \in paid : p.hash = q.hash => p.work = q.work
=============================================================================
