---------------------------- MODULE ShareIntake ----------------------------
(***************************************************************************)
(* Session::on_pow from the job's check against the node's chain to the    *)
(* credit: shares of several sessions against one published tip and one    *)
(* set of share hashes, while the poller publishes tips and housekeeping   *)
(* prunes the set.  A share waits on the node in two places, and the tip   *)
(* it was checked against may be old when it goes on.  The node's verdict  *)
(* on a parent that is not on its chain is any here; ParentBook has it.    *)
(*                                                                         *)
(* A block is its height and a branch; the chain may run through the       *)
(* branch Ours or through Strangers.  A compact target is a number, larger *)
(* is easier.                                                              *)
(***************************************************************************)
EXTENDS Integers, FiniteSets

CONSTANTS Session,
          Share,          \* records: height, prev, bits, earns, block
          BitsAt,         \* height -> the target the chain sets there
          Retarget,       \* heights that are multiples of 2016
          Branch, Ours,   \* branches of the chain, one of them
          Stranger,       \* blocks of the others
          MaxPerHeight, MaxTotal,  \* SeenShares' caps
          MaxTip,         \* bound: height of the chain
          Lag             \* bound: how far the tip falls back, and how far it
                          \* moves on while a share waits on the node

Block == [height : Nat, branch : Branch]

ASSUME IntakeAssumption ==
  /\ {MaxPerHeight, MaxTotal, MaxTip} \subseteq Nat
  /\ Lag \in 0..2
  /\ Ours \in Branch /\ Stranger \subseteq Block
  /\ Share # {}
  /\ Share \subseteq [height : Nat, prev : Block, bits : Nat, block : BOOLEAN,
                      earns : {"window", "solo", "nothing"}]

\* The chain's own rule: a retarget makes the target at most four times easier.
ASSUME TargetAssumption ==
  /\ BitsAt \in [1 .. MaxTip + 1 -> Nat]
  /\ \A h \in 1 .. MaxTip : BitsAt[h + 1] <= 4 * BitsAt[h]

VARIABLES top,      \* the greatest height published
          tip,      \* Shared.tip: NoTip or what was published
          seen,     \* SeenShares: the shares in it (each has one height)
          session,  \* where each session is with its share
          credits, booked  \* share -> times credited, times booked a block

vars == <<top, tip, seen, session, credits, booked>>

OurBlock(h) == [height |-> h, branch |-> Ours]
Parent(p) == LET q == [p EXCEPT !.height = @ - 1]
             IN IF q \in Stranger THEN q ELSE OurBlock(q.height)
NoTip == [height |-> 0, hash |-> OurBlock(0), parent |-> OurBlock(0),
          header |-> FALSE, next |-> FALSE, fresh |-> FALSE]

\* A session's share and what it was checked with: whether there was a tip, its
\* height, whether its header was known.  Without a tip its own height stands.
Job(at, sh, t) ==
  [at |-> at, share |-> sh, held |-> t # NoTip, header |-> t.header,
   base |-> IF t = NoTip THEN sh.height ELSE t.height]
Idle == Job("idle", CHOOSE sh \in Share : TRUE, NoTip)

Init ==
  /\ top = 0
  /\ tip = NoTip
  /\ seen = {}
  /\ session = [s \in Session |-> Idle]
  /\ credits = [sh \in Share |-> 0] /\ booked = [sh \in Share |-> 0]

-----------------------------------------------------------------------------
(* The node, and the poller that publishes its tip.                        *)

\* Blocks the node's main chain may have at height h.
MainBlocks(h) == {OurBlock(h)} \cup {p \in Stranger : p.height = h}

\* Shares that were taken and not yet looked up in the set.
Waiting == {s \in Session : session[s].at = "taken"}

\* refresh_locked: the node's tip, any number of blocks on from the last or on
\* another branch.  The header and the next target are each asked for until
\* they are known; either answer may be missing.
Publish ==
  \E h \in 1..MaxTip, header, next \in BOOLEAN :
    \E hash \in MainBlocks(h) :
      LET same == hash = tip.hash
          hd == (same /\ tip.header) \/ header
      IN /\ h >= top - Lag /\ \A s \in Waiting : h <= session[s].base + Lag
         /\ tip' = [height |-> h, hash |-> hash, header |-> hd,
                    parent |-> Parent(hash),
                    next |-> (same /\ tip.next) \/ next \/ (hd /\ h + 1 \notin Retarget),
                    fresh |-> same => tip.fresh]
         /\ top' = IF h > top THEN h ELSE top

Refresh ==
  /\ Publish
  /\ UNCHANGED <<seen, session, credits, booked>>

\* stale_grace_secs have passed since the tip was first seen.
GraceEnds ==
  /\ tip # NoTip /\ tip.fresh
  /\ tip' = [tip EXCEPT !.fresh = FALSE]
  /\ UNCHANGED <<top, seen, session, credits, booked>>

-----------------------------------------------------------------------------
(* Tip::check_job: what the published tip says of a share's job.           *)

easier_than_4x(bits, tipBits) == bits > 4 * tipBits

\* Mutation: without the node's figure any target is taken.
check_job_unbounded(t, sh) ==
  CASE sh.height > t.height + 2 -> "Ahead"
    [] sh.height < t.height \/ (sh.height = t.height /\ ~t.fresh) -> "Stale"
    [] OTHER -> IF sh.prev = t.hash THEN "Current" ELSE "OtherBranch"

check_job(t, sh) ==
  LET expected == t.height + 1
      near == sh.height \in expected..(expected + 1)
      previous == sh.height = t.height /\ t.fresh
      ours == \/ sh.height = expected /\ sh.prev = t.hash
              \/ previous /\ t.header /\ sh.prev = t.parent
      told == IF near THEN t.next ELSE t.header
      exact == told /\ sh.bits = BitsAt[IF near THEN expected ELSE t.height]
      possible == t.header => ~easier_than_4x(sh.bits, BitsAt[t.height])
      open == ~told \/ (~ours /\ sh.height \in Retarget)
  IN IF sh.height > expected + 1 THEN "Ahead"
     ELSE IF ~near /\ ~previous THEN "Stale"
     ELSE IF ~(exact \/ (open /\ possible)) THEN "WrongBits"
     ELSE IF ours THEN "Current"
     ELSE IF sh.height = expected + 1 THEN "AheadByOne" ELSE "OtherBranch"

-----------------------------------------------------------------------------
(* SeenShares.                                                             *)

AtHeight(h) == {sh \in seen : sh.height = h}

Full(sh) == \/ Cardinality(AtHeight(sh.height)) >= MaxPerHeight
            \/ Cardinality(seen) >= MaxTotal

\* Mutation: the boundary height is forgotten too.
prune_below_inclusive(h) == {sh \in seen : sh.height > h}

prune_below(h) == {sh \in seen : sh.height >= h}

Housekeeping ==
  /\ tip # NoTip
  /\ seen' = prune_below(tip.height - 2)
  /\ UNCHANGED <<top, tip, session, credits, booked>>

\* A share that earned nothing and is no block is kept out of the set.
Counted(sh) == sh.earns # "nothing" \/ sh.block

\* What becomes of a share that is taken: the session it leaves and the set.
Refused == {[next |-> Idle, seen |-> seen]}

\* The parent's verdict if the share is off the node's chain, verify::verify,
\* then the duplicate check.
Verified(j) ==
  Refused \cup
  (IF ~Counted(j.share) THEN {[next |-> [j EXCEPT !.at = "credit"], seen |-> seen]}
   ELSE IF j.share \in seen \/ Full(j.share) THEN {}
   ELSE {[next |-> [j EXCEPT !.at = "credit"], seen |-> seen \cup {j.share}]})

-----------------------------------------------------------------------------
(* on_pow.                                                                 *)

\* Where a share is that was checked against tip t.
Decided(sh, t) ==
  IF check_job(t, sh) \in {"Current", "OtherBranch", "AheadByOne"}
    THEN Job("taken", sh, t) ELSE Idle

\* The share arrives.  Work ahead of the tip has the session refresh the tip,
\* now and then; without a tip there is nothing to hold it to.
Submit(s, sh) ==
  /\ session[s].at = "idle"
  /\ \/ tip = NoTip /\ session' = [session EXCEPT ![s] = Job("taken", sh, NoTip)]
     \/ tip # NoTip /\ session' = [session EXCEPT ![s] = Decided(sh, tip)]
     \/ /\ tip # NoTip /\ check_job(tip, sh) \in {"Ahead", "AheadByOne"}
        /\ session' = [session EXCEPT ![s] = Job("refresh", sh, tip)]
  /\ UNCHANGED <<top, tip, seen, credits, booked>>

\* refresh_ahead: it publishes, or gives up (someone just did, or the node is
\* slow); the share is checked again with the tip there is.
RefreshAhead(s) ==
  /\ session[s].at = "refresh"
  /\ Publish \/ UNCHANGED <<tip, top>>
  /\ session' = [session EXCEPT ![s] = Decided(session[s].share, tip')]
  /\ UNCHANGED <<seen, credits, booked>>

\* The rest of the checks, some time after.
Verify(s) ==
  /\ session[s].at = "taken"
  /\ \E o \in Verified(session[s]) :
       seen' = o.seen /\ session' = [session EXCEPT ![s] = o.next]
  /\ UNCHANGED <<top, tip, credits, booked>>

Adds(f, sh, yes) == [f EXCEPT ![sh] = @ + IF yes THEN 1 ELSE 0]

\* The fault check, the credit, and the block.  A gateway with a fault at this
\* moment earns nothing, but a block of its is booked; a miner the identity
\* table has no row for is refused, block or not.
Credit(s) ==
  LET j == session[s]
      sh == j.share
  IN /\ j.at = "credit"
     /\ session' = [session EXCEPT ![s] = Idle]
     /\ \/ \E faulted \in BOOLEAN :
             /\ credits' = Adds(credits, sh, sh.earns = "window" /\ ~faulted)
             /\ booked' = Adds(booked, sh, sh.block /\ j.held)
        \/ sh.earns = "window" /\ UNCHANGED <<credits, booked>>
     /\ UNCHANGED <<top, tip, seen>>

Next ==
  \/ Refresh \/ GraceEnds \/ Housekeeping
  \/ \E s \in Session : \/ \E sh \in Share : Submit(s, sh)
                        \/ RefreshAhead(s) \/ Verify(s) \/ Credit(s)

Spec == Init /\ [][Next]_vars

-----------------------------------------------------------------------------
\* The tip, the jobs, the set and the counts are what the code keeps.
TypeOK ==
  /\ top \in Nat
  /\ tip \in [height : Nat, hash : Block, parent : Block,
              header : BOOLEAN, next : BOOLEAN, fresh : BOOLEAN]
  /\ session \in [Session -> [at : {"idle", "refresh", "taken", "credit"}, share : Share,
                              held : BOOLEAN, base : Nat, header : BOOLEAN]]
  /\ seen \subseteq Share
  /\ credits \in [Share -> Nat] /\ booked \in [Share -> Nat]

\* One credit and one booking per hash, pool-wide: pruning, branch changes and
\* waits on the node never let a share in twice (SeenShares, on_pow).
CreditedOnce == \A sh \in Share : credits[sh] <= 1 /\ booked[sh] <= 1

\* A share that was let in is still in the set, or its height is below every
\* height a share can still come from; each share is let in once.
Passed(sh) == \/ credits[sh] > 0 \/ booked[sh] > 0
              \/ \E s \in Session : session[s].at = "credit" /\ session[s].share = sh

OnceInv ==
  /\ tip.height <= top /\ top <= tip.height + Lag
  /\ \A s \in Session : session[s].at = "taken" =>
       session[s].base <= session[s].share.height /\ top <= session[s].base + Lag
  /\ \A sh \in Share : IF Counted(sh) THEN Passed(sh) => sh \in seen \/ sh.height < top - 2
                        ELSE credits[sh] = 0 /\ booked[sh] = 0
  /\ \A s \in Session : (session[s].at = "credit" /\ Counted(session[s].share)) =>
       /\ credits[session[s].share] = 0 /\ booked[session[s].share] = 0
       /\ \A r \in Session \ {s} : session[r].at = "credit" => session[r].share # session[s].share
  /\ CreditedOnce

\* A block is booked only under a target the chain can have set, except where
\* the node had not given the tip's header (Tip::check_job, on_pow).
BookedUnderPossibleTarget ==
  [][\A sh \in Share : booked'[sh] > booked[sh] =>
       \E s \in Session : /\ session[s].at = "credit" /\ session[s].share = sh /\ session[s].held
                          /\ \/ ~session[s].header
                             \/ ~easier_than_4x(sh.bits, BitsAt[session[s].base])]_vars
=============================================================================
