---------------------------- MODULE ShareProofs -----------------------------
(***************************************************************************)
(* What a share is credited with, for any value of the constants: once     *)
(* and, as a block, under a target the chain can have set (ShareIntake),   *)
(* and as the header that was hashed (JobSlot).                            *)
(***************************************************************************)
EXTENDS ShareIntake, JobSlot, FiniteSetTheorems, TLAPS

IInv == TypeOK /\ OnceInv

JobType == [at : {"idle", "refresh", "taken", "credit"}, share : Share,
            held : BOOLEAN, base : Nat, header : BOOLEAN]
TipType == [height : Nat, hash : Block, parent : Block,
            header : BOOLEAN, next : BOOLEAN, fresh : BOOLEAN]

(* A share that check_job takes is no lower than the tip (Tip::check_job). *)
LEMMA TakenIsRecent ==
  ASSUME NEW t \in TipType, NEW sh \in Share,
         check_job(t, sh) \in {"Current", "OtherBranch", "AheadByOne"}
  PROVE  t.height <= sh.height
<1>1. sh.height \in Nat /\ t.height \in Nat
  BY IntakeAssumption DEF TipType
<1>2. CASE sh.height < t.height
  <2>1. check_job(t, sh) = "Stale"
    BY <1>1, <1>2 DEF check_job
  <2>2. QED
    BY <2>1
<1>3. QED
  BY <1>1, <1>2

(* NoTip, an idle session and a job made from a tip are well formed.       *)
LEMMA JobsTyped ==
  /\ NoTip \in TipType
  /\ \A sh \in Share, t \in TipType, a \in {"idle", "refresh", "taken", "credit"} :
       Job(a, sh, t) \in JobType
  /\ Idle \in JobType /\ Idle.at = "idle"
<1>1. NoTip \in TipType
  BY IntakeAssumption DEF NoTip, TipType, OurBlock, Block
<1>2. \A sh \in Share, t \in TipType, a \in {"idle", "refresh", "taken", "credit"} :
       Job(a, sh, t) \in JobType
  BY IntakeAssumption DEF Job, JobType, TipType
<1>3. (CHOOSE sh \in Share : TRUE) \in Share
  BY IntakeAssumption
<1>4. QED
  BY Zenon, <1>1, <1>2, <1>3 DEF Idle, Job

(* What a session that moves does to the rest: it stops, waits on the node *)
(* with a recent share, or lets a share in that the set did not have.      *)
Moves(s, next) ==
  /\ session' = [session EXCEPT ![s] = next]
  /\ next \in JobType
  /\ \/ next.at \in {"idle", "refresh"} /\ seen' = seen
     \/ /\ next.at = "taken" /\ seen' = seen
        /\ next.base <= next.share.height /\ top' <= next.base + Lag
     \/ next.at = "credit" /\ ~Counted(next.share) /\ seen' = seen
     \/ /\ next.at = "credit" /\ Counted(next.share) /\ next.share \notin seen
        /\ seen' = seen \cup {next.share} /\ top' <= next.share.height + Lag

(* The published tip stays within Lag of the greatest, and of the tips of  *)
(* the shares that wait (refresh_locked and the bound on it).              *)
TipMoves ==
  /\ tip' \in TipType /\ top' \in Nat /\ top <= top'
  /\ tip'.height <= top' /\ top' <= tip'.height + Lag
  /\ \A r \in Session : session[r].at = "taken" => top' <= session[r].base + Lag

(* Such a move keeps the invariant.                                        *)
LEMMA MoveKeeps ==
  ASSUME IInv, TipMoves, NEW s \in Session, NEW next, Moves(s, next),
         session[s].at # "credit", UNCHANGED <<credits, booked>>
  PROVE  IInv'
<1>0. /\ session \in [Session -> JobType] /\ session'[s] = next
      /\ \A r \in Session \ {s} : session'[r] = session[r]
      /\ Lag \in 0..2 /\ \A sh \in Share : sh.height \in Nat
  BY IntakeAssumption DEF IInv, TypeOK, JobType, Moves
<1>1. TypeOK'
  BY <1>0 DEF IInv, TypeOK, JobType, TipType, Moves, TipMoves
<1>2. ASSUME NEW sh \in Share, Counted(sh), Passed(sh)'
      PROVE  sh \in seen' \/ sh.height < top' - 2
  <2>1. CASE Passed(sh)
    BY <1>0, <1>2, <2>1 DEF IInv, OnceInv, Moves, TipMoves, TypeOK
  <2>2. CASE ~Passed(sh)
    <3>1. next.at = "credit" /\ next.share = sh
      BY <1>0, <1>2, <2>2 DEF Passed
    <3>2. QED
      BY <3>1, <1>2 DEF Moves
  <2>3. QED
    BY <2>1, <2>2
<1>3. ASSUME next.at = "credit", Counted(next.share)
      PROVE  ~Passed(next.share)
  BY <1>0, <1>3 DEF IInv, OnceInv, Moves, TipMoves, JobType, TypeOK
<1>4. ASSUME NEW r \in Session, session'[r].at = "credit", Counted(session'[r].share)
      PROVE  /\ credits'[session'[r].share] = 0 /\ booked'[session'[r].share] = 0
             /\ \A q \in Session \ {r} : session'[q].at = "credit" => session'[q].share # session'[r].share
  <2>1. CASE r = s
    <3>1. ~Passed(next.share) /\ next.share \in Share
      BY <1>0, <1>3, <1>4, <2>1 DEF Moves, JobType
    <3>2. QED
      BY <1>0, <2>1, <3>1 DEF Passed, IInv, TypeOK
  <2>2. CASE r # s
    <3>1. Passed(session[r].share)
      BY <1>0, <1>4, <2>2 DEF Passed
    <3>2. next.at = "credit" => next.share # session[r].share
      BY <1>0, <1>3, <1>4, <2>2, <3>1
    <3>3. QED
      BY <1>0, <1>4, <2>2, <3>2 DEF IInv, OnceInv
  <2>3. QED
    BY <2>1, <2>2
<1>5. \A r \in Session : session'[r].at = "taken" =>
        session'[r].base <= session'[r].share.height /\ top' <= session'[r].base + Lag
  BY <1>0 DEF IInv, OnceInv, Moves, TipMoves
<1>6. CreditedOnce' /\ \A sh \in Share : ~Counted(sh) => credits'[sh] = 0 /\ booked'[sh] = 0
  BY DEF IInv, OnceInv, CreditedOnce
<1>7. QED
  BY <1>1, <1>2, <1>4, <1>5, <1>6 DEF IInv, OnceInv, TipMoves, Counted

(* The checks of a share recent enough are such a move (verify and the     *)
(* duplicate check of on_pow).                                             *)
LEMMA VerifiedMoves ==
  ASSUME NEW s \in Session, NEW a, NEW sh \in Share, NEW h \in BOOLEAN, NEW b \in Nat,
         NEW hd \in BOOLEAN, NEW j,
         j = [at |-> a, share |-> sh, held |-> h, base |-> b, header |-> hd],
         top' <= sh.height + Lag, NEW o \in Verified(j),
         seen' = o.seen, session' = [session EXCEPT ![s] = o.next]
  PROVE  \E next : Moves(s, next)
<1>2. CASE o \in Refused
  <2>1. o.next = Idle /\ o.seen = seen
    BY <1>2 DEF Refused
  <2>2. Moves(s, Idle)
    BY <2>1, JobsTyped DEF Moves
  <2>3. QED
    BY <2>2
<1>3. CASE o \notin Refused
  <2>1. /\ o.next = [j EXCEPT !.at = "credit"]
        /\ IF Counted(sh) THEN sh \notin seen /\ o.seen = seen \cup {sh} ELSE o.seen = seen
    BY <1>3 DEF Verified
  <2>2. o.next = [at |-> "credit", share |-> sh, held |-> h, base |-> b, header |-> hd]
    BY <2>1
  <2>3. Moves(s, o.next)
    BY <2>1, <2>2 DEF Moves, JobType
  <2>4. QED
    BY <2>3
<1>4. QED
  BY <1>2, <1>3

(* So is what a share checked against the tip does (on_pow).               *)
LEMMA DecidedMoves ==
  ASSUME NEW s \in Session, NEW sh \in Share, NEW t \in TipType,
         top' \in Nat, top' <= t.height + Lag, seen' = seen,
         session' = [session EXCEPT ![s] = Decided(sh, t)]
  PROVE  \E next : Moves(s, next)
<1>0. Lag \in 0..2 /\ sh.height \in Nat /\ t.height \in Nat
  BY IntakeAssumption DEF TipType
<1>1. CASE check_job(t, sh) \in {"Current", "OtherBranch", "AheadByOne"}
  <2> DEFINE j == Job("taken", sh, t)
  <2>1. t.height <= sh.height
    BY <1>1, TakenIsRecent
  <2>2. j \in JobType /\ j.at = "taken" /\ j.base \in {t.height, sh.height} /\ j.share = sh
    BY Zenon, JobsTyped DEF Job
  <2>3. Decided(sh, t) = j
    BY <1>1 DEF Decided
  <2>4. Moves(s, j)
    BY <2>1, <2>2, <2>3, <1>0 DEF Moves
  <2>5. QED
    BY <2>4
<1>2. CASE check_job(t, sh) \notin {"Current", "OtherBranch", "AheadByOne"}
  <2>1. Decided(sh, t) = Idle
    BY <1>2 DEF Decided
  <2>2. Moves(s, Idle)
    BY <2>1, JobsTyped DEF Moves
  <2>3. QED
    BY <2>2
<1>3. QED
  BY <1>1, <1>2

(* A refresh keeps the tip where the shares that wait need it.             *)
LEMMA PublishMoves ==
  ASSUME IInv, Publish
  PROVE  TipMoves
<1>0. Lag \in 0..2 /\ Ours \in Branch /\ Stranger \subseteq Block /\ MaxTip \in Nat
  BY IntakeAssumption
<1>1. PICK h \in 1..MaxTip, header \in BOOLEAN, next \in BOOLEAN : \E hash \in MainBlocks(h) :
        LET same == hash = tip.hash
            hd == (same /\ tip.header) \/ header
        IN /\ h >= top - Lag /\ \A s \in Waiting : h <= session[s].base + Lag
           /\ tip' = [height |-> h, hash |-> hash, header |-> hd,
                      parent |-> Parent(hash),
                      next |-> (same /\ tip.next) \/ next \/ (hd /\ h + 1 \notin Retarget),
                      fresh |-> same => tip.fresh]
           /\ top' = IF h > top THEN h ELSE top
  BY DEF Publish
<1>2. PICK hash \in MainBlocks(h) :
           /\ h >= top - Lag /\ \A s \in Waiting : h <= session[s].base + Lag
           /\ tip' = [height |-> h, hash |-> hash,
                      header |-> ((hash = tip.hash) /\ tip.header) \/ header,
                      parent |-> Parent(hash),
                      next |-> ((hash = tip.hash) /\ tip.next) \/ next
                               \/ ((((hash = tip.hash) /\ tip.header) \/ header) /\ h + 1 \notin Retarget),
                      fresh |-> (hash = tip.hash) => tip.fresh]
           /\ top' = IF h > top THEN h ELSE top
  BY <1>1
<1>3. hash \in Block /\ hash.height = h
  BY <1>0 DEF MainBlocks, OurBlock, Block
<1>4. Parent(hash) \in Block
  <2>1. OurBlock(h - 1) \in Block
    BY <1>0 DEF OurBlock, Block
  <2>2. [hash EXCEPT !.height = @ - 1].height = h - 1
    BY <1>3 DEF Block
  <2>3. QED
    BY <2>1, <2>2, <1>0 DEF Parent
<1>5. tip' \in TipType /\ tip'.height = h
  BY <1>2, <1>3, <1>4 DEF TipType
<1>6. QED
  BY <1>0, <1>2, <1>5 DEF TipMoves, IInv, TypeOK, OnceInv, Waiting

(* The invariant holds at the start.                                       *)
LEMMA InitInv == Init => IInv
<1> SUFFICES ASSUME Init PROVE IInv
  OBVIOUS
<1>1. \A s \in Session : session[s] = Idle
  BY DEF Init
<1>2. TypeOK
  BY JobsTyped DEF Init, TypeOK, JobType, TipType
<1>3. NoTip.height = 0 /\ Lag \in 0..2
  BY IntakeAssumption DEF NoTip
<1>4. OnceInv
  BY <1>1, <1>3, JobsTyped DEF Init, OnceInv, Passed, CreditedOnce
<1>5. QED
  BY <1>2, <1>4 DEF IInv

(* Every step of every action keeps the invariant.                         *)
LEMMA NextInv == IInv /\ [Next]_vars => IInv'
<1> SUFFICES ASSUME IInv, [Next]_vars PROVE IInv'
  OBVIOUS
<1>0. /\ session \in [Session -> JobType] /\ tip \in TipType /\ top \in Nat
      /\ Lag \in 0..2 /\ \A sh \in Share : sh.height \in Nat
  BY IntakeAssumption DEF IInv, TypeOK, JobType, TipType
<1>still. ASSUME UNCHANGED <<top, tip>> PROVE TipMoves
  BY <1>0, <1>still DEF TipMoves, IInv, OnceInv
<1>tip. ASSUME TipMoves, UNCHANGED <<seen, session, credits, booked>> PROVE IInv'
  <2>1. TypeOK'
    BY <1>tip DEF IInv, TypeOK, TipMoves, TipType
  <2>2. \A sh \in Share : Counted(sh)' = Counted(sh) /\ Passed(sh)' = Passed(sh)
    BY <1>tip DEF Counted, Passed
  <2>3. OnceInv'
    BY <1>tip, <1>0, <2>2 DEF IInv, OnceInv, TipMoves, CreditedOnce, Counted
  <2>4. QED
    BY <2>1, <2>3 DEF IInv
<1>1. CASE Refresh
  BY <1>1, <1>tip, PublishMoves DEF Refresh
<1>2. CASE GraceEnds
  <2>1. tip' \in TipType /\ tip'.height = tip.height
    BY Zenon, <1>0, <1>2 DEF GraceEnds, TipType
  <2>2. TipMoves
    BY <1>0, <1>2, <2>1 DEF GraceEnds, TipMoves, IInv, OnceInv
  <2>3. QED
    BY <1>2, <1>tip, <2>2 DEF GraceEnds
<1>3. CASE Housekeeping
  <2>1. TypeOK'
    BY <1>3 DEF IInv, TypeOK, Housekeeping, prune_below
  <2>2. ASSUME NEW sh \in Share, Counted(sh), Passed(sh)'
        PROVE  sh \in seen' \/ sh.height < top' - 2
    <3>1. Passed(sh)
      BY <1>3, <2>2 DEF Passed, Housekeeping
    <3>2. QED
      BY <1>0, <1>3, <2>2, <3>1 DEF IInv, OnceInv, Housekeeping, prune_below, TipType
  <2>3. OnceInv'
    BY <1>3, <2>2 DEF IInv, OnceInv, Housekeeping, CreditedOnce, Counted
  <2>4. QED
    BY <2>1, <2>3 DEF IInv
<1>4. ASSUME NEW s \in Session, NEW sh \in Share, Submit(s, sh) PROVE IInv'
  <2>1. session[s].at # "credit" /\ TipMoves /\ UNCHANGED <<credits, booked>>
    BY <1>4, <1>still DEF Submit
  <2>2. top' \in Nat /\ top' <= tip.height + Lag
    BY <1>4, <1>0 DEF Submit, IInv, OnceInv
  <2>3. CASE tip = NoTip /\ session' = [session EXCEPT ![s] = Job("taken", sh, NoTip)]
    <3> DEFINE j == Job("taken", sh, NoTip)
    <3>1. j \in JobType /\ j.at = "taken" /\ j.base = sh.height /\ j.share = sh
      BY Zenon, JobsTyped DEF Job
    <3>2. top' <= sh.height + Lag
      BY <2>2, <2>3, <1>0 DEF NoTip
    <3>3. Moves(s, j)
      BY <1>0, <1>4, <2>3, <3>1, <3>2 DEF Moves, Submit
    <3>4. QED
      BY SMTT(30), <2>1, <3>3, MoveKeeps
  <2>4. CASE session' = [session EXCEPT ![s] = Decided(sh, tip)]
    <3>1. \E next : Moves(s, next)
      BY Zenon, <1>0, <1>4, <2>2, <2>4, DecidedMoves DEF Submit
    <3>2. QED
      BY <2>1, <3>1, MoveKeeps
  <2>5. CASE session' = [session EXCEPT ![s] = Job("refresh", sh, tip)]
    <3>1. Job("refresh", sh, tip) \in JobType /\ Job("refresh", sh, tip).at = "refresh"
      BY Zenon, <1>0, JobsTyped DEF Job
    <3>2. Moves(s, Job("refresh", sh, tip))
      BY <1>4, <2>5, <3>1 DEF Moves, Submit
    <3>3. QED
      BY <2>1, <3>2, MoveKeeps
  <2>6. QED
    BY <1>4, <2>3, <2>4, <2>5 DEF Submit
<1>5. ASSUME NEW s \in Session, RefreshAhead(s) PROVE IInv'
  <2>1. session[s].at # "credit" /\ UNCHANGED <<credits, booked>>
    BY <1>5 DEF RefreshAhead
  <2>2. TipMoves
    BY <1>5, <1>still, PublishMoves DEF RefreshAhead
  <2>3. session[s].share \in Share
    BY <1>0 DEF JobType
  <2>4. seen' = seen /\ session' = [session EXCEPT ![s] = Decided(session[s].share, tip')]
    BY <1>5 DEF RefreshAhead
  <2>5. PICK sh \in Share, t \in TipType : sh = session[s].share /\ t = tip'
    BY <2>2, <2>3 DEF TipMoves
  <2>6. /\ top' \in Nat /\ top' <= t.height + Lag
        /\ seen' = seen /\ session' = [session EXCEPT ![s] = Decided(sh, t)]
    BY <2>2, <2>4, <2>5 DEF TipMoves
  <2>7. \E next : Moves(s, next)
    BY Zenon, <2>6, DecidedMoves
  <2>8. QED
    BY <2>1, <2>2, <2>7, MoveKeeps
<1>6. ASSUME NEW s \in Session, Verify(s) PROVE IInv'
  <2>1. session[s].at # "credit" /\ TipMoves /\ UNCHANGED <<credits, booked>>
    BY <1>6, <1>still DEF Verify
  <2>2. session[s] \in JobType
    BY <1>0
  <2>3. session[s] = [at |-> session[s].at, share |-> session[s].share, held |-> session[s].held,
                      base |-> session[s].base, header |-> session[s].header]
    BY <2>2 DEF JobType
  <2>4. top' <= session[s].share.height + Lag
    BY <1>0, <1>6, <2>2 DEF Verify, IInv, OnceInv, JobType
  <2>5. PICK o \in Verified(session[s]) : seen' = o.seen /\ session' = [session EXCEPT ![s] = o.next]
    BY Zenon, <1>6 DEF Verify
  <2>6. \E next : Moves(s, next)
    BY ZenonT(30), <2>2, <2>3, <2>4, <2>5, VerifiedMoves DEF JobType
  <2>7. QED
    BY <2>1, <2>6, MoveKeeps
<1>7. ASSUME NEW s \in Session, Credit(s) PROVE IInv'
  <2> DEFINE sh == session[s].share
  <2>1. /\ sh \in Share /\ session[s].at = "credit"
        /\ session' = [session EXCEPT ![s] = Idle] /\ UNCHANGED <<top, tip, seen>>
    BY <1>0, <1>7 DEF Credit, JobType
  <2>2. /\ credits \in [Share -> Nat] /\ booked \in [Share -> Nat]
        /\ credits' \in [Share -> Nat] /\ booked' \in [Share -> Nat]
        /\ \A x \in Share \ {sh} : credits'[x] = credits[x] /\ booked'[x] = booked[x]
        /\ credits'[sh] <= credits[sh] + 1 /\ booked'[sh] <= booked[sh] + 1
        /\ ~Counted(sh) => credits'[sh] = credits[sh] /\ booked'[sh] = booked[sh]
    BY <1>7, <2>1 DEF Credit, Adds, Counted, IInv, TypeOK
  <2>3. /\ session'[s].at = "idle"
        /\ \A r \in Session \ {s} : session'[r] = session[r]
    BY <1>0, <2>1, JobsTyped
  <2>4. TypeOK'
    BY ZenonT(30), <2>1, <2>2, JobsTyped DEF IInv, TypeOK, JobType
  <2>5. ASSUME NEW x \in Share, Counted(x), Passed(x)'
        PROVE  x \in seen' \/ x.height < top' - 2
    <3>1. Passed(x)
      BY <2>1, <2>2, <2>3, <2>5 DEF Passed
    <3>2. QED
      BY <2>1, <2>5, <3>1 DEF IInv, OnceInv
  <2>6. \A x \in Share : ~Counted(x) => credits'[x] = 0 /\ booked'[x] = 0
    BY <2>1, <2>2 DEF IInv, OnceInv
  <2>7. CreditedOnce'
    BY <2>1, <2>2 DEF IInv, OnceInv, CreditedOnce
  <2>8. ASSUME NEW r \in Session, session'[r].at = "credit", Counted(session'[r].share)
        PROVE  /\ credits'[session'[r].share] = 0 /\ booked'[session'[r].share] = 0
               /\ \A q \in Session \ {r} : session'[q].at = "credit" => session'[q].share # session'[r].share
    <3>1. r # s /\ session'[r] = session[r] /\ session[r].share \in Share /\ session[r].share # sh
      BY <1>0, <2>1, <2>3, <2>8 DEF IInv, OnceInv, JobType
    <3>2. QED
      BY SMTT(30), <2>2, <2>3, <2>8, <3>1 DEF IInv, OnceInv
  <2>9. \A r \in Session : session'[r].at = "taken" =>
          session'[r].base <= session'[r].share.height /\ top' <= session'[r].base + Lag
    BY <2>1, <2>3 DEF IInv, OnceInv
  <2>10. QED
    BY <2>1, <2>4, <2>5, <2>6, <2>7, <2>8, <2>9 DEF IInv, OnceInv, Counted
<1>8. CASE UNCHANGED vars
  <2>1. UNCHANGED <<seen, session, credits, booked>> /\ TipMoves
    BY <1>8, <1>still DEF vars
  <2>2. QED
    BY <2>1, <1>tip
<1>9. QED
  BY <1>1, <1>2, <1>3, <1>4, <1>5, <1>6, <1>7, <1>8 DEF Next

(* One credit and one booking per share hash, whatever the sessions, the   *)
(* poller and housekeeping do between (SeenShares and on_pow).             *)
THEOREM OneCreditPerHash == Spec => []CreditedOnce
<1>1. IInv => CreditedOnce
  BY DEF IInv, OnceInv
<1>2. QED
  BY <1>1, InitInv, NextInv, PTL DEF Spec

(* A share let in stays in the set until no share of its height is taken   *)
(* any more, which is what pruning at two below the tip is for.            *)
THEOREM LetInStaysKnown == Spec => []OnceInv
<1>1. IInv => OnceInv
  BY DEF IInv
<1>2. QED
  BY <1>1, InitInv, NextInv, PTL DEF Spec

-----------------------------------------------------------------------------
\* A job that passed a tip whose header was known has a target the chain can have
\* set there.
Possible(j) ==
  j.at \in {"taken", "credit"} /\ j.held /\ j.header =>
    ~easier_than_4x(j.share.bits, BitsAt[j.base])

TargetInv ==
  /\ tip = NoTip \/ tip.height \in 1 .. MaxTip
  /\ \A s \in Session : Possible(session[s])

(* check_job takes no share whose target is more than four times the tip's *)
(* (Tip::check_job), since the next height's own is not.                   *)
LEMMA TakenIsPossible ==
  ASSUME NEW t \in TipType, t.height \in 1 .. MaxTip, t.header, NEW sh \in Share,
         check_job(t, sh) \in {"Current", "OtherBranch", "AheadByOne"}
  PROVE  ~easier_than_4x(sh.bits, BitsAt[t.height])
<1> SUFFICES ASSUME easier_than_4x(sh.bits, BitsAt[t.height]) PROVE FALSE
  OBVIOUS
<1>1. /\ sh.height \in Nat /\ sh.bits \in Nat /\ t.height \in Nat /\ MaxTip \in Nat
      /\ BitsAt[t.height] \in Nat /\ BitsAt[t.height + 1] \in Nat
      /\ BitsAt[t.height + 1] <= 4 * BitsAt[t.height]
  BY IntakeAssumption, TargetAssumption DEF TipType
<1>2. sh.bits # BitsAt[t.height] /\ sh.bits # BitsAt[t.height + 1]
  BY <1>1 DEF easier_than_4x
<1>3. check_job(t, sh) \in {"Ahead", "Stale", "WrongBits"}
  BY <1>2 DEF check_job
<1> QED
  BY <1>3

(* What a share checked against the tip becomes is such a job.             *)
LEMMA DecidedIsPossible ==
  ASSUME NEW t \in TipType, t = NoTip \/ t.height \in 1 .. MaxTip, NEW sh \in Share
  PROVE  Possible(Decided(sh, t))
<1>1. Possible(Idle)
  BY JobsTyped DEF Possible
<1>2. CASE t # NoTip /\ check_job(t, sh) \in {"Current", "OtherBranch", "AheadByOne"}
  <2>1. Decided(sh, t) = Job("taken", sh, t)
    BY <1>2 DEF Decided
  <2>2. Job("taken", sh, t).header = t.header /\ Job("taken", sh, t).share = sh
        /\ Job("taken", sh, t).base = t.height
    BY <1>2 DEF Job
  <2> QED
    BY <1>2, <2>1, <2>2, TakenIsPossible DEF Possible
<1>3. CASE t = NoTip
  <2>1. ~Job("taken", sh, t).held
    BY <1>3 DEF Job
  <2> QED
    BY <1>1, <2>1 DEF Decided, Possible
<1> QED
  BY <1>1, <1>2, <1>3 DEF Decided

(* A published tip has a height of the chain.                              *)
LEMMA PublishedHeight ==
  ASSUME Publish
  PROVE  tip'.height \in 1 .. MaxTip
  BY DEF Publish

(* Every step keeps it.                                                    *)
LEMMA TargetNext == IInv /\ TargetInv /\ [Next]_vars => TargetInv'
<1> SUFFICES ASSUME IInv, TargetInv, [Next]_vars PROVE TargetInv'
  OBVIOUS
<1>0. session \in [Session -> JobType] /\ tip \in TipType
  BY DEF IInv, TypeOK, JobType, TipType
<1>idle. Possible(Idle)
  BY JobsTyped DEF Possible
<1>tip. ASSUME tip' = tip \/ tip'.height \in 1 .. MaxTip, session' = session PROVE TargetInv'
  BY <1>tip DEF TargetInv, Possible
<1>move. ASSUME tip' = tip \/ tip'.height \in 1 .. MaxTip, NEW s \in Session, NEW next,
                session' = [session EXCEPT ![s] = next], Possible(next)
         PROVE  TargetInv'
  <2>1. \A r \in Session : session'[r] = IF r = s THEN next ELSE session[r]
    BY <1>0, <1>move
  <2>2. \A r \in Session : Possible(session'[r])
    BY <1>move, <2>1 DEF TargetInv
  <2> QED
    BY <1>move, <2>2 DEF TargetInv, Possible
<1>1. CASE Refresh
  BY <1>1, <1>tip, PublishedHeight DEF Refresh
<1>2. CASE GraceEnds
  <2>1. tip' \in TipType /\ tip'.height = tip.height
    BY Zenon, <1>0, <1>2 DEF GraceEnds, TipType
  <2> QED
    BY <1>2, <1>tip, <2>1 DEF GraceEnds, TargetInv
<1>3. CASE Housekeeping
  BY <1>3, <1>tip DEF Housekeeping
<1>4. ASSUME NEW s \in Session, NEW sh \in Share, Submit(s, sh) PROVE TargetInv'
  <2>1. Possible(Job("taken", sh, NoTip))
    BY DEF Possible, Job
  <2>2. Possible(Job("refresh", sh, tip))
    BY DEF Possible, Job
  <2>3. Possible(Decided(sh, tip))
    BY <1>0, DecidedIsPossible DEF TargetInv
  <2> QED
    BY <1>4, <1>move, <2>1, <2>2, <2>3 DEF Submit
<1>5. ASSUME NEW s \in Session, RefreshAhead(s) PROVE TargetInv'
  <2>1. session[s].share \in Share
    BY <1>0 DEF JobType
  <2>2. tip' \in TipType /\ (tip' = tip \/ tip'.height \in 1 .. MaxTip)
    BY <1>0, <1>5, PublishMoves, PublishedHeight DEF RefreshAhead, TipMoves
  <2>3. Possible(Decided(session[s].share, tip'))
    BY <2>1, <2>2, DecidedIsPossible DEF TargetInv
  <2> QED
    BY <1>5, <1>move, <2>2, <2>3 DEF RefreshAhead
<1>6. ASSUME NEW s \in Session, Verify(s) PROVE TargetInv'
  <2>1. PICK o \in Verified(session[s]) : session' = [session EXCEPT ![s] = o.next]
    BY <1>6 DEF Verify
  <2>2. o.next = Idle \/ o.next = [session[s] EXCEPT !.at = "credit"]
    BY <2>1 DEF Verified, Refused
  <2>3. Possible([session[s] EXCEPT !.at = "credit"])
    BY <1>0, <1>6 DEF Verify, TargetInv, Possible, JobType
  <2> QED
    BY <1>6, <1>idle, <1>move, <2>1, <2>2, <2>3 DEF Verify
<1>7. ASSUME NEW s \in Session, Credit(s) PROVE TargetInv'
  BY <1>7, <1>idle, <1>move DEF Credit
<1>8. CASE UNCHANGED vars
  BY <1>8, <1>tip DEF vars
<1> QED
  BY <1>1, <1>2, <1>3, <1>4, <1>5, <1>6, <1>7, <1>8 DEF Next

(* No block is booked under a target the chain cannot have set, unless the *)
(* node had not given the header of the tip the share was checked with,    *)
(* however many tips came between check and booking (Tip::check_job).      *)
THEOREM BookingsUnderPossibleTarget == Spec => BookedUnderPossibleTarget
<1> DEFINE Allowed ==
      \A sh \in Share : booked'[sh] > booked[sh] =>
        \E s \in Session : /\ session[s].at = "credit" /\ session[s].share = sh /\ session[s].held
                           /\ \/ ~session[s].header
                              \/ ~easier_than_4x(sh.bits, BitsAt[session[s].base])
<1>1. Init => TargetInv
  BY JobsTyped DEF Init, TargetInv, Possible
<1>2. IInv /\ TargetInv /\ [Next]_vars => [Allowed]_vars
  <2> SUFFICES ASSUME IInv, TargetInv, Next, NEW sh \in Share, booked'[sh] > booked[sh]
               PROVE  \E s \in Session : /\ session[s].at = "credit" /\ session[s].share = sh
                                         /\ session[s].held
                                         /\ \/ ~session[s].header
                                            \/ ~easier_than_4x(sh.bits, BitsAt[session[s].base])
    OBVIOUS
  <2>1. booked[sh] \in Nat
    BY DEF IInv, TypeOK
  <2>2. PICK s \in Session : Credit(s)
    BY <2>1 DEF Next, Refresh, GraceEnds, Housekeeping, Submit, RefreshAhead, Verify
  <2>3. session[s].at = "credit" /\ session[s].share = sh /\ session[s].held
    BY <2>1, <2>2 DEF Credit, Adds, IInv, TypeOK
  <2> QED
    BY <2>3 DEF TargetInv, Possible
<1> QED
  BY <1>1, <1>2, InitInv, NextInv, TargetNext, PTL DEF Spec, BookedUnderPossibleTarget

-----------------------------------------------------------------------------
(***************************************************************************)
(* JobSlot.  The caches of a slot stand for what they were computed from, so *)
(* what is credited is the header that was hashed, and its hash alone says *)
(* what it earns.                                                          *)
(***************************************************************************)

\* A record with the fields of a slot.
IsSlot(t) ==
  t = [job |-> t.job, coinbases |-> t.coinbases, h2 |-> t.h2, cb |-> t.cb, includes |-> t.includes]

\* Every entry of a cache is what the section its key names gives now.
CachesFresh(t) ==
  /\ \A k \in DOMAIN t.h2 :
       /\ k.id \in DOMAIN t.coinbases
       /\ t.h2[k] = Header(t.job, t.coinbases[k.id], k.pot, k.stamp, k.includes)
  /\ \A k \in DOMAIN t.cb : k.id \in DOMAIN t.coinbases /\ t.cb[k] = t.coinbases[k.id]

Fits(f, limit) == IsFiniteSet(DOMAIN f) /\ Cardinality(DOMAIN f) <= limit

Sound(t) == IsSlot(t) /\ CachesFresh(t) /\ Fits(t.h2, MaxH2) /\ Fits(t.cb, MaxCb)

\* What a hash of this header and this level earns from an untrusted gateway.
Earns(h, level) ==
  IF commits_target(h.class) /\ h.pot >= MinPot THEN 2 ^ h.pot
  ELSE LET pot == IF UncommittedPot > MinPot THEN UncommittedPot ELSE MinPot
       IN  IF level >= pot THEN 2 ^ pot ELSE 0

SlotInv ==
  /\ Sound(slot)
  /\ verdict.commitment = verdict.hashed /\ verdict.parsed = verdict.class
  /\ Trusted \/ \A p \in paid : p.work = Earns(p.hash[1], p.hash[2])

-----------------------------------------------------------------------------
(* A map that is cut down, or cleared and put into when full, keeps its    *)
(* limit (the caches of JobSlot).                                          *)
LEMMA KeepFits ==
  ASSUME NEW f, NEW S, NEW limit \in Nat, Fits(f, limit)
  PROVE  Fits(Keep(f, S), limit)
<1>1. DOMAIN Keep(f, S) \subseteq DOMAIN f
  BY DEF Keep
<1>2. IsFiniteSet(DOMAIN f) /\ Cardinality(DOMAIN f) \in Nat
  BY FS_CardinalityType DEF Fits
<1>3. IsFiniteSet(DOMAIN Keep(f, S)) /\ Cardinality(DOMAIN Keep(f, S)) <= Cardinality(DOMAIN f)
  BY <1>1, <1>2, FS_Subset
<1>4. Cardinality(DOMAIN Keep(f, S)) \in Nat
  BY <1>3, FS_CardinalityType
<1> QED
  BY <1>2, <1>3, <1>4 DEF Fits

(* An empty cache keeps any limit.                                         *)
LEMMA EmptyFits ==
  ASSUME NEW limit \in Nat
  PROVE  DOMAIN NoMap = {} /\ Fits(NoMap, limit)
<1>1. DOMAIN NoMap = {}
  BY DEF NoMap
<1> QED
  BY <1>1, FS_EmptySet DEF Fits

(* A cache that is emptied when full keeps its limit.                      *)
LEMMA BoundedFits ==
  ASSUME NEW f, NEW k, NEW v, NEW limit \in Nat \ {0}, Fits(f, limit)
  PROVE  Fits(Bounded(f, k, v, limit), limit)
<1> DEFINE g == IF Cardinality(DOMAIN f) >= limit THEN NoMap ELSE f
<1>1. IsFiniteSet(DOMAIN g) /\ Cardinality(DOMAIN g) \in Nat
  BY EmptyFits, FS_CardinalityType DEF Fits
<1>2. Cardinality(DOMAIN g) < limit
  BY <1>1, EmptyFits, FS_EmptySet, FS_CardinalityType DEF Fits
<1>3. DOMAIN Bounded(f, k, v, limit) = DOMAIN g \cup {k}
  BY DEF Bounded, Put
<1>4. /\ IsFiniteSet(DOMAIN g \cup {k})
      /\ Cardinality(DOMAIN g \cup {k}) = Cardinality(DOMAIN g)
           \/ Cardinality(DOMAIN g \cup {k}) = Cardinality(DOMAIN g) + 1
  BY <1>1, FS_AddElement
<1> QED
  BY <1>1, <1>2, <1>3, <1>4 DEF Fits

(* Limits as the lemmas above want them.                                   *)
LEMMA Limits == MaxH2 \in Nat \ {0} /\ MaxCb \in Nat \ {0}
BY SlotAssumption

(* Clearing what was derived from an id that loses or changes its section  *)
(* leaves the rest of the caches true (forget_coinbase, absorb).           *)
LEMMA ClearedSound ==
  ASSUME NEW t, Sound(t), NEW id, NEW cbs,
         \A i \in DOMAIN t.coinbases : i # id => i \in DOMAIN cbs /\ cbs[i] = t.coinbases[i]
  PROVE  Sound(Cleared([t EXCEPT !.coinbases = cbs], id))
<1> DEFINE h == Keep(t.h2, {k \in DOMAIN t.h2 : k.id # id})
           b == Keep(t.cb, {k \in DOMAIN t.cb : k.id # id})
           u == [job |-> t.job, coinbases |-> cbs, h2 |-> h, cb |-> b, includes |-> t.includes]
           w == [job |-> t.job, coinbases |-> cbs, h2 |-> t.h2, cb |-> t.cb, includes |-> t.includes]
<1>1. Cleared([t EXCEPT !.coinbases = cbs], id) = u
  <2>1. [t EXCEPT !.coinbases = cbs] = w
    BY DEF Sound, IsSlot
  <2>2. [w EXCEPT !.h2 = h, !.cb = b] = u
    <3> HIDE DEF h, b
    <3>1. [w EXCEPT !.h2 = h]
            = [job |-> t.job, coinbases |-> cbs, h2 |-> h, cb |-> t.cb, includes |-> t.includes]
      OBVIOUS
    <3>2. [[job |-> t.job, coinbases |-> cbs, h2 |-> h, cb |-> t.cb, includes |-> t.includes]
             EXCEPT !.cb = b] = u
      OBVIOUS
    <3> QED
      BY ZenonT(30), <3>1, <3>2
  <2>3. w.h2 = t.h2 /\ w.cb = t.cb
    OBVIOUS
  <2>4. Cleared(w, id) = [w EXCEPT !.h2 = h, !.cb = b]
    BY <2>3 DEF Cleared
  <2> QED
    BY <2>1, <2>2, <2>4
<1>2. Fits(h, MaxH2) /\ Fits(b, MaxCb)
  BY KeepFits, Limits DEF Sound
<1>3. \A k \in DOMAIN h : k \in DOMAIN t.h2 /\ k.id # id /\ h[k] = t.h2[k]
  BY DEF Keep
<1>4. \A k \in DOMAIN b : k \in DOMAIN t.cb /\ k.id # id /\ b[k] = t.cb[k]
  BY DEF Keep
<1>5. CachesFresh(u)
  <2> HIDE DEF h, b
  <2>1. \A k \in DOMAIN h :
          k.id \in DOMAIN cbs /\ h[k] = Header(t.job, cbs[k.id], k.pot, k.stamp, k.includes)
    BY <1>3 DEF Sound, CachesFresh
  <2>2. \A k \in DOMAIN b : k.id \in DOMAIN cbs /\ b[k] = cbs[k.id]
    BY <1>4 DEF Sound, CachesFresh
  <2> QED
    BY <2>1, <2>2 DEF CachesFresh
<1> HIDE DEF h, b
<1>6. IsSlot(u)
  BY SMTT(30) DEF IsSlot
<1> QED
  BY <1>1, <1>2, <1>5, <1>6 DEF Sound

(* A slot with nothing in it, and one whose sections were evicted.         *)
LEMMA EmptySound ==
  ASSUME NEW j, NEW c
  PROVE  Sound([job |-> j, coinbases |-> NoMap, h2 |-> NoMap, cb |-> NoMap, includes |-> c])
BY EmptyFits, Limits DEF Sound, IsSlot, CachesFresh

(* The slot's own operations, and absorbing a share.                       *)
LEMMA EvictSound ==
  ASSUME NEW t, Sound(t)
  PROVE  Sound(evict_sections(t))
<1>1. t = [job |-> t.job, coinbases |-> t.coinbases, h2 |-> t.h2, cb |-> t.cb, includes |-> t.includes]
  BY DEF Sound, IsSlot
<1>2. [t EXCEPT !.coinbases = NoMap]
        = [job |-> t.job, coinbases |-> NoMap, h2 |-> t.h2, cb |-> t.cb, includes |-> t.includes]
  BY <1>1
<1>3. [[job |-> t.job, coinbases |-> NoMap, h2 |-> t.h2, cb |-> t.cb, includes |-> t.includes] EXCEPT !.h2 = NoMap]
        = [job |-> t.job, coinbases |-> NoMap, h2 |-> NoMap, cb |-> t.cb, includes |-> t.includes]
  OBVIOUS
<1>4. [[job |-> t.job, coinbases |-> NoMap, h2 |-> NoMap, cb |-> t.cb, includes |-> t.includes] EXCEPT !.cb = NoMap]
        = [job |-> t.job, coinbases |-> NoMap, h2 |-> NoMap, cb |-> NoMap, includes |-> t.includes]
  OBVIOUS
<1>5. evict_sections(t)
        = [job |-> t.job, coinbases |-> NoMap, h2 |-> NoMap, cb |-> NoMap, includes |-> t.includes]
  BY Zenon, <1>2, <1>3, <1>4 DEF evict_sections
<1> QED
  BY <1>5, EmptySound

(* Forgetting a coinbase drops what the caches have of it.                 *)
LEMMA ForgetSound ==
  ASSUME NEW t, Sound(t), NEW id
  PROVE  Sound(forget_coinbase(t, id))
<1> DEFINE cbs == Keep(t.coinbases, DOMAIN t.coinbases \ {id})
<1>1. \A i \in DOMAIN t.coinbases : i # id => i \in DOMAIN cbs /\ cbs[i] = t.coinbases[i]
  BY DEF Keep
<1>2. forget_coinbase(t, id) = Cleared([t EXCEPT !.coinbases = cbs], id)
  BY DEF forget_coinbase
<1> HIDE DEF cbs
<1> QED
  BY <1>1, <1>2, ClearedSound

(* A section that is absorbed replaces its forerunner in the caches.       *)
LEMMA SectionSound ==
  ASSUME NEW t, Sound(t), NEW id, NEW class
  PROVE  Sound(absorb_section(t, id, class).slot)
<1> DEFINE cbs == Put(t.coinbases, id, class)
<1>1. \A i \in DOMAIN t.coinbases : i # id => i \in DOMAIN cbs /\ cbs[i] = t.coinbases[i]
  BY DEF Put
<1>2. Sound(Cleared([t EXCEPT !.coinbases = cbs], id))
  <2> HIDE DEF cbs
  <2> QED
    BY <1>1, ClearedSound
<1>3. absorb_section(t, id, class).slot \in {t, Cleared([t EXCEPT !.coinbases = cbs], id)}
  BY DEF absorb_section
<1> QED
  BY <1>2, <1>3

(* So does all that a share brings.                                        *)
LEMMA AbsorbSound ==
  ASSUME NEW t, Sound(t), NEW s
  PROVE  Sound(absorb_pow(t, s).slot)
<1>1. Sound(absorb_job(t, s.job))
  <2>1. [Unset EXCEPT !.job = s.job]
          = [job |-> s.job, coinbases |-> NoMap, h2 |-> NoMap, cb |-> NoMap, includes |-> BOOLEAN]
    BY DEF Unset
  <2>2. absorb_job(t, s.job) \in {t, [Unset EXCEPT !.job = s.job]}
    BY DEF absorb_job
  <2> QED
    BY <2>1, <2>2, EmptySound
<1>2. Sound(absorb_section(absorb_job(t, s.job), s.id, s.section).slot)
  BY <1>1, SectionSound
<1>3. absorb_pow(t, s).slot \in
        {absorb_job(t, s.job), absorb_section(absorb_job(t, s.job), s.id, s.section).slot}
  BY DEF absorb_pow
<1> QED
  BY <1>1, <1>2, <1>3

-----------------------------------------------------------------------------
(* With true caches, what the loop hashes is the header of the section the *)
(* share names, and what was parsed is that section (verify_with_target).  *)
LEMMA HashesTheHeader ==
  ASSUME NEW t, Sound(t), NEW s, NEW c, s.id \in DOMAIN t.coinbases
  PROVE  H2(t, s, c) = Header(t.job, t.coinbases[s.id], s.pot, s.stamp, c)
<1> DEFINE k == HKey(s, c)
<1>1. k.id = s.id /\ k.pot = s.pot /\ k.stamp = s.stamp /\ k.includes = c
  BY SMTT(30) DEF HKey
<1>2. k \in DOMAIN t.h2 => t.h2[k] = Header(t.job, t.coinbases[k.id], k.pot, k.stamp, k.includes)
  BY DEF Sound, CachesFresh
<1> HIDE DEF k
<1>3. k \in DOMAIN t.h2 => t.h2[k] = Header(t.job, t.coinbases[s.id], s.pot, s.stamp, c)
  BY <1>1, <1>2
<1> QED
  BY <1>3 DEF H2, k

(* A value that is true of its key goes into a cache of true values.       *)
LEMMA BoundedDomain ==
  ASSUME NEW f, NEW k, NEW v, NEW limit
  PROVE  /\ Bounded(f, k, v, limit)[k] = v
         /\ \A x \in DOMAIN Bounded(f, k, v, limit) :
              x # k => x \in DOMAIN f /\ Bounded(f, k, v, limit)[x] = f[x]
<1>1. DOMAIN NoMap = {}
  BY SMTT(30) DEF NoMap
<1> QED
  BY <1>1 DEF Bounded, Put

\* The slot after share s verified under reading c.
Remembered(t, s, c) ==
  LET ckey == [id |-> s.id, pot |-> s.pot]
  IN  [t EXCEPT !.h2 = Bounded(@, HKey(s, c), H2(t, s, c), MaxH2),
                !.includes = {c},
                !.cb = IF ckey \in DOMAIN @ THEN @ ELSE Bounded(@, ckey, t.coinbases[s.id], MaxCb)]

(* What verifying a share adds to the caches is what it computed.          *)
LEMMA VerifiedSound ==
  ASSUME NEW t, Sound(t), NEW s, NEW c, s.id \in DOMAIN t.coinbases
  PROVE  Sound(Remembered(t, s, c))
<1> DEFINE ckey == [id |-> s.id, pot |-> s.pot]
           h == Bounded(t.h2, HKey(s, c), H2(t, s, c), MaxH2)
           b == IF ckey \in DOMAIN t.cb THEN t.cb ELSE Bounded(t.cb, ckey, t.coinbases[s.id], MaxCb)
           u == [job |-> t.job, coinbases |-> t.coinbases, h2 |-> h, cb |-> b, includes |-> {c}]
<1>1. Fits(h, MaxH2) /\ Fits(b, MaxCb)
  BY SMTT(30), BoundedFits, Limits DEF Sound
<1>2. \A k \in DOMAIN h :
        k.id \in DOMAIN t.coinbases /\ h[k] = Header(t.job, t.coinbases[k.id], k.pot, k.stamp, k.includes)
  <2>1. /\ HKey(s, c).id = s.id /\ HKey(s, c).pot = s.pot
        /\ HKey(s, c).stamp = s.stamp /\ HKey(s, c).includes = c
    BY SMTT(30) DEF HKey
  <2>2. h[HKey(s, c)] = Header(t.job, t.coinbases[s.id], s.pot, s.stamp, c)
    BY SMTT(30), BoundedDomain, HashesTheHeader
  <2>3. \A k \in DOMAIN h : k # HKey(s, c) => k \in DOMAIN t.h2 /\ h[k] = t.h2[k]
    BY SMTT(30), BoundedDomain
  <2> HIDE DEF h
  <2> QED
    BY SMTT(30), <2>1, <2>2, <2>3 DEF Sound, CachesFresh
<1>3. \A k \in DOMAIN b : k.id \in DOMAIN t.coinbases /\ b[k] = t.coinbases[k.id]
  <2>1. CASE ckey \in DOMAIN t.cb
    BY SMTT(30), <2>1 DEF Sound, CachesFresh
  <2>2. CASE ckey \notin DOMAIN t.cb
    <3>1. b[ckey] = t.coinbases[s.id] /\ ckey.id = s.id
      BY SMTT(30), <2>2, BoundedDomain
    <3>2. \A k \in DOMAIN b : k # ckey => k \in DOMAIN t.cb /\ b[k] = t.cb[k]
      BY SMTT(30), <2>2, BoundedDomain
    <3> HIDE DEF b, ckey
    <3> QED
      BY SMTT(30), <3>1, <3>2 DEF Sound, CachesFresh
  <2> QED
    BY SMTT(30), <2>1, <2>2
<1> HIDE DEF h, b
<1>4. CachesFresh(u) /\ IsSlot(u)
  BY <1>2, <1>3 DEF CachesFresh, IsSlot
<1>5. Remembered(t, s, c) = u
  <2>1. [t EXCEPT !.h2 = h]
          = [job |-> t.job, coinbases |-> t.coinbases, h2 |-> h, cb |-> t.cb, includes |-> t.includes]
    BY DEF Sound, IsSlot
  <2>2. [[job |-> t.job, coinbases |-> t.coinbases, h2 |-> h, cb |-> t.cb, includes |-> t.includes]
           EXCEPT !.includes = {c}]
          = [job |-> t.job, coinbases |-> t.coinbases, h2 |-> h, cb |-> t.cb, includes |-> {c}]
    OBVIOUS
  <2>3. [[job |-> t.job, coinbases |-> t.coinbases, h2 |-> h, cb |-> t.cb, includes |-> {c}] EXCEPT !.cb = b] = u
    OBVIOUS
  <2>4. [t EXCEPT !.h2 = h, !.includes = {c}, !.cb = b] = u
    BY Zenon, <2>1, <2>2, <2>3
  <2>5. Remembered(t, s, c) = [t EXCEPT !.h2 = h, !.includes = {c}, !.cb = b]
    BY DEF Remembered, h, b
  <2> QED
    BY <2>4, <2>5
<1> QED
  BY SMTT(30), <1>1, <1>4, <1>5 DEF Sound

-----------------------------------------------------------------------------
(* A share that verifies earns what its hash says, unless the gateway is   *)
(* trusted with its claims (VerifiedShare::work).                          *)
LEMMA WorkIsEarned ==
  ASSUME ~Trusted, NEW j, NEW class, NEW s, NEW c,
         s.ground = Header(j, class, s.pot, s.stamp, c)
  PROVE  work(class, s) = Earns(s.ground, s.level)
<1>1. s.ground.class = class /\ s.ground.pot = IF commits_target(class) THEN s.pot ELSE 0
  BY DEF Header
<1>2. CASE commits_target(class)
  BY <1>1, <1>2 DEF work, Earns
<1>3. CASE ~commits_target(class)
  BY SMTT(30), <1>1, <1>3 DEF work, Earns
<1> QED
  BY <1>2, <1>3

(* Every share leaves the slot, the verdict and the credits as they should *)
(* be, whichever way it goes (on_pow up to verify).                        *)
LEMMA PowStep ==
  ASSUME SlotInv, NEW s, NEW over, Pow(s, over)
  PROVE  SlotInv'
<1> DEFINE t == absorb_pow(slot, s).slot
           ckey == [id |-> s.id, pot |-> s.pot]
           class == IF ckey \in DOMAIN t.cb THEN t.cb[ckey] ELSE t.coinbases[s.id]
           c == CHOOSE r \in Readings(t, s) : TRUE
<1>1. Sound(t)
  BY SMTT(30), AbsorbSound DEF SlotInv
<1>2. CASE slot' \in {t, forget_coinbase(t, s.id)} /\ UNCHANGED <<verdict, paid>>
  BY <1>1, <1>2, ForgetSound DEF SlotInv
<1>3. CASE /\ s.id \in DOMAIN t.coinbases /\ Readings(t, s) # {}
           /\ slot' = [t EXCEPT !.h2 = Bounded(@, HKey(s, c), H2(t, s, c), MaxH2),
                                !.includes = {c},
                                !.cb = IF ckey \in DOMAIN @ THEN @ ELSE Bounded(@, ckey, class, MaxCb)]
           /\ verdict' = [hashed |-> H2(t, s, c), parsed |-> class, class |-> t.coinbases[s.id],
                          commitment |-> Header(t.job, t.coinbases[s.id], s.pot, s.stamp, c)]
           /\ paid' = paid \cup {[hash |-> <<s.ground, s.level>>, work |-> work(class, s)]}
  <2>1. class = t.coinbases[s.id]
    <3>1. ckey.id = s.id
      BY SMTT(30)
    <3>2. ckey \in DOMAIN t.cb => t.cb[ckey] = t.coinbases[ckey.id]
      BY <1>1 DEF Sound, CachesFresh
    <3> HIDE DEF t, ckey
    <3> QED
      BY <3>1, <3>2
  <2>2. H2(t, s, c) = Header(t.job, t.coinbases[s.id], s.pot, s.stamp, c)
    BY <1>1, <1>3, HashesTheHeader
  <2>3. H2(t, s, c) = s.ground
    <3>1. c \in Readings(t, s)
      BY <1>3
    <3> QED
      BY <3>1 DEF Readings, meets_target
  <2>4. Sound(slot')
    <3>1. slot' = Remembered(t, s, c)
      BY <1>3, <2>1 DEF Remembered
    <3> QED
      BY <1>1, <1>3, <3>1, VerifiedSound
  <2>5. verdict'.commitment = verdict'.hashed /\ verdict'.parsed = verdict'.class
    BY SMTT(30), <1>3, <2>1, <2>2
  <2>6. Trusted \/ work(class, s) = Earns(s.ground, s.level)
    BY ZenonT(30), <2>1, <2>2, <2>3, WorkIsEarned
  <2>7. Trusted \/ \A p \in paid' : p.work = Earns(p.hash[1], p.hash[2])
    <3> HIDE DEF t, ckey, class, c
    <3> QED
      BY <1>3, <2>6 DEF SlotInv
  <2> QED
    BY <2>4, <2>5, <2>7 DEF SlotInv
<1> QED
  BY <1>2, <1>3 DEF Pow

(* The inductive invariant.                                                *)
LEMMA CachesStayTrue == SlotSpec => []SlotInv
<1>1. SlotInit => SlotInv
  <2> SUFFICES ASSUME SlotInit PROVE SlotInv
    OBVIOUS
  <2>1. slot = Unset /\ verdict = NoVerdict /\ paid = {}
    BY DEF SlotInit
  <2>2. Sound(slot)
    BY Zenon, <2>1, EmptySound DEF Unset
  <2>3. verdict.commitment = verdict.hashed /\ verdict.parsed = verdict.class
    BY <2>1 DEF NoVerdict
  <2> QED
    BY <2>1, <2>2, <2>3 DEF SlotInv
<1>2. SlotInv /\ [SlotNext]_slotVars => SlotInv'
  <2> SUFFICES ASSUME SlotInv, [SlotNext]_slotVars PROVE SlotInv'
    OBVIOUS
  <2>1. ASSUME NEW s \in Submits, NEW over \in BOOLEAN, Pow(s, over)
        PROVE  SlotInv'
    BY <2>1, PowStep
  <2>2. CASE EvictSections
    BY <2>2, EvictSound DEF EvictSections, SlotInv
  <2>3. CASE UNCHANGED slotVars
    BY <2>3 DEF slotVars, SlotInv
  <2> QED
    BY <2>1, <2>2, <2>3 DEF SlotNext
<1> QED
  BY <1>1, <1>2, PTL DEF SlotSpec

(* What is credited, checked against the split and made into a block is    *)
(* the header and the coinbase that were hashed, and the caches keep their *)
(* limits (HeaderIsHashed).                                                *)
THEOREM CreditedIsHashed == SlotSpec => []HeaderIsHashed
<1>1. SlotInv => HeaderIsHashed
  BY DEF SlotInv, Sound, Fits, HeaderIsHashed
<1> QED
  BY <1>1, CachesStayTrue, PTL

(* From a gateway that is not trusted with its claims, the same hash earns *)
(* the same work however often and under whatever claim it is sent         *)
(* (HashFixesCredit).                                                      *)
THEOREM CreditFollowsHash == SlotSpec => []HashFixesCredit
<1>1. SlotInv => HashFixesCredit
  BY DEF SlotInv, HashFixesCredit
<1> QED
  BY <1>1, CachesStayTrue, PTL
=============================================================================
