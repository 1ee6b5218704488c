----------------------------- MODULE MCVerdicts -----------------------------
(***************************************************************************)
(* What asks another and must get an answer to act on: the pool about its  *)
(* own found blocks (ConfirmBlocks) and about the parents of other work    *)
(* (ParentBook), and the web server's requests of its cache (RespCache).   *)
(* The three share no state: in each behaviour one of them moves, under    *)
(* its own fairness.                                                       *)
(***************************************************************************)
EXTENDS ConfirmBlocks

CONSTANTS Parent, Session, Real, MaxParents, Key, Reader, Slots, MaxCopies

VARIABLES node, book, asker, copy, refreshing, slots, holder, stack, moving

parentVars == <<node, book, asker>>

cacheVars == <<copy, refreshing, slots, holder, stack>>

P == INSTANCE ParentBook

\* The builder of pool reads overflow, which is on the same lock.
MCStripe == [pool |-> 1, overflow |-> 1]
MCReads == [pool |-> {"overflow"}, overflow |-> {}]

C == INSTANCE RespCache WITH Stripe <- MCStripe, Reads <- MCReads

all == <<vars, parentVars, cacheVars, moving>>

OfBlocks(A) == moving = "blocks" /\ A /\ UNCHANGED <<parentVars, cacheVars, moving>>

OfParents(A) == moving = "parents" /\ A /\ UNCHANGED <<vars, cacheVars, moving>>

OfCache(A) == moving = "cache" /\ A /\ UNCHANGED <<vars, parentVars, moving>>

\* The fairness of each module, of the steps of this one.
MCFairness ==
  /\ WF_all(OfBlocks(PassStarts))
  /\ \A b \in Block : SF_all(OfBlocks(Answered(b)))
  /\ \A p \in Real : /\ WF_all(OfParents(P!Ages(p))) /\ WF_all(OfParents(P!RecheckDue(p)))
                     /\ SF_all(OfParents(P!AskAbout(p)))
                     /\ SF_all(OfParents(\E s \in Session : asker[s].prev = p /\ P!NodeAnswers(s)))
  /\ \A s \in Session : /\ WF_all(OfParents(P!Record(s)))
                        /\ WF_all(OfParents(P!NodeAnswers(s) \/ P!CallFails(s)))
  /\ \A t \in Reader \cup Key : WF_all(OfCache(C!Step(t)))

MCInit == Init /\ P!Init /\ C!Init /\ moving \in {"blocks", "parents", "cache"}

MCSpec ==
  /\ MCInit
  /\ [][OfBlocks(Next) \/ OfParents(P!Next) \/ OfCache(C!Next)]_all
  /\ MCFairness

\* A found block is settled or called an orphan in the end, and settled while the node has
\* it in its main chain (confirm_blocks).
RecordsDecided == MainIsSettled /\ EveryRecordDecided

\* A parent the node has for good is not refused for good.
ValidIsTaken == P!ValidIsTaken

\* A parent the node called invalid stays so while the book holds it, and one the node
\* never gets is refused in the end.
DeadIsRefused == P!DeadIsRefused

\* Every request of the web server is answered unless its own builder hangs, and no
\* refresh slot is lost or lent twice (cached).
RequestsAnswered == C!RequestsAnswered
=============================================================================
