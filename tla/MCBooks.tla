------------------------------ MODULE MCBooks -------------------------------
(***************************************************************************)
(* The books of primed that share no state with each other: the accounts,  *)
(* the rebate, the grace clocks, the worker names, a job slot and the      *)
(* connection counts.  In each behaviour one of them moves and the others  *)
(* stay as they begin, which reaches every state each of them can be in.   *)
(***************************************************************************)
EXTENDS Accounts, RebateBook, GraceBook, WorkerBook, JobSlot, Connections

CONSTANTS MaxClaim,  \* bound: no identity's claim leaves -MaxClaim..MaxClaim
          MaxRebates \* bound: candidates and blocks of the chain together

VARIABLE moving

\* A solo block: half its value is more than it paid the pool.
MCSoloBlock == {[kind |-> "solo", value |-> 4, pool |-> 1]}

MCNetwork == [four |-> "four", mapped |-> "four", six |-> "net", other |-> "net", loop |-> "loop",
              mappedLoop |-> "loop"]

\* One state of each book to stay in.
MCInit ==
  /\ moving \in {"accounts", "rebate", "grace", "workers", "slot", "door"}
  /\ Init /\ RebateInit /\ GraceInit /\ WorkerInit /\ SlotInit /\ DoorInit
  /\ moving # "accounts" => acct = [i \in Ident |-> [carry |-> 0, debt |-> 0]]
  /\ moving # "rebate" => cursor = 0

MCNext ==
  /\ \/ /\ moving = "accounts" /\ Next
        /\ UNCHANGED <<rebateVars, graceVars, workerVars, slotVars, doorVars>>
     \/ /\ moving = "rebate" /\ RebateNext
        /\ UNCHANGED <<vars, graceVars, workerVars, slotVars, doorVars>>
     \/ /\ moving = "grace" /\ GraceNext
        /\ UNCHANGED <<vars, rebateVars, workerVars, slotVars, doorVars>>
     \/ /\ moving = "workers" /\ WorkerNext
        /\ UNCHANGED <<vars, rebateVars, graceVars, slotVars, doorVars>>
     \/ /\ moving = "slot" /\ SlotNext
        /\ UNCHANGED <<vars, rebateVars, graceVars, workerVars, doorVars>>
     \/ /\ moving = "door" /\ DoorNext
        /\ UNCHANGED <<vars, rebateVars, graceVars, workerVars, slotVars>>
  /\ UNCHANGED moving

MCSpec == MCInit /\ [][MCNext]_<<moving, vars, rebateVars, graceVars, workerVars, slotVars, doorVars>>

\* What a job or a coinbase id is called makes no difference to the slot.
Symmetric == Permutations(SlotJob) \cup Permutations(CbId)

ClaimBound == \A i \in Ident : claim[i] \in -MaxClaim .. MaxClaim

RebateBound == Cardinality({b \in Found : issued[b].made}) + Len(buried) <= MaxRebates
=============================================================================
