----------------------------- MODULE RespCache ------------------------------
(***************************************************************************)
(* The response cache of the pool's web server: cached().  A request gets  *)
(* a fresh copy, an older one while a helper thread rebuilds it, or builds *)
(* the payload itself under one of a few compute locks that all keys       *)
(* share.  Builders ask the cache for other keys, and may never return.    *)
(***************************************************************************)
EXTENDS Naturals, Sequences, FiniteSets

CONSTANTS Key, Reader,
          Stripe,       \* key -> its lock among _cache_compute_locks
          Reads,        \* key -> the keys its builder asks the cache for
          Slots,        \* _BG_REFRESH
          MaxCopies     \* _RESP_CACHE_MAX; what goes at the limit is one copy

VARIABLES copy,         \* _resp_cache: key -> how old its copy is, if there is one
          refreshing,   \* _cache_refreshing
          slots,        \* the value of _BG_REFRESH
          holder,       \* compute lock -> the thread that holds it
          stack         \* thread -> its calls of cached(), the outermost first

vars == <<copy, refreshing, slots, holder, stack>>

\* Requests run in readers; the helper that rebuilds k in the background is named k.
Thread == Reader \cup Key

Free == "free"
AllStripes == {Stripe[k] : k \in Key}

Init ==
  /\ copy = [k \in Key |-> "none"]
  /\ refreshing = {}
  /\ slots = Slots
  /\ holder = [l \in AllStripes |-> Free]
  /\ stack = [t \in Thread |-> <<>>]

Running(t) == stack[t] # <<>>
Top(t) == stack[t][Len(stack[t])]
At(t, pc) == Running(t) /\ Top(t).at = pc
Popped(t) == SubSeq(stack[t], 1, Len(stack[t]) - 1)
Moved(t, pc) == [stack EXCEPT ![t][Len(stack[t])].at = pc]
Frame(k, pc) == [key |-> k, at |-> pc, reads |-> Reads[k], locked |-> FALSE]

\* _cache_tls.building at the innermost call: the builders around it that cached() runs.
\* _bg runs its own without counting it.
depth(t) == Len(stack[t]) - (IF t \in Key THEN 2 ELSE 1)

\* Fresh: younger than the TTL.  Stale: may stand in while it is rebuilt.  Old: past
\* max(ttl * _STALE_TTLS, _STALE_FLOOR_S).
Ages(k) ==
  /\ \/ copy[k] = "fresh" /\ copy' = [copy EXCEPT ![k] = "stale"]
     \/ copy[k] = "stale" /\ copy' = [copy EXCEPT ![k] = "old"]
  /\ UNCHANGED <<refreshing, slots, holder, stack>>

\* The first section under _resp_cache_lock: a copy that needs no more is returned.
AfterLookup(k) ==
  CASE copy[k] = "fresh" -> "return"
    [] copy[k] = "stale" -> IF k \in refreshing THEN "return" ELSE "slot"
    [] OTHER -> "lock"

Calls(t, k, below) ==
  /\ stack' = [stack EXCEPT ![t] =
       IF AfterLookup(k) = "return" THEN below ELSE Append(below, Frame(k, AfterLookup(k)))]
  /\ UNCHANGED <<copy, refreshing, slots, holder>>

Request(t, k) == ~Running(t) /\ Calls(t, k, <<>>)

\* A builder asks for another key.
Nested(t, k) ==
  /\ At(t, "build") /\ k \in Top(t).reads
  /\ Calls(t, k, [stack[t] EXCEPT ![Len(stack[t])].reads = @ \ {k}])

\* _BG_REFRESH.acquire(blocking=False); without a slot the stale copy goes out.
TakeSlot(t) ==
  /\ At(t, "slot")
  /\ \/ slots > 0 /\ slots' = slots - 1 /\ stack' = Moved(t, "claim")
     \/ slots = 0 /\ slots' = slots /\ stack' = [stack EXCEPT ![t] = Popped(t)]
  /\ UNCHANGED <<copy, refreshing, holder>>

\* Mutation: the key is not looked up again once there is a slot.
MayStart_unchecked(k) == TRUE

MayStart(k) == k \notin refreshing

\* The helper is started, or another got there first and the slot goes back.
Claim(t) ==
  LET k == Top(t).key
  IN /\ At(t, "claim")
     /\ refreshing' = refreshing \cup {k}
     /\ slots' = IF MayStart(k) THEN slots ELSE slots + 1
     /\ stack' = [u \in Thread |-> CASE u = t -> Popped(t)
                                     [] u = k /\ MayStart(k) -> <<Frame(k, "build")>>
                                     [] OTHER -> stack[u]]
     /\ UNCHANGED <<copy, holder>>

\* Mutation: a nested call waits for the lock like any other.
Waits_nested(t) == holder[Stripe[Top(t).key]] # Free

\* Only a call that is not nested waits for a compute lock.
Waits(t) == depth(t) = 0 /\ holder[Stripe[Top(t).key]] # Free

\* The lock is taken, or a nested call goes on without it; a copy that is fresh by now
\* is returned.
Lock(t) ==
  LET l == Stripe[Top(t).key]
      got == holder[l] = Free
      fresh == copy[Top(t).key] = "fresh"
  IN /\ At(t, "lock") /\ ~Waits(t)
     /\ holder' = IF got /\ ~fresh THEN [holder EXCEPT ![l] = t] ELSE holder
     /\ stack' = IF fresh THEN [stack EXCEPT ![t] = Popped(t)]
                 ELSE [stack EXCEPT ![t][Len(stack[t])] = [@ EXCEPT !.at = "build", !.locked = got]]
     /\ UNCHANGED <<copy, refreshing, slots>>

\* _COMPUTE_WAIT_S is over: the last good copy goes out, or CacheBusy.
GivesUp(t) ==
  /\ At(t, "lock") /\ depth(t) = 0 /\ Waits(t)
  /\ stack' = [stack EXCEPT ![t] = Popped(t)]
  /\ UNCHANGED <<copy, refreshing, slots, holder>>

Present == {k \in Key : copy[k] # "none"}

Age == [fresh |-> 0, stale |-> 1, old |-> 2]

\* _cache_store: at the limit one of the oldest goes first.
Stored(k) ==
  LET oldest == {j \in Present : \A i \in Present : Age[copy[i]] <= Age[copy[j]]}
      gone == IF Cardinality(Present) >= MaxCopies THEN {{j} : j \in oldest} ELSE {{}}
  IN {[j \in Key |-> IF j = k THEN "fresh" ELSE IF j \in g THEN "none" ELSE copy[j]] : g \in gone}

\* The builder is done: it returned a payload, or raised.  A helper gives its slot back
\* in either case (finally), a reader its lock.
Leave(t) ==
  /\ stack' = IF Len(stack[t]) = 1 /\ t \in Key THEN Moved(t, "discard")
              ELSE [stack EXCEPT ![t] = Popped(t)]
  /\ slots' = IF Len(stack[t]) = 1 /\ t \in Key THEN slots + 1 ELSE slots
  /\ holder' = IF Top(t).locked THEN [holder EXCEPT ![Stripe[Top(t).key]] = Free] ELSE holder
  /\ UNCHANGED refreshing

BuildReturns(t) == At(t, "build") /\ copy' \in Stored(Top(t).key) /\ Leave(t)

BuildRaises(t) == At(t, "build") /\ Leave(t) /\ UNCHANGED copy

\* A builder that never returns.
BuildHangs(t) ==
  /\ At(t, "build")
  /\ stack' = Moved(t, "hung")
  /\ UNCHANGED <<copy, refreshing, slots, holder>>

\* The last of _bg.
Discard(t) ==
  /\ At(t, "discard")
  /\ refreshing' = refreshing \ {t}
  /\ stack' = [stack EXCEPT ![t] = <<>>]
  /\ UNCHANGED <<copy, slots, holder>>

Step(t) ==
  \/ \E k \in Key : Nested(t, k)
  \/ TakeSlot(t) \/ Claim(t) \/ Lock(t) \/ GivesUp(t)
  \/ BuildReturns(t) \/ BuildRaises(t) \/ Discard(t)

Next ==
  \/ \E k \in Key : Ages(k)
  \/ \E r \in Reader, k \in Key : Request(r, k)
  \/ \E t \in Thread : Step(t) \/ BuildHangs(t)

\* Threads keep running, and lock.acquire(timeout=...) returns; a builder may hang.
Fairness == \A t \in Thread : WF_vars(Step(t))

Spec == Init /\ [][Next]_vars /\ Fairness

-----------------------------------------------------------------------------
Hung(t) == At(t, "hung")

\* A slot is free, or with a request that has yet to use it, or with a helper; and a key
\* is marked while its helper lives.
SlotsExact ==
  /\ slots + Cardinality({t \in Thread : At(t, "claim")})
           + Cardinality({k \in Key : Running(k) /\ ~At(k, "discard")}) = Slots
  /\ refreshing = {k \in Key : Running(k)}

\* "A thread therefore only ever waits for a compute lock while it holds none", "a
\* builder that never returns costs each request this long and no more" (cached): every
\* request is answered unless its own builder hangs, whatever locks and slots the hung
\* ones keep and however keys share locks; and no refresh slot is lost or lent twice.
RequestsAnswered ==
  /\ []SlotsExact
  /\ \A r \in Reader : Running(r) ~> (~Running(r) \/ Hung(r))
=============================================================================
