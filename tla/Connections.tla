---------------------------- MODULE Connections -----------------------------
(***************************************************************************)
(* state::Connections and the accept loop: how many DATUM sessions there   *)
(* may be, in all and per remote address.  Several addresses count as one  *)
(* (an IPv6 /64; an IPv4 address plain or mapped), and the last places are *)
(* kept for loopback, where the pool's own gateway connects from.  A       *)
(* session gives its place back when its task ends, panicking or not.      *)
(***************************************************************************)
EXTENDS Integers, FiniteSets, FiniteSetsExt, Functions

CONSTANTS Host,        \* remote addresses
          Loopback,    \* those that are loopback
          Network,     \* address -> what it is counted as
          MaxTotal, MaxPerIp   \* max_connections, max_connections_per_ip

ASSUME DoorAssumption ==
  IsFiniteSet(Host) /\ Loopback \subseteq Host /\ MaxTotal \in Nat /\ MaxPerIp \in Nat

VARIABLES per_ip,   \* counted address -> sessions, for those that have any
          total,
          peers     \* address -> its sessions

doorVars == <<per_ip, total, peers>>

DoorInit == per_ip = [k \in {} |-> 0] /\ total = 0 /\ peers = [h \in Host |-> 0]

key(h) == Network[h]

Count(h) == IF key(h) \in DOMAIN per_ip THEN per_ip[key(h)] ELSE 0

reserved == Min({MaxTotal \div 8, 2})

Admissible(h) ==
  /\ total < MaxTotal - (IF h \in Loopback THEN 0 ELSE reserved)
  /\ Count(h) < MaxPerIp

\* The accept loop: admit, then the session's task.
Admit(h) ==
  /\ Admissible(h)
  /\ per_ip' = [k \in DOMAIN per_ip \cup {key(h)} |-> IF k = key(h) THEN Count(h) + 1 ELSE per_ip[k]]
  /\ total' = total + 1
  /\ peers' = [peers EXCEPT ![h] = @ + 1]

\* Mutation: the count is kept under the exact address.
release_exact(h) ==
  /\ per_ip' = IF h \in DOMAIN per_ip THEN [per_ip EXCEPT ![h] = @ - 1] ELSE per_ip
  /\ total' = total - 1

release(h) ==
  /\ per_ip' = IF Count(h) <= 1 THEN [k \in DOMAIN per_ip \ {key(h)} |-> per_ip[k]]
               ELSE [per_ip EXCEPT ![key(h)] = @ - 1]
  /\ total' = IF total > 0 THEN total - 1 ELSE 0

\* A session ends: ConnectionSlot is dropped.
SessionEnds(h) ==
  /\ peers[h] > 0
  /\ peers' = [peers EXCEPT ![h] = @ - 1]
  /\ release(h)

DoorNext == \E h \in Host : Admit(h) \/ SessionEnds(h)

DoorSpec == DoorInit /\ [][DoorNext]_doorVars

-----------------------------------------------------------------------------
Live(S) == SumFunction([h \in S |-> peers[h]])

(* The counts are those of the sessions there are, whatever forms of an    *)
(* address they came and went under, and however many strangers hold a     *)
(* place, loopback still gets the places kept for it (key, admit, release).*)
PlacesCounted ==
  /\ total = Live(Host) /\ total <= MaxTotal
  /\ \A h \in Host : Count(h) = Live({g \in Host : key(g) = key(h)}) /\ Count(h) <= MaxPerIp
  /\ \A h \in Loopback : (Live(Loopback) < reserved /\ Count(h) < MaxPerIp) => Admissible(h)
=============================================================================
