------------------------------ MODULE Overflow ------------------------------
(***************************************************************************)
(* The network-share overflow of lazarus-gateway (overflow.rs): the valve  *)
(* the meter thread moves, the tables of miners that are ours or are not   *)
(* worth relaying and the file behind them, the gate every new session     *)
(* passes while the valve is open, and the relay of the others to another  *)
(* pool, whose two directions are two threads.                             *)
(*                                                                         *)
(* A connection is a miner at one address that comes back after it hangs   *)
(* up; its name is one identity, or one no pool can pay.  Time is what may *)
(* have passed: an entry may be past its time at any moment, and a relay   *)
(* that ends may or may not have been short.  Totals that are only         *)
(* reported are left out.                                                  *)
(***************************************************************************)
EXTENDS Integers, Sequences, FiniteSets, SequencesExt

CONSTANTS Conn,                 \* miners, each at an address of its own
          Ident,                \* payable identities
          Unpayable,            \* a name that is none
          Names,                \* who the miners may be: names, by connection
          Window,               \* identities Prime's stats may list
          Known,                \* identities in the file at the first start
          Upstream,
          Modes,                \* modes the admin uses
          hold_polls, GRANDFATHER_MAX, CHURN_LOCAL_AFTER, MAX_PENDING_SUBMITS,
          MaxSubmit             \* bound: shares sent in one relay

ASSUME OverflowAssumption ==
  /\ Names \subseteq [Conn -> Ident \cup {Unpayable}] /\ Unpayable \notin Ident
  /\ Window \subseteq Ident /\ Known \subseteq Ident
  /\ Modes \subseteq {"off", "shadow", "auto", "force"} /\ Modes # {}
  /\ {hold_polls, MaxSubmit} \subseteq Nat
  /\ {CHURN_LOCAL_AFTER, MAX_PENDING_SUBMITS, GRANDFATHER_MAX} \subseteq Nat \ {0}

VARIABLES name,                 \* the name each miner authorizes with
          mode, active, hold,   \* the valve
          grandfather,          \* identities and addresses that are ours
          dirty,                \* it changed since it was last written
          file,                 \* the file it is written to
          unpayable,            \* unpayable_ips
          churn,                \* churn_ips: relays that died, per address
          healthy,              \* upstreams believed up
          sessions,             \* relays counted per upstream
          proxied,              \* connections with a row among the relays
          conn,                 \* what each connection's thread is doing
          relay                 \* shares of its relay

valve  == <<mode, active, hold>>
tables == <<grandfather, dirty, unpayable, churn>>
lines  == <<proxied, conn, relay>>
vars   == <<name, valve, tables, file, healthy, sessions, lines>>

Away     == [at |-> "away", tries |-> 0, up |-> "", named |-> FALSE]
NoRelay  == [submits |-> 0, noted |-> 0, pending |-> <<>>, flight |-> {}]
At(at)   == [Away EXCEPT !.at = at]

Init ==
  /\ name \in Names
  /\ mode \in Modes /\ active = FALSE /\ hold = 0
  /\ file = [idents |-> Known, ips |-> {}] /\ grandfather = file /\ dirty = FALSE
  /\ unpayable = {} /\ churn = [c \in Conn |-> 0]
  /\ healthy = Upstream /\ sessions = [u \in Upstream |-> 0]
  /\ proxied = {} /\ conn = [c \in Conn |-> Away] /\ relay = [c \in Conn |-> NoRelay]

-----------------------------------------------------------------------------
(* The valve and the tables.                                               *)

\* One step of the valve, on a share of the network that argues for opening it
\* ("high"), for closing it ("low") or for neither.
hysteresis(share) ==
  LET want_flip == share = IF active THEN "low" ELSE "high"
      most      == IF hold_polls > 1 THEN hold_polls ELSE 1
  IN  CASE ~want_flip                        -> <<active, 0>>
        [] want_flip /\ hold + 1 >= most     -> <<~active, 0>>
        [] want_flip /\ hold + 1 < most      -> <<active, hold + 1>>

note_ident(g, who) ==
  IF Cardinality(g.idents) < GRANDFATHER_MAX \/ who \in g.idents
  THEN [g EXCEPT !.idents = @ \cup {who}] ELSE g

note_ip(g, c) ==
  IF Cardinality(g.ips) < GRANDFATHER_MAX \/ c \in g.ips
  THEN [g EXCEPT !.ips = @ \cup {c}] ELSE g

\* A poll of the meter.  Prime's stats may be missing, or list some identities of
\* its window; without the node's estimate the valve stays as it is.
Tick(listed, share) ==
  /\ LET next == IF share = "unknown" THEN <<active, hold>> ELSE hysteresis(share)
     IN  active' = next[1] /\ hold' = next[2]
  /\ grandfather' = FoldSet(LAMBDA who, g : note_ident(g, who), grandfather, listed)
  /\ dirty' = (dirty \/ listed # {})
  /\ UNCHANGED <<name, mode, unpayable, churn, file, healthy, sessions, lines>>

\* The meter thread writes the tables out.  A write that fails is not repeated
\* before the next change.
save ==
  /\ dirty /\ dirty' = FALSE
  /\ file' \in {grandfather, file}
  /\ UNCHANGED <<name, valve, grandfather, unpayable, churn, healthy, sessions, lines>>

set_mode(m) ==
  /\ m # mode /\ mode' = m
  /\ UNCHANGED <<name, active, hold, tables, file, healthy, sessions, lines>>

\* An entry is past its time: has_ident and has_ip say no, prune drops it.
Expire ==
  /\ \/ \E who \in grandfather.idents :
          /\ grandfather' = [grandfather EXCEPT !.idents = @ \ {who}]
          /\ UNCHANGED <<unpayable, churn>>
     \/ \E c \in grandfather.ips :
          /\ grandfather' = [grandfather EXCEPT !.ips = @ \ {c}]
          /\ UNCHANGED <<unpayable, churn>>
     \/ \E c \in unpayable :
          /\ unpayable' = unpayable \ {c}
          /\ UNCHANGED <<grandfather, churn>>
     \/ \E c \in Conn :
          /\ churn[c] > 0 /\ churn' = [churn EXCEPT ![c] = 0]
          /\ UNCHANGED <<grandfather, unpayable>>
  /\ UNCHANGED <<name, valve, dirty, file, healthy, sessions, lines>>

\* The health thread's probe of one upstream.
Probe(u) ==
  /\ healthy' \in {healthy \cup {u}, healthy \ {u}} \ {healthy}
  /\ UNCHANGED <<name, valve, tables, file, sessions, lines>>

\* The gateway stops and is started again: the valve is closed, the tables are
\* the file's, and every upstream is taken to be up.
Restart ==
  /\ active' = FALSE /\ hold' = 0 /\ mode' \in Modes
  /\ grandfather' = file /\ dirty' = FALSE /\ unpayable' = {}
  /\ churn' = [c \in Conn |-> 0]
  /\ healthy' = Upstream /\ sessions' = [u \in Upstream |-> 0]
  /\ proxied' = {} /\ conn' = [c \in Conn |-> Away]
  /\ relay' = [c \in Conn |-> NoRelay]
  /\ UNCHANGED <<name, file>>

-----------------------------------------------------------------------------
(* The gate, at a session's first subscribe.                               *)

considering == mode = "force" \/ (mode \in {"auto", "shadow"} /\ active)

\* What becomes of a miner that may be one of ours, with some upstream to go to.
decide(ours) ==
  LET on == mode = "force" \/ (mode # "off" /\ active)
  IN  CASE ~on \/ ours                    -> "local"
        [] on /\ ~ours /\ mode = "shadow" -> "local"
        [] on /\ ~ours /\ mode # "shadow" -> "dial"

\* What is known of an address or a name.
ip_grandfathered(c) == c \in grandfather.ips
ident_grandfathered(who) == who \in grandfather.idents
ip_unpayable(c) == c \in unpayable
ip_churned(c) == churn[c] >= CHURN_LOCAL_AFTER

note_unpayable_ip(c) == unpayable' = unpayable \cup {c}

\* Relays of the address that died young are counted as far as it matters.
note_churn_ip(c) == churn' = [churn EXCEPT ![c] = IF @ < CHURN_LOCAL_AFTER THEN @ + 1 ELSE @]

Moves(c, to) ==
  /\ conn' = [conn EXCEPT ![c] = to]
  /\ UNCHANGED <<name, valve, file, proxied, relay>>

\* A miner connects and subscribes: served here at once unless the valve is open
\* and nothing is known of its address.
Subscribe(c) ==
  /\ conn[c].at = "away"
  /\ LET known == ip_grandfathered(c) \/ ip_unpayable(c) \/ ip_churned(c)
     IN  Moves(c, At(IF considering /\ ~known THEN "gate" ELSE "local"))
  /\ UNCHANGED <<tables, healthy, sessions>>

\* The wait for the authorize ends: with the name, without it, or with the miner
\* gone.  The valve is read again, after the wait.
GateEnds(c, heard) ==
  /\ conn[c].at = "gate"
  /\ LET ours == heard = "name" /\ ident_grandfathered(name[c])
         to   == IF heard = "gone" \/ (heard = "name" /\ name[c] = Unpayable)
                 THEN "local" ELSE decide(ours)
     IN  Moves(c, [At(to) EXCEPT !.named = to = "dial" /\ heard = "name"])
  /\ UNCHANGED <<tables, healthy, sessions>>

\* The upstreams pick may return: healthy ones with the least sessions.  Which of
\* several equal ones it is depends on the round-robin counter.
Least == {u \in healthy : \A v \in healthy : sessions[u] <= sessions[v]}

\* connect_choice: choose an upstream, then connect to it.  A failure marks it down
\* and tries again, as often as there are upstreams; with none left to choose the
\* miner is served here.
Choose(c) ==
  /\ conn[c].at = "dial" /\ conn[c].up = ""
  /\ \/ \E u \in Least : Moves(c, [conn[c] EXCEPT !.up = u])
     \/ Least = {} /\ Moves(c, At("local"))
  /\ UNCHANGED <<tables, healthy, sessions>>

ConnectFails(c) ==
  /\ conn[c].at = "dial" /\ conn[c].up # ""
  /\ healthy' = healthy \ {conn[c].up}
  /\ Moves(c, IF conn[c].tries + 1 < Cardinality(Upstream)
              THEN [conn[c] EXCEPT !.tries = @ + 1, !.up = ""] ELSE At("local"))
  /\ UNCHANGED <<tables, sessions>>

Relayed(c) ==
  /\ conn[c].at = "dial" /\ conn[c].up # ""
  /\ conn' = [conn EXCEPT ![c] = [@ EXCEPT !.at = "relay", !.tries = 0]]
  /\ proxied' = proxied \cup {c}
  /\ sessions' = [sessions EXCEPT ![conn[c].up] = @ + 1]
  /\ UNCHANGED <<name, valve, tables, file, healthy, relay>>

-----------------------------------------------------------------------------
(* A relay.  The session's thread carries the miner's lines up; a second   *)
(* one carries the upstream's lines down.                                  *)

\* The relay is over: the guard takes back its row and its place.
Dropped(c) ==
  /\ conn' = [conn EXCEPT ![c] = Away]
  /\ relay' = [relay EXCEPT ![c] = NoRelay]
  /\ proxied' = proxied \ {c}
  /\ sessions' = [sessions EXCEPT ![conn[c].up] = @ - 1]
  /\ UNCHANGED <<name, valve, file, healthy>>

\* Either side closes, or the miner sends lines too fast.  A short relay without a
\* share counts against the address.
RelayEnds(c, short) ==
  /\ conn[c].at = "relay"
  /\ IF short /\ relay[c].submits = 0 THEN note_churn_ip(c) ELSE UNCHANGED churn
  /\ Dropped(c)
  /\ UNCHANGED <<grandfather, dirty, unpayable>>

\* Mutation: one of ours is sent home unmarked.
MidAuthorize_unmarked(c) ==
  /\ conn[c].at = "relay" /\ ~conn[c].named /\ relay[c].noted = 0
  /\ \/ /\ ident_grandfathered(name[c])
        /\ Dropped(c)
        /\ UNCHANGED tables
     \/ /\ name[c] = Unpayable
        /\ note_unpayable_ip(c)
        /\ Dropped(c)
        /\ UNCHANGED <<grandfather, dirty, churn>>
     \/ /\ name[c] \notin grandfather.idents \cup {Unpayable}
        /\ Moves(c, [conn[c] EXCEPT !.named = TRUE])
        /\ UNCHANGED <<tables, healthy, sessions>>

\* The first authorize through the relay, of a miner that had not been named.  One
\* of ours is marked by its address and sent home; a name no pool can pay ends the
\* relay; any other is passed on.
MidAuthorize(c) ==
  /\ conn[c].at = "relay" /\ ~conn[c].named /\ relay[c].noted = 0
  /\ \/ /\ ident_grandfathered(name[c])
        /\ grandfather' = note_ip(grandfather, c) /\ dirty' = TRUE
        /\ Dropped(c)
        /\ UNCHANGED <<unpayable, churn>>
     \/ /\ name[c] = Unpayable
        /\ note_unpayable_ip(c)
        /\ Dropped(c)
        /\ UNCHANGED <<grandfather, dirty, churn>>
     \/ /\ name[c] \notin grandfather.idents \cup {Unpayable}
        /\ Moves(c, [conn[c] EXCEPT !.named = TRUE])
        /\ UNCHANGED <<tables, healthy, sessions>>

\* Mutation: with too many pending the new share is not noted.
note_submit_full(r) ==
  [r EXCEPT !.submits = @ + 1, !.noted = r.submits + 1,
            !.pending = IF Len(@) >= MAX_PENDING_SUBMITS THEN @ ELSE Append(@, r.submits + 1)]

\* A share on its way up is noted, the oldest pending one forgotten when there are
\* too many, and then written to the upstream.
note_submit(r) ==
  LET q == IF Len(r.pending) >= MAX_PENDING_SUBMITS THEN Tail(r.pending) ELSE r.pending
  IN  [r EXCEPT !.submits = @ + 1, !.pending = Append(q, r.submits + 1),
                !.noted = r.submits + 1]

NoteSubmit(c) ==
  /\ conn[c].at = "relay" /\ conn[c].named
  /\ relay[c].noted = 0 /\ relay[c].submits < MaxSubmit
  /\ relay' = [relay EXCEPT ![c] = note_submit(@)]
  /\ UNCHANGED <<name, valve, tables, file, healthy, sessions, proxied, conn>>

WriteUp(c) ==
  /\ relay[c].noted # 0
  /\ relay' = [relay EXCEPT ![c] = [@ EXCEPT !.noted = 0, !.flight = @ \cup {relay[c].noted}]]
  /\ UNCHANGED <<name, valve, tables, file, healthy, sessions, proxied, conn>>

\* The upstream answers a share.  It is a verdict if the share is pending.
note_reply(r, id) ==
  [r EXCEPT !.flight = @ \ {id}, !.pending = SelectSeq(@, LAMBDA p : p # id)]

Reply(c, id) ==
  /\ id \in relay[c].flight
  /\ relay' = [relay EXCEPT ![c] = note_reply(@, id)]
  /\ UNCHANGED <<name, valve, tables, file, healthy, sessions, proxied, conn>>

-----------------------------------------------------------------------------
(* A session served here.                                                  *)

\* An accepted share makes its miner ours.
note_share(c) ==
  /\ conn[c].at = "local" /\ name[c] # Unpayable
  /\ grandfather' = note_ip(note_ident(grandfather, name[c]), c) /\ dirty' = TRUE
  /\ UNCHANGED <<name, valve, unpayable, churn, file, healthy, sessions, lines>>

HangUp(c) ==
  /\ conn[c].at = "local" /\ Moves(c, Away)
  /\ UNCHANGED <<tables, healthy, sessions>>

Next ==
  \/ \E listed \in SUBSET Window, share \in {"high", "mid", "low", "unknown"} : Tick(listed, share)
  \/ save \/ Expire \/ Restart
  \/ \E m \in Modes : set_mode(m)
  \/ \E u \in Upstream : Probe(u)
  \/ \E c \in Conn :
       \/ Subscribe(c) \/ Choose(c) \/ ConnectFails(c) \/ Relayed(c)
       \/ \E heard \in {"name", "nothing", "gone"} : GateEnds(c, heard)
       \/ \E short \in BOOLEAN : RelayEnds(c, short)
       \/ MidAuthorize(c) \/ NoteSubmit(c) \/ WriteUp(c)
       \/ \E id \in relay[c].flight : Reply(c, id)
       \/ note_share(c) \/ HangUp(c)

Spec == Init /\ [][Next]_vars

\* A miner keeps coming back; the gate's wait and the connects end by their
\* timeouts; a miner whose subscribe keeps being answered names itself; and the
\* tables keep an entry, an hour to a day, far longer than a retry takes.  Nobody
\* restarts the gateway for ever.
FairSpec ==
  /\ Spec
  /\ \A c \in Conn :
       /\ WF_vars(Subscribe(c))
       /\ WF_vars(\E heard \in {"name", "nothing", "gone"} : GateEnds(c, heard))
       /\ WF_vars(Choose(c) \/ ConnectFails(c) \/ Relayed(c))
       /\ SF_vars(MidAuthorize(c))
  /\ <>[][~Expire /\ ~Restart]_vars

-----------------------------------------------------------------------------
(* Properties.                                                             *)

\* The books of the relays are exact at every step of every thread: the sessions an
\* upstream is charged with, by which pick balances, are the relays running to it,
\* each with its row; and a share the upstream has not answered is still pending,
\* so that its answer will count as a verdict, unless MAX_PENDING_SUBMITS later ones
\* pushed it out.
RelayBooks ==
  /\ \A u \in Upstream :
       sessions[u] = Cardinality({c \in Conn : conn[c].at = "relay" /\ conn[c].up = u})
  /\ proxied = {c \in Conn : conn[c].at = "relay"}
  /\ \A c \in Conn : \A id \in relay[c].flight :
       id > relay[c].submits - MAX_PENDING_SUBMITS => id \in Range(relay[c].pending)

\* "The miner's retry lands on Lazarus": a miner whose identity is ours, wherever it
\* connects from and however late it names itself, is served here again and again,
\* whatever the valve, the upstreams and the health checks do.
ComesHome ==
  \A c \in Conn : [](name[c] \in grandfather.idents) => []<>(conn[c].at = "local")
=============================================================================
