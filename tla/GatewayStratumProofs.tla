------------------------ MODULE GatewayStratumProofs ------------------------
(***************************************************************************)
(* The stratum side of the gateway, for any number of connections, sources,*)
(* identities, limits and restarts: slots are counted exactly, a miner is  *)
(* judged by what it was told, what was paid is remembered, and the book   *)
(* has no block the log lacks.                                             *)
(***************************************************************************)
EXTENDS GatewayStratum, FiniteSetTheorems, TLAPS

MinerFields == {"user", "vdiff", "prev", "diffs", "seen", "jobs", "flood", "low"}

\* A sequence of stamps, all with a difficulty of A.
Stamped(s, A) == s \in Seq(Range(s)) /\ \A q \in Range(s) : q[2] \in A

\* Whatever difficulty the session may be judged by is one of A.
JudgedIn(m, A) == m.vdiff \in A /\ m.prev \in A /\ Stamped(m.diffs, A)

\* What is so of a thread p, its session m, what its miner was told and paid, and the log.
Session(p, m, t, d, lg) ==
  /\ DOMAIN p = {"at", "tell", "solved"}
  /\ m = NoMiner \/ DOMAIN m = MinerFields
  /\ p.at \in {"none", "spawn"} => m = NoMiner
  /\ p.at # "after" => p.tell = {}
  /\ p.tell # {} => t # {}
  /\ p.at = "note" => HashOf(p.solved, MaxPot) \in lg
  /\ m = NoMiner => t = {} /\ d = <<>>
  /\ m # NoMiner => d = m.seen
  /\ m # NoMiner => Early \in t \/ JudgedIn(m, IF t = {} THEN {m.vdiff} ELSE t \cup p.tell)

SessionInv ==
  /\ DOMAIN pc = Conn /\ DOMAIN miners = Conn /\ DOMAIN told = Conn /\ DOMAIN paid = Conn
  /\ \A c \in Conn : Session(pc[c], miners[c], told[c], paid[c], log)

SlotInv ==
  /\ conns \in [total : Int, per_ip : [Ip -> Int]] /\ IsFiniteSet(live)
  /\ conns.total = Cardinality(live)
  /\ \A ip \in Ip : conns.per_ip[ip] = Cardinality({c \in live : IpOf[c] = ip})

\* The publisher knows sessions that are there.
CastInv ==
  /\ socks \subseteq {c \in Conn : miners[c] # NoMiner}
  /\ DOMAIN cast = {"at", "left", "ok", "dead"}
  /\ \A t \in cast.left \cup cast.ok : t.conn \in Conn /\ miners[t.conn] # NoMiner

Evidence(b, lg) == DOMAIN b = {"board", "finders", "blocks"} /\ b.blocks \in Seq(lg)

BookInv ==
  /\ Evidence(book, log)
  /\ file = Torn \/ Evidence(file, log)
  /\ tmp = Torn \/ Evidence(tmp, log)
  /\ DOMAIN saving = Saver
  /\ \A s \in Saver : /\ DOMAIN saving[s] = {"at", "body", "fd"}
                      /\ Evidence(saving[s].body, log)

\* A connection that saves the book does nothing else.
SaverInv == \A s \in Conn : s # Timer /\ saving[s].at # "rest" => pc[s].at = "save"

StratumInv == SessionInv /\ SlotInv /\ CastInv /\ BookInv /\ SaverInv

-----------------------------------------------------------------------------
(***************************************************************************)
(* Sequences cut to their newest.                                          *)
(***************************************************************************)
(* The newest of a sequence are a sequence of the same things.             *)
LEMMA NewestIn ==
  ASSUME NEW S, NEW s \in Seq(S), NEW n \in Nat
  PROVE  Newest(s, n) \in Seq(S)
<1>1. Len(s) \in Nat
  OBVIOUS
<1>2. CASE Len(s) > n
  BY <1>1, <1>2 DEF Newest
<1>3. CASE ~(Len(s) > n)
  BY <1>1, <1>3 DEF Newest
<1> QED
  BY <1>2, <1>3

(* A sequence is one of its own elements, which are of its element set.    *)
LEMMA OwnRange ==
  ASSUME NEW S, NEW s \in Seq(S)
  PROVE  s \in Seq(Range(s)) /\ Range(s) \subseteq S
<1>1. /\ Len(s) \in Nat /\ DOMAIN s = 1 .. Len(s)
      /\ \A i \in 1 .. Len(s) : s[i] \in S
  OBVIOUS
<1>2. \A i \in 1 .. Len(s) : s[i] \in Range(s)
  BY <1>1 DEF Range
<1>3. s \in [1 .. Len(s) -> Range(s)]
  BY <1>1, <1>2
<1>4. s \in Seq(Range(s))
  BY <1>1, <1>3
<1>5. Range(s) \subseteq S
  BY <1>1 DEF Range
<1> QED
  BY <1>4, <1>5

(* A job stamped with a difficulty of A leaves the stamps of A.            *)
LEMMA StampedMore ==
  ASSUME NEW s, NEW A, Stamped(s, A), NEW i, NEW d \in A, NEW n \in Nat
  PROVE  Stamped(Newest(Append(s, <<i, d>>), n), A)
<1> DEFINE S == Range(s) \cup {<<i, d>>}
           q == Newest(Append(s, <<i, d>>), n)
<1>1. \A p \in S : p[2] \in A
  BY DEF Stamped
<1>2. s \in Seq(S) /\ <<i, d>> \in S
  <2>1. s \in Seq(Range(s)) /\ Range(s) \subseteq S
    BY DEF Stamped
  <2> HIDE DEF S
  <2>2. Len(s) \in Nat /\ s \in [1 .. Len(s) -> Range(s)]
    BY <2>1
  <2>3. s \in [1 .. Len(s) -> S]
    BY <2>1, <2>2
  <2>4. s \in Seq(S)
    BY <2>2, <2>3
  <2> QED
    BY <2>4 DEF S
<1> HIDE DEF S
<1>3. Append(s, <<i, d>>) \in Seq(S)
  BY <1>2
<1>4. q \in Seq(S)
  BY <1>3, NewestIn
<1>5. q \in Seq(Range(q)) /\ Range(q) \subseteq S
  BY <1>4, OwnRange
<1> QED
  BY <1>1, <1>5 DEF Stamped

(* A wider set of difficulties has the same stamps.                        *)
LEMMA StampedWider ==
  ASSUME NEW s, NEW A, NEW B, A \subseteq B, Stamped(s, A)
  PROVE  Stamped(s, B)
  BY DEF Stamped

LEMMA JudgedWider ==
  ASSUME NEW m, NEW A, NEW B, A \subseteq B, JudgedIn(m, A)
  PROVE  JudgedIn(m, B)
  BY StampedWider DEF JudgedIn

-----------------------------------------------------------------------------
(***************************************************************************)
(* Slots.                                                                  *)
(***************************************************************************)
(* A slot is counted when it is taken (try_acquire) ...                    *)
LEMMA TakeSlot ==
  ASSUME SlotInv, NEW c \in Conn, c \notin live, live' = live \cup {c},
         try_acquire(IpOf[c])
  PROVE  SlotInv'
<1> DEFINE ip == IpOf[c]
           Of(L, i) == {k \in L : IpOf[k] = i}
<1>0. ip \in Ip
  BY StratumAssumption
<1>1. /\ conns' \in [total : Int, per_ip : [Ip -> Int]]
      /\ conns'.total = conns.total + 1
      /\ \A i \in Ip : conns'.per_ip[i] = IF i = ip THEN conns.per_ip[i] + 1 ELSE conns.per_ip[i]
  <2>1. conns \in [total : Int, per_ip : [Ip -> Int]]
    BY DEF SlotInv
  <2>2. conns' = [conns EXCEPT !.total = conns.total + 1,
                               !.per_ip = [conns.per_ip EXCEPT ![ip] = conns.per_ip[ip] + 1]]
    BY <2>1 DEF try_acquire
  <2>3. [conns.per_ip EXCEPT ![ip] = conns.per_ip[ip] + 1] \in [Ip -> Int]
    BY <1>0, <2>1
  <2>4. conns'.total = conns.total + 1 /\ conns.total + 1 \in Int
        /\ conns'.per_ip = [conns.per_ip EXCEPT ![ip] = conns.per_ip[ip] + 1]
    BY <2>1, <2>2
  <2>5. conns' \in [total : Int, per_ip : [Ip -> Int]]
    BY <2>1, <2>2, <2>3, <2>4
  <2> QED
    BY <1>0, <2>1, <2>4, <2>5
<1>2. IsFiniteSet(live') /\ Cardinality(live') = Cardinality(live) + 1
  BY FS_AddElement DEF SlotInv
<1>3. ASSUME NEW i \in Ip PROVE conns'.per_ip[i] = Cardinality(Of(live', i))
  <2>1. IsFiniteSet(Of(live, i)) /\ c \notin Of(live, i)
    BY FS_Subset DEF SlotInv
  <2>2. CASE i = ip
    <3>1. Of(live', i) = Of(live, i) \cup {c}
      BY <2>2
    <3>2. Cardinality(Of(live', i)) = Cardinality(Of(live, i)) + 1
      BY <2>1, <3>1, FS_AddElement
    <3> QED
      BY <1>1, <2>2, <3>2 DEF SlotInv
  <2>3. CASE i # ip
    <3>1. Of(live', i) = Of(live, i)
      BY <2>3
    <3> QED
      BY <1>1, <2>3, <3>1 DEF SlotInv
  <2> QED
    BY <2>2, <2>3
<1>4. conns'.total = Cardinality(live')
  BY <1>1, <1>2 DEF SlotInv
<1> QED
  BY <1>1, <1>2, <1>3, <1>4 DEF SlotInv

(* ... and given back once, by whatever ends the connection.               *)
LEMMA FreeSlot ==
  ASSUME SlotInv, NEW c \in Conn, c \in live, live' = live \ {c},
         conns' = Released(IpOf[c])
  PROVE  SlotInv'
<1> DEFINE ip == IpOf[c]
           Of(L, i) == {k \in L : IpOf[k] = i}
<1>0. ip \in Ip
  BY StratumAssumption
<1>1. /\ conns' \in [total : Int, per_ip : [Ip -> Int]]
      /\ conns'.total = conns.total - 1
      /\ \A i \in Ip : conns'.per_ip[i] = IF i = ip THEN conns.per_ip[i] - 1 ELSE conns.per_ip[i]
  <2>1. conns \in [total : Int, per_ip : [Ip -> Int]]
    BY DEF SlotInv
  <2>2. conns' = [conns EXCEPT !.total = conns.total - 1,
                               !.per_ip = [conns.per_ip EXCEPT ![ip] = conns.per_ip[ip] - 1]]
    BY <2>1 DEF Released
  <2>3. [conns.per_ip EXCEPT ![ip] = conns.per_ip[ip] - 1] \in [Ip -> Int]
    BY <1>0, <2>1
  <2>4. conns'.total = conns.total - 1 /\ conns.total - 1 \in Int
        /\ conns'.per_ip = [conns.per_ip EXCEPT ![ip] = conns.per_ip[ip] - 1]
    BY <2>1, <2>2
  <2>5. conns' \in [total : Int, per_ip : [Ip -> Int]]
    BY <2>1, <2>2, <2>3, <2>4
  <2> QED
    BY <1>0, <2>1, <2>4, <2>5
<1>2. IsFiniteSet(live') /\ Cardinality(live') = Cardinality(live) - 1
  BY FS_RemoveElement DEF SlotInv
<1>3. ASSUME NEW i \in Ip PROVE conns'.per_ip[i] = Cardinality(Of(live', i))
  <2>1. IsFiniteSet(Of(live, i))
    BY FS_Subset DEF SlotInv
  <2>2. CASE i = ip
    <3>1. Of(live', i) = Of(live, i) \ {c} /\ c \in Of(live, i)
      BY <2>2
    <3>2. Cardinality(Of(live', i)) = Cardinality(Of(live, i)) - 1
      BY <2>1, <3>1, FS_RemoveElement
    <3> QED
      BY <1>1, <2>2, <3>2 DEF SlotInv
  <2>3. CASE i # ip
    <3>1. Of(live', i) = Of(live, i)
      BY <2>3
    <3> QED
      BY <1>1, <2>3, <3>1 DEF SlotInv
  <2> QED
    BY <2>2, <2>3
<1>4. conns'.total = Cardinality(live')
  BY <1>1, <1>2 DEF SlotInv
<1> QED
  BY <1>1, <1>2, <1>3, <1>4 DEF SlotInv

(* A step that starts and ends no handler leaves the count right.          *)
LEMMA KeepSlots ==
  ASSUME SlotInv, live' = live, conns' = conns
  PROVE  SlotInv'
  BY DEF SlotInv

-----------------------------------------------------------------------------
(***************************************************************************)
(* What one thread does.                                                   *)
(***************************************************************************)
\* Nothing changes of the other sessions.
Others(c) ==
  /\ DOMAIN pc' = Conn /\ DOMAIN miners' = Conn /\ DOMAIN told' = Conn /\ DOMAIN paid' = Conn
  /\ \A r \in Conn \ {c} : /\ pc'[r] = pc[r] /\ miners'[r] = miners[r]
                           /\ told'[r] = told[r] /\ paid'[r] = paid[r]

(* The log only grows, and what is so of a session stays so.               *)
LEMMA LogGrows ==
  ASSUME NEW p, NEW m, NEW t, NEW d, NEW lg, NEW more, lg \subseteq more,
         Session(p, m, t, d, lg)
  PROVE  Session(p, m, t, d, more)
  BY DEF Session

LEMMA EvidenceGrows ==
  ASSUME NEW b, NEW lg, NEW more, lg \subseteq more, Evidence(b, lg)
  PROVE  Evidence(b, more)
<1>1. \A s \in Seq(lg) : s \in Seq(more)
  OBVIOUS
<1> QED
  BY <1>1 DEF Evidence

(* A thread of which nothing else is known than that it is not saving, and *)
(* that leaves its session in order, keeps the rest in order.              *)
LEMMA OneMoves ==
  ASSUME StratumInv, NEW c \in Conn, pc[c].at # "save", Others(c), log \subseteq log',
         Session(pc'[c], miners'[c], told'[c], paid'[c], log'),
         SlotInv', Evidence(book', log'), UNCHANGED <<file, tmp, saving>>,
         socks' \subseteq socks \cup {c},
         DOMAIN cast' = DOMAIN cast, cast'.left \subseteq cast.left, cast'.ok \subseteq cast.ok,
         miners'[c] = NoMiner =>
           c \notin socks' /\ \A t \in cast'.left \cup cast'.ok : t.conn # c
  PROVE  StratumInv'
<1> USE DEF StratumInv
<1>1. SessionInv'
  <2>1. ASSUME NEW r \in Conn \ {c}
        PROVE  Session(pc'[r], miners'[r], told'[r], paid'[r], log')
    <3>1. Session(pc[r], miners[r], told[r], paid[r], log)
      BY <2>1 DEF SessionInv
    <3>2. Session(pc[r], miners[r], told[r], paid[r], log')
      BY Zenon, <3>1, LogGrows
    <3> QED
      BY Zenon, <2>1, <3>2 DEF Others
  <2> QED
    BY Zenon, <2>1 DEF SessionInv, Others
<1>2. CastInv'
  <2>1. \A r \in Conn : miners[r] # NoMiner => miners'[r] # NoMiner \/ r = c
    BY Zenon DEF Others
  <2>2. socks' \subseteq {r \in Conn : miners'[r] # NoMiner}
    BY Zenon, <2>1 DEF CastInv
  <2>3. \A t \in cast'.left \cup cast'.ok : t.conn \in Conn /\ miners'[t.conn] # NoMiner
    BY Zenon, <2>1 DEF CastInv
  <2> QED
    BY Zenon, <2>2, <2>3 DEF CastInv
<1>3. BookInv'
  BY Zenon, EvidenceGrows DEF BookInv
<1>4. SaverInv'
  BY Zenon DEF SaverInv, Others
<1> QED
  BY Zenon, <1>1, <1>2, <1>3, <1>4

(* A thread that goes on with its session keeps everything in order.       *)
LEMMA GoesOn ==
  ASSUME StratumInv, NEW c \in Conn, pc[c].at \notin {"save", "none"}, Others(c),
         pc'[c].at # "none", miners'[c] # NoMiner,
         log \subseteq log', Session(pc'[c], miners'[c], told'[c], paid'[c], log'),
         Evidence(book', log'), UNCHANGED <<conns, cast, file, tmp, saving>>,
         socks' \subseteq socks \cup {c}
  PROVE  StratumInv'
<1>1. live' = live
  BY Zenon DEF live, Others
<1>2. SlotInv'
  BY Zenon, <1>1, KeepSlots DEF StratumInv
<1> QED
  BY <1>2, OneMoves

(* SessionGuard::drop takes a session out of every map and frees its slot. *)
LEMMA LeaveKeeps ==
  ASSUME StratumInv, NEW c \in Conn, pc[c].at = "read", Leave(c)
  PROVE  StratumInv'
<1>1. Others(c) /\ pc'[c] = Away /\ miners'[c] = NoMiner /\ told'[c] = {} /\ paid'[c] = <<>>
  BY DEF StratumInv, SessionInv, Leave, Others
<1>2. Session(Away, NoMiner, {}, <<>>, log')
  BY DEF Session, Away, Idle
<1>3. live' = live \ {c} /\ c \in live
  <2>1. Away.at = "none"
    BY DEF Away, Idle
  <2> QED
    BY Zenon, <1>1, <2>1 DEF live, Others
<1>4. SlotInv' 
  BY <1>3, FreeSlot DEF Leave, StratumInv
<1>5. /\ UNCHANGED <<file, tmp, saving, log, book>> /\ socks' = socks \ {c}
  BY DEF Leave, disk
<1>6. /\ DOMAIN cast' = DOMAIN cast
      /\ cast'.left = {t \in cast.left : t.conn # c} /\ cast'.ok = {t \in cast.ok : t.conn # c}
  BY DEF Leave, StratumInv, CastInv
<1>7. Evidence(book', log')
  BY <1>5 DEF StratumInv, BookInv
<1>8. Session(pc'[c], miners'[c], told'[c], paid'[c], log')
  BY Zenon, <1>1, <1>2
<1>9. /\ log \subseteq log' /\ socks' \subseteq socks \cup {c} /\ c \notin socks'
      /\ cast'.left \subseteq cast.left /\ cast'.ok \subseteq cast.ok
      /\ \A t \in cast'.left \cup cast'.ok : t.conn # c
  BY Zenon, <1>5, <1>6
<1> QED
  BY <1>1, <1>4, <1>5, <1>6, <1>7, <1>8, <1>9, OneMoves

-----------------------------------------------------------------------------
(***************************************************************************)
(* What becomes of a session's record.                                     *)
(***************************************************************************)
(* A session is told apart from none.                                      *)
LEMMA SessionIsOne ==
  ASSUME NEW m, DOMAIN m = MinerFields
  PROVE  m # NoMiner
  BY DEF NoMiner, MinerFields

\* What a session is judged by, and what it remembers, are as they were.
Alike(m, n) ==
  /\ DOMAIN n = DOMAIN m /\ n.seen = m.seen
  /\ n.vdiff = m.vdiff /\ n.prev = m.prev /\ n.diffs = m.diffs

LEMMA AlikeKeeps ==
  ASSUME NEW p, NEW m, NEW t, NEW d, NEW lg, Session(p, m, t, d, lg), m # NoMiner,
         NEW n, Alike(m, n)
  PROVE  Session(p, n, t, d, lg) /\ n # NoMiner
<1>1. DOMAIN n = MinerFields /\ n # NoMiner
  BY SessionIsOne DEF Session, Alike
<1>2. \A A : JudgedIn(m, A) => JudgedIn(n, A)
  BY DEF JudgedIn, Alike
<1> QED
  BY Zenon, <1>1, <1>2 DEF Session, Alike

(* A job stamped with the session's difficulty (assign_job).               *)
LEMMA StampKeeps ==
  ASSUME NEW p, NEW m, NEW t, NEW d, NEW lg, Session(p, m, t, d, lg), m # NoMiner,
         NEW n, DOMAIN n = DOMAIN m, n.seen = m.seen, n.vdiff = m.vdiff, n.prev = m.prev,
         NEW i, n.diffs = Newest(Append(m.diffs, <<i, m.vdiff>>), JOB_HISTORY)
  PROVE  Session(p, n, t, d, lg) /\ n # NoMiner
<1>1. DOMAIN n = MinerFields /\ n # NoMiner
  BY SessionIsOne DEF Session
<1>2. JOB_HISTORY \in Nat
  BY StratumAssumption
<1>3. ASSUME NEW A, JudgedIn(m, A) PROVE JudgedIn(n, A)
  BY <1>2, <1>3, StampedMore DEF JudgedIn
<1> QED
  BY Zenon, <1>1, <1>3 DEF Session

LEMMA HandIs ==
  ASSUME NEW m, DOMAIN m = MinerFields, NEW j
  PROVE  /\ DOMAIN Hand(m, j) = DOMAIN m /\ Hand(m, j).seen = m.seen
         /\ Hand(m, j).vdiff = m.vdiff /\ Hand(m, j).prev = m.prev
         /\ Hand(m, j).diffs = Newest(Append(m.diffs, <<j.id, m.vdiff>>), JOB_HISTORY)
<1>1. /\ DOMAIN assign_job(m, j.id) = DOMAIN m /\ assign_job(m, j.id).seen = m.seen
      /\ assign_job(m, j.id).vdiff = m.vdiff /\ assign_job(m, j.id).prev = m.prev
      /\ assign_job(m, j.id).diffs = Newest(Append(m.diffs, <<j.id, m.vdiff>>), JOB_HISTORY)
  BY DEF assign_job, MinerFields
<1> QED
  BY <1>1 DEF Hand, MinerFields

(* Handing a session a job keeps it in order (broadcast, authorize).       *)
LEMMA HandKeeps ==
  ASSUME NEW p, NEW m, NEW t, NEW d, NEW lg, Session(p, m, t, d, lg), m # NoMiner, NEW j
  PROVE  Session(p, Hand(m, j), t, d, lg) /\ Hand(m, j) # NoMiner
<1>1. DOMAIN m = MinerFields
  BY DEF Session
<1>2. PICK n : n = Hand(m, j)
  OBVIOUS
<1>3. /\ DOMAIN n = DOMAIN m /\ n.seen = m.seen /\ n.vdiff = m.vdiff /\ n.prev = m.prev
      /\ n.diffs = Newest(Append(m.diffs, <<j.id, m.vdiff>>), JOB_HISTORY)
  BY Zenon, <1>1, <1>2, HandIs
<1>4. Session(p, n, t, d, lg) /\ n # NoMiner
  BY <1>3, StampKeeps
<1> QED
  BY Zenon, <1>2, <1>4

-----------------------------------------------------------------------------
(***************************************************************************)
(* The actions.                                                            *)
(***************************************************************************)
(* The invariant is about these variables only.                            *)
LEMMA Unmoved ==
  ASSUME StratumInv,
         UNCHANGED <<conns, miners, socks, pc, told, paid, cast, book, file, tmp, saving, log>>
  PROVE  StratumInv'
<1>1. live' = live
  BY DEF live
<1> QED
  BY <1>1 DEF StratumInv, SessionInv, SlotInv, CastInv, BookInv, SaverInv

(* The life of a connection: accept, the thread or its failure, the end.   *)
LEMMA SlotsKeep ==
  ASSUME StratumInv, NEW c \in Conn, Slots(c)
  PROVE  StratumInv'
<1>0. Session(pc[c], miners[c], told[c], paid[c], log)
  BY DEF StratumInv, SessionInv
<1>none. ASSUME miners[c] = NoMiner
         PROVE  c \notin socks /\ \A t \in cast.left \cup cast.ok : t.conn # c
  BY Zenon, <1>none DEF StratumInv, CastInv
<1>1. ASSUME Accept(c) \/ SpawnFails(c) PROVE StratumInv'
  <2>1. pc[c].at \in {"none", "spawn"} /\ pc'[c] \in {Idle("spawn"), Away} /\ Others(c)
    BY <1>1 DEF Accept, SpawnFails, Others, StratumInv, SessionInv
  <2>2. UNCHANGED <<miners, socks, told, paid, cast, book, file, tmp, saving, log>>
    BY <1>1 DEF Accept, SpawnFails, disk
  <2>3. miners[c] = NoMiner /\ told[c] = {} /\ paid[c] = <<>>
    BY Zenon, <1>0, <2>1 DEF Session
  <2>4. Session(Idle("spawn"), NoMiner, {}, <<>>, log) /\ Session(Away, NoMiner, {}, <<>>, log)
    BY DEF Session, Idle, Away
  <2>5. Session(pc'[c], miners'[c], told'[c], paid'[c], log')
    BY Zenon, <2>1, <2>2, <2>3, <2>4
  <2>6. SlotInv'
    <3>0. Idle("spawn").at = "spawn" /\ Away.at = "none"
      BY DEF Idle, Away
    <3>1. CASE Accept(c)
      <4>1. pc[c].at = "none" /\ pc'[c].at = "spawn" /\ try_acquire(IpOf[c])
        BY <3>0, <3>1 DEF Accept, StratumInv, SessionInv
      <4>2. c \notin live /\ live' = live \cup {c}
        BY Zenon, <2>1, <4>1 DEF live, Others
      <4> QED
        BY <4>1, <4>2, TakeSlot DEF StratumInv
    <3>2. CASE SpawnFails(c)
      <4>1. pc[c].at = "spawn" /\ pc'[c].at = "none" /\ conns' = Released(IpOf[c])
        BY <3>0, <3>2 DEF SpawnFails, StratumInv, SessionInv
      <4>2. c \in live /\ live' = live \ {c}
        BY Zenon, <2>1, <4>1 DEF live, Others
      <4> QED
        BY <4>1, <4>2, FreeSlot DEF StratumInv
    <3> QED
      BY <1>1, <3>1, <3>2
  <2>7. pc[c].at # "save" /\ Evidence(book', log') /\ log \subseteq log'
        /\ socks' \subseteq socks \cup {c} /\ DOMAIN cast' = DOMAIN cast
        /\ cast'.left \subseteq cast.left /\ cast'.ok \subseteq cast.ok
    BY <2>1, <2>2 DEF StratumInv, BookInv
  <2>8. c \notin socks' /\ \A t \in cast'.left \cup cast'.ok : t.conn # c
    BY Zenon, <1>none, <2>2, <2>3
  <2> QED
    BY <2>1, <2>2, <2>5, <2>6, <2>7, <2>8, OneMoves
<1>2. CASE Start(c)
  <2>1. /\ pc[c].at = "spawn" /\ pc'[c] = Idle("read") /\ miners'[c] = new_miner /\ Others(c)
        /\ UNCHANGED <<conns, socks, told, paid, cast, book, file, tmp, saving, log>>
    BY <1>2 DEF Start, Others, StratumInv, SessionInv, disk
  <2>2. told[c] = {} /\ paid[c] = <<>>
    BY Zenon, <1>0, <2>1 DEF Session
  <2>3. /\ DOMAIN new_miner = MinerFields /\ new_miner.seen = <<>> /\ new_miner.diffs = <<>>
        /\ new_miner.prev = new_miner.vdiff
    BY DEF new_miner, MinerFields
  <2>4. Stamped(<<>>, {new_miner.vdiff})
    BY DEF Stamped, Range
  <2>5. new_miner # NoMiner
    BY <2>3, SessionIsOne
  <2>6. JudgedIn(new_miner, {new_miner.vdiff})
    BY Zenon, <2>3, <2>4 DEF JudgedIn
  <2>7. DOMAIN Idle("read") = {"at", "tell", "solved"} /\ Idle("read").at = "read" /\ Idle("read").tell = {}
    BY DEF Idle
  <2>8. Session(Idle("read"), new_miner, {}, <<>>, log)
    BY <2>3, <2>5, <2>6, <2>7 DEF Session
  <2>9. Session(pc'[c], miners'[c], told'[c], paid'[c], log')
    BY Zenon, <2>1, <2>2, <2>8
  <2>10. Evidence(book', log') /\ pc'[c].at # "none" /\ log \subseteq log'
         /\ socks' \subseteq socks \cup {c} /\ pc[c].at \notin {"save", "none"} /\ miners'[c] # NoMiner
    BY <2>1, <2>5, <2>7 DEF StratumInv, BookInv
  <2> QED
    BY <2>1, <2>9, <2>10, GoesOn
<1>3. CASE HangUp(c)
  BY <1>3, LeaveKeeps DEF HangUp
<1>4. CASE reap_silent(c)
  BY <1>4, Unmoved DEF reap_silent, disk
<1> QED
  BY <1>1, <1>2, <1>3, <1>4 DEF Slots

(* A line that changes the session's record and nothing else.              *)
LEMMA RecordMoves ==
  ASSUME StratumInv, NEW c \in Conn, pc[c].at = "read", NEW n, n # NoMiner,
         Session(pc[c], n, told[c], paid[c], log), miners' = [miners EXCEPT ![c] = n],
         UNCHANGED <<conns, socks, pc, told, paid, cast, book, file, tmp, saving, log>>
  PROVE  StratumInv'
<1>1. miners'[c] = n /\ Others(c)
  BY DEF StratumInv, SessionInv, Others
<1>2. Session(pc'[c], miners'[c], told'[c], paid'[c], log')
  BY Zenon, <1>1
<1>3. Evidence(book', log') /\ log \subseteq log' /\ socks' \subseteq socks \cup {c}
      /\ pc[c].at \notin {"save", "none"} /\ pc'[c].at # "none" /\ miners'[c] # NoMiner
  BY <1>1 DEF StratumInv, BookInv
<1> QED
  BY <1>1, <1>2, <1>3, GoesOn

LEMMA AlikeMoves ==
  ASSUME StratumInv, NEW c \in Conn, pc[c].at = "read", miners[c] # NoMiner,
         NEW n, Alike(miners[c], n), miners' = [miners EXCEPT ![c] = n],
         UNCHANGED <<conns, socks, pc, told, paid, cast, book, file, tmp, saving, log>>
  PROVE  StratumInv'
<1>1. Session(pc[c], miners[c], told[c], paid[c], log)
  BY DEF StratumInv, SessionInv
<1>2. Session(pc[c], n, told[c], paid[c], log) /\ n # NoMiner
  BY <1>1, AlikeKeeps
<1> QED
  BY <1>2, RecordMoves

(* Lines before the submit.                                                *)
LEMMA EarlyLinesKeep ==
  ASSUME StratumInv, NEW c \in Conn, miners[c] # NoMiner,
         \/ Refuse(c) \/ Subscribe(c) \/ FirstJob(c) \/ BadUsername(c)
         \/ \E who \in cfg.names : Authorize(c, who)
  PROVE  StratumInv'
<1> DEFINE m == miners[c]
<1>0. Session(pc[c], m, told[c], paid[c], log) /\ DOMAIN m = MinerFields
  BY DEF StratumInv, SessionInv, Session
<1>1. CASE Refuse(c)
  <2>1. CASE Leave(c)
    BY <1>1, <2>1, LeaveKeeps DEF Refuse, Reading
  <2>2. CASE Strike(c) /\ UNCHANGED <<conns, socks, pc, told, paid, cast, book, disk>>
    <3>1. Alike(m, [m EXCEPT !.flood = @ + 1]) /\ miners' = [miners EXCEPT ![c] = [m EXCEPT !.flood = @ + 1]]
      BY <1>0, <2>2 DEF Strike, Alike, MinerFields
    <3> QED
      BY <1>1, <2>2, <3>1, AlikeMoves DEF Refuse, Reading, disk
  <2> QED
    BY <1>1, <2>1, <2>2 DEF Refuse
<1>2. CASE Subscribe(c)
  <2>1. /\ pc[c].at = "read" /\ miners' = miners /\ told'[c] = told[c] \cup {m.vdiff}
        /\ pc'[c] \in {Idle("first"), Idle("read")} /\ Others(c) /\ socks' = socks \cup {c}
        /\ UNCHANGED <<conns, paid, cast, book, file, tmp, saving, log>>
    BY <1>2 DEF Subscribe, Reading, Others, StratumInv, SessionInv, disk
  <2>2. \A at : DOMAIN Idle(at) = {"at", "tell", "solved"} /\ Idle(at).at = at /\ Idle(at).tell = {}
    BY DEF Idle
  <2>3. pc[c].tell = {}
    BY Zenon, <1>0, <2>1 DEF Session
  <2>4. Early \in told'[c] \/ JudgedIn(m, told'[c])
    <3>1. CASE told[c] = {}
      BY Zenon, <1>0, <2>1, <3>1, JudgedWider DEF Session
    <3>2. CASE told[c] # {}
      <4>1. Early \in told[c] \/ JudgedIn(m, told[c] \cup pc[c].tell)
        BY Zenon, <1>0, <3>2 DEF Session
      <4>2. told[c] \cup pc[c].tell \subseteq told'[c] /\ told[c] \subseteq told'[c]
        BY Zenon, <2>1, <2>3
      <4> QED
        BY Zenon, <4>1, <4>2, JudgedWider
    <3> QED
      BY <3>1, <3>2
  <2>5. told'[c] # {} /\ paid[c] = m.seen
    BY Zenon, <1>0, <2>1 DEF Session
  <2>6. ASSUME NEW at \in {"first", "read"} PROVE Session(Idle(at), m, told'[c], paid[c], log)
    <3>1. Idle(at).at \notin {"none", "spawn", "after", "note"}
      BY <2>2
    <3>2. told'[c] \cup Idle(at).tell = told'[c]
      BY <2>2
    <3>3. Early \in told'[c] \/ JudgedIn(m, told'[c] \cup Idle(at).tell)
      BY Zenon, <2>4, <3>2
    <3> QED
      BY Zenon, <1>0, <2>2, <2>5, <3>1, <3>3 DEF Session
  <2>7. Session(pc'[c], miners'[c], told'[c], paid'[c], log')
    BY Zenon, <2>1, <2>6
  <2>8. Evidence(book', log') /\ log \subseteq log' /\ socks' \subseteq socks \cup {c}
        /\ pc[c].at \notin {"save", "none"} /\ pc'[c].at # "none" /\ miners'[c] # NoMiner
    BY <2>1, <2>2 DEF StratumInv, BookInv
  <2> QED
    BY <2>1, <2>7, <2>8, GoesOn
<1>3. CASE FirstJob(c)
  <2>1. /\ pc[c].at = "first" /\ pc'[c] = Idle("read") /\ Others(c)
        /\ miners'[c] = m \/ miners'[c] = assign_job(m, seq)
        /\ UNCHANGED <<conns, socks, told, paid, cast, book, file, tmp, saving, log>>
    BY <1>3 DEF FirstJob, Others, StratumInv, SessionInv, disk
  <2>2. DOMAIN Idle("read") = {"at", "tell", "solved"} /\ Idle("read").at = "read" /\ Idle("read").tell = {}
    BY DEF Idle
  <2>3. pc[c].tell = {}
    BY Zenon, <1>0, <2>1 DEF Session
  <2>4. Session(Idle("read"), m, told[c], paid[c], log)
    BY <1>0, <2>1, <2>2, <2>3 DEF Session
  <2>5. /\ DOMAIN assign_job(m, seq) = DOMAIN m /\ assign_job(m, seq).seen = m.seen
        /\ assign_job(m, seq).vdiff = m.vdiff /\ assign_job(m, seq).prev = m.prev
        /\ assign_job(m, seq).diffs = Newest(Append(m.diffs, <<seq, m.vdiff>>), JOB_HISTORY)
    BY <1>0 DEF assign_job, MinerFields
  <2>6. Session(Idle("read"), assign_job(m, seq), told[c], paid[c], log) /\ assign_job(m, seq) # NoMiner
    <3>1. PICK n : n = assign_job(m, seq)
      OBVIOUS
    <3>2. Session(Idle("read"), n, told[c], paid[c], log) /\ n # NoMiner
      BY <2>4, <2>5, <3>1, StampKeeps
    <3> QED
      BY Zenon, <3>1, <3>2
  <2>7. Session(pc'[c], miners'[c], told'[c], paid'[c], log') /\ miners'[c] # NoMiner
    BY Zenon, <2>1, <2>4, <2>6
  <2>8. Evidence(book', log') /\ log \subseteq log' /\ socks' \subseteq socks \cup {c}
        /\ pc[c].at \notin {"save", "none"} /\ pc'[c].at # "none"
    BY <2>1, <2>2 DEF StratumInv, BookInv
  <2> QED
    BY <2>1, <2>7, <2>8, GoesOn
<1>4. CASE BadUsername(c)
  <2>1. Alike(m, [m EXCEPT !.user = NoOne]) /\ miners' = [miners EXCEPT ![c] = [m EXCEPT !.user = NoOne]]
    BY <1>0, <1>4 DEF BadUsername, Alike, MinerFields
  <2> QED
    BY <1>4, <2>1, AlikeMoves DEF BadUsername, Reading, disk
<1>5. ASSUME NEW who, Authorize(c, who) PROVE StratumInv'
  <2> DEFINE named == [m EXCEPT !.user = who]
             asked == [named EXCEPT !.flood = Clamp(@ + 1, 0, FLOOD_LIMIT + 1)]
             job   == solo_job_for(who)
  <2>1. pc[c].at = "read" /\ UNCHANGED <<conns, socks, pc, told, paid, cast, book, file, tmp, saving, log>>
    BY <1>5 DEF Authorize, Reading, disk
  <2>2. Alike(m, named) /\ Alike(m, asked)
    BY <1>0 DEF Alike, MinerFields
  <2>3. \/ miners' = [miners EXCEPT ![c] = named]
        \/ miners' = [miners EXCEPT ![c] = asked]
        \/ miners' = [miners EXCEPT ![c] = Hand(asked, job)]
    BY <1>5 DEF Authorize
  <2> HIDE DEF named, asked, job
  <2>4. Session(pc[c], asked, told[c], paid[c], log) /\ asked # NoMiner
    BY <1>0, <2>2, AlikeKeeps
  <2>5. Session(pc[c], Hand(asked, job), told[c], paid[c], log) /\ Hand(asked, job) # NoMiner
    BY <2>4, HandKeeps
  <2>6. CASE miners' = [miners EXCEPT ![c] = Hand(asked, job)]
    BY <2>1, <2>5, <2>6, RecordMoves
  <2> QED
    BY <2>1, <2>2, <2>3, <2>6, AlikeMoves
<1> QED
  BY <1>1, <1>2, <1>3, <1>4, <1>5

(* A share that is credited: it is remembered as it is paid, and a new     *)
(* difficulty is owed to a miner that was told one before.                 *)
LEMMA SubmitKeeps ==
  ASSUME StratumInv, NEW c \in Conn, miners[c] # NoMiner, NEW j, NEW d, NEW pot, NEW v,
         Submit(c, j, d, pot, v)
  PROVE  StratumInv'
<1> DEFINE m == miners[c]
           n == miners'[c]
           seen == Newest(Append(m.seen, HashOf(j, pot)), SEEN_CAP)
<1>0. Session(pc[c], m, told[c], paid[c], log) /\ DOMAIN m = MinerFields
  BY DEF StratumInv, SessionInv, Session
<1>1. pc[c].at = "read" /\ pc[c].tell = {} /\ paid[c] = m.seen
  BY <1>0 DEF Submit, Judged, Reading, Session
<1>2. /\ DOMAIN pc' = Conn /\ DOMAIN miners' = Conn /\ DOMAIN told' = Conn /\ DOMAIN paid' = Conn
      /\ \A r \in Conn \ {c} : /\ pc'[r] = pc[r] /\ miners'[r] = miners[r]
                               /\ told'[r] = told[r] /\ paid'[r] = paid[r]
  BY DEF Submit, Credited, StratumInv, SessionInv
<1>3. /\ DOMAIN n = MinerFields /\ n.seen = seen /\ n.vdiff = v /\ n.diffs = m.diffs
      /\ n.prev \in {m.vdiff, m.prev}
  BY <1>0 DEF Submit, Credited, StratumInv, SessionInv, MinerFields
<1>4. paid'[c] = seen
  BY <1>1 DEF Submit, Credited, StratumInv, SessionInv
<1>5. /\ DOMAIN pc'[c] = {"at", "tell", "solved"} /\ pc'[c].at = "after"
      /\ pc'[c].tell = IF v # m.vdiff THEN {v} ELSE {}
  BY DEF Submit, Credited, StratumInv, SessionInv
<1>6. told'[c] = IF told[c] = {} THEN {Early} ELSE told[c]
  BY DEF Submit, Credited, StratumInv, SessionInv
<1>7. UNCHANGED <<conns, socks, cast, file, tmp, saving, log>>
  BY DEF Submit, Credited, disk
<1>8. Evidence(book', log')
  <2>0. book' = book \/ book' = credit(book, j.who)
    BY DEF Submit, Credited
  <2>1. Evidence(book, log)
    BY DEF StratumInv, BookInv
  <2>2. \A b, x : Evidence(b, log) => Evidence([b EXCEPT !.board = x], log)
    BY DEF Evidence
  <2>3. ASSUME NEW b, Evidence(b, log) PROVE Evidence(evict(b), log)
    BY Zenon, <2>2, <2>3 DEF evict
  <2>4. Evidence(credit(book, j.who), log)
    BY Zenon, <2>1, <2>2, <2>3 DEF credit
  <2> QED
    BY Zenon, <1>7, <2>0, <2>1, <2>4
<1>9. n # NoMiner
  BY <1>3, SessionIsOne
<1> HIDE DEF n, seen
<1>10. Early \in told'[c] \/ JudgedIn(n, told'[c] \cup pc'[c].tell)
  <2>1. CASE told[c] = {}
    BY Zenon, <1>6, <2>1
  <2>2. CASE told[c] # {}
    <3>1. told'[c] = told[c] /\ told[c] \cup pc[c].tell = told[c]
      BY <1>1, <1>6, <2>2
    <3>2. Early \in told[c] \/ JudgedIn(m, told[c])
      BY Zenon, <1>0, <2>2, <3>1 DEF Session
    <3>3. ASSUME JudgedIn(m, told[c]) PROVE JudgedIn(n, told[c] \cup pc'[c].tell)
      <4>0. told[c] \subseteq told[c] \cup pc'[c].tell
        OBVIOUS
      <4>1. JudgedIn(m, told[c] \cup pc'[c].tell)
        BY <3>3, <4>0, JudgedWider
      <4>2. v \in told[c] \cup pc'[c].tell
        BY <1>5, <3>3 DEF JudgedIn
      <4>3. n.prev \in told[c] \cup pc'[c].tell
        BY <1>3, <4>1 DEF JudgedIn
      <4> QED
        BY Zenon, <1>3, <4>1, <4>2, <4>3 DEF JudgedIn
    <3> QED
      BY Zenon, <3>1, <3>2, <3>3
  <2> QED
    BY <2>1, <2>2
<1>11. told'[c] # {} /\ pc'[c].at \notin {"none", "spawn", "note"}
  BY <1>5, <1>6
<1>12. Session(pc'[c], n, told'[c], paid'[c], log')
  BY Zenon, <1>3, <1>4, <1>5, <1>9, <1>10, <1>11 DEF Session
<1>13. /\ pc[c].at \notin {"save", "none"} /\ log \subseteq log' /\ socks' \subseteq socks \cup {c}
       /\ pc'[c].at # "none" /\ Others(c)
  BY <1>1, <1>2, <1>7, <1>11 DEF Others
<1> QED
  BY <1>7, <1>8, <1>9, <1>12, <1>13, GoesOn DEF n

(* The other answers to a submit.                                          *)
LEMMA LinesKeep ==
  ASSUME StratumInv, NEW c \in Conn, miners[c] # NoMiner, Lines(c)
  PROVE  StratumInv'
<1> DEFINE m == miners[c]
<1>0. DOMAIN m = MinerFields
  BY DEF StratumInv, SessionInv, Session
<1>strike. ASSUME Strike(c), Reading(c),
                  UNCHANGED <<conns, socks, pc, told, paid, cast, book, file, tmp, saving, log>>
           PROVE  StratumInv'
  <2>1. Alike(m, [m EXCEPT !.flood = @ + 1]) /\ miners' = [miners EXCEPT ![c] = [m EXCEPT !.flood = @ + 1]]
    BY <1>0, <1>strike DEF Strike, Alike, MinerFields
  <2> QED
    BY <1>strike, <2>1, AlikeMoves DEF Reading
<1>1. CASE Overdrawn(c)
  BY <1>1, LeaveKeeps DEF Overdrawn, Reading
<1>2. CASE BadParams(c)
  BY <1>2, <1>strike DEF BadParams, disk
<1>3. ASSUME NEW j, NEW d, NEW pot, LowDifficulty(c, j, d, pot) PROVE StratumInv'
  <2>1. PICK k : miners' = [miners EXCEPT ![c].low = k]
    BY <1>3 DEF LowDifficulty
  <2>2. Alike(m, [m EXCEPT !.low = k]) /\ miners' = [miners EXCEPT ![c] = [m EXCEPT !.low = k]]
    BY <1>0, <2>1 DEF Alike, MinerFields
  <2> QED
    BY <1>3, <2>2, AlikeMoves DEF LowDifficulty, Judged, Reading, disk
<1>4. ASSUME NEW j, NEW d, NEW pot, LowFlood(c, j, d, pot) PROVE StratumInv'
  BY <1>4, LeaveKeeps DEF LowFlood, Judged, Reading
<1>5. ASSUME NEW j, NEW d, NEW pot, Duplicate(c, j, d, pot) PROVE StratumInv'
  BY <1>5, <1>strike DEF Duplicate, Judged, disk
<1>6. ASSUME NEW j, NEW d, NEW pot, NEW v, Submit(c, j, d, pot, v) PROVE StratumInv'
  BY <1>6, SubmitKeeps
<1> QED
  BY Zenon, <1>1, <1>2, <1>3, <1>4, <1>5, <1>6, EarlyLinesKeep DEF Lines

(* After a credited share: the difficulty sent, the block submitted,       *)
(* logged and noted (maybe_submit_block).                                  *)
LEMMA AfterKeeps ==
  ASSUME StratumInv, NEW c \in Conn, miners[c] # NoMiner, After(c)
  PROVE  StratumInv'
<1> DEFINE m == miners[c]
           p == pc[c]
<1>0. Session(p, m, told[c], paid[c], log) /\ DOMAIN p = {"at", "tell", "solved"}
      /\ DOMAIN m = MinerFields /\ paid[c] = m.seen
  BY DEF StratumInv, SessionInv, Session
<1>1. p.at \in {"after", "log", "note"} /\ UNCHANGED <<conns, miners, socks, paid, cast, file, tmp, saving>>
  BY DEF After, Tell, Answer, SubmitBlock, AppendSoloBlock, NoteBlock, disk
<1>2. Others(c)
  BY DEF After, Tell, Answer, SubmitBlock, AppendSoloBlock, NoteBlock, Others, StratumInv, SessionInv
<1>idle. DOMAIN Idle("read") = {"at", "tell", "solved"} /\ Idle("read").at = "read" /\ Idle("read").tell = {}
  BY DEF Idle
<1>3. log \subseteq log'
  BY DEF After, Tell, Answer, SubmitBlock, AppendSoloBlock, NoteBlock, disk
<1>4. Evidence(book', log')
  <2>0. Evidence(book, log)
    BY DEF StratumInv, BookInv
  <2>1. CASE book' = book
    BY Zenon, <1>3, <2>0, <2>1, EvidenceGrows
  <2>2. CASE NoteBlock(c)
    <3> DEFINE h == HashOf(p.solved, MaxPot)
               nb == note_block(book, p.solved.who, h)
    <3>1. h \in log /\ book' = nb /\ log' = log
      BY <1>0, <2>2 DEF Session, NoteBlock, disk
    <3> HIDE DEF h
    <3>2. /\ DOMAIN nb = {"board", "finders", "blocks"}
          /\ nb.blocks = Newest(Append(book.blocks, h), SOLO_BOOK_BLOCKS)
      BY <2>0 DEF note_block, Evidence
    <3>3. Append(book.blocks, h) \in Seq(log)
      BY <2>0, <3>1 DEF Evidence
    <3>4. Newest(Append(book.blocks, h), SOLO_BOOK_BLOCKS) \in Seq(log)
      BY <3>3, NewestIn, StratumAssumption
    <3> QED
      BY Zenon, <3>1, <3>2, <3>4 DEF Evidence
  <2> QED
    BY <2>1, <2>2 DEF After, Tell, Answer, SubmitBlock, AppendSoloBlock
<1>5. Session(pc'[c], m, told'[c], paid[c], log') /\ pc'[c].at # "none"
  <2>1. CASE Tell(c)
    <3>1. /\ p.at = "after" /\ p.tell # {} /\ told'[c] = told[c] \cup p.tell
          /\ DOMAIN pc'[c] = DOMAIN p /\ pc'[c].at = "after" /\ pc'[c].tell = {} /\ log' = log
      BY <1>0, <2>1 DEF Tell, StratumInv, SessionInv, disk
    <3>2. told[c] # {} /\ told'[c] # {}
      BY Zenon, <1>0, <3>1 DEF Session
    <3>3. Early \in told[c] \/ JudgedIn(m, told[c] \cup p.tell)
      BY Zenon, <1>0, <3>2 DEF Session
    <3>4. told'[c] \cup pc'[c].tell = told[c] \cup p.tell /\ told[c] \subseteq told'[c]
      BY <3>1
    <3>5. Early \in told'[c] \/ JudgedIn(m, told'[c] \cup pc'[c].tell)
      BY Zenon, <3>3, <3>4
    <3>6. pc'[c].at \notin {"none", "spawn", "note"}
      BY <3>1
    <3> QED
      BY Zenon, <1>0, <3>1, <3>2, <3>5, <3>6 DEF Session
  <2>2. ASSUME DOMAIN pc'[c] = DOMAIN p, pc'[c].at \notin {"none", "spawn", "after"},
               p.tell = {}, pc'[c].tell = {}, told' = told,
               pc'[c].at = "note" => HashOf(pc'[c].solved, MaxPot) \in log'
        PROVE  Session(pc'[c], m, told'[c], paid[c], log') /\ pc'[c].at # "none"
    BY <1>0, <2>2 DEF Session
  <2>3. CASE Answer(c) \/ SubmitBlock(c)
    <3>1. /\ p.at = "after" /\ p.tell = {} /\ told' = told
          /\ pc'[c] = Idle("read") \/ pc'[c] = [p EXCEPT !.at = "log"]
      BY <2>3 DEF Answer, SubmitBlock, StratumInv, SessionInv
    <3>2. DOMAIN pc'[c] = DOMAIN p /\ pc'[c].at \in {"read", "log"} /\ pc'[c].tell = {}
      BY <1>0, <1>idle, <3>1
    <3> QED
      BY <2>2, <3>1, <3>2
  <2>4. CASE AppendSoloBlock(c)
    <3>1. /\ p.at = "log" /\ told' = told /\ pc'[c] = [p EXCEPT !.at = "note"]
          /\ log' = log \cup {HashOf(p.solved, MaxPot)}
      BY <2>4 DEF AppendSoloBlock, StratumInv, SessionInv
    <3>2. p.tell = {}
      BY <1>0, <3>1 DEF Session
    <3>3. DOMAIN pc'[c] = DOMAIN p /\ pc'[c].at = "note" /\ pc'[c].tell = {} /\ pc'[c].solved = p.solved
      BY <1>0, <3>1, <3>2
    <3>4. HashOf(pc'[c].solved, MaxPot) \in log'
      BY Zenon, <3>1, <3>3
    <3> QED
      BY <2>2, <3>1, <3>2, <3>3, <3>4
  <2>5. CASE NoteBlock(c)
    <3>1. p.at = "note" /\ told' = told /\ pc'[c] = [p EXCEPT !.at = "save"]
      BY <2>5 DEF NoteBlock, StratumInv, SessionInv
    <3>2. p.tell = {}
      BY <1>0, <3>1 DEF Session
    <3>3. DOMAIN pc'[c] = DOMAIN p /\ pc'[c].at = "save" /\ pc'[c].tell = {}
      BY <1>0, <3>1, <3>2
    <3> QED
      BY <2>2, <3>1, <3>2, <3>3
  <2> QED
    BY <2>1, <2>3, <2>4, <2>5 DEF After
<1>6. /\ Session(pc'[c], miners'[c], told'[c], paid'[c], log') /\ miners'[c] # NoMiner
      /\ pc[c].at \notin {"save", "none"} /\ socks' \subseteq socks \cup {c}
  BY <1>1, <1>5
<1> QED
  BY <1>1, <1>2, <1>3, <1>4, <1>5, <1>6, GoesOn

(* A book with no block needs no evidence; a saver at rest holds one.      *)
LEMMA EmptyBooks ==
  /\ Asleep.at = "rest" /\ DOMAIN Asleep = {"at", "body", "fd"}
  /\ Evidence(Asleep.body, log) /\ Evidence(Gone, log) /\ Evidence(NoBook, log)
<1>1. <<>> \in Seq(log)
  OBVIOUS
<1>2. DOMAIN NoBook = {"board", "finders", "blocks"} /\ NoBook.blocks = <<>>
  BY DEF NoBook
<1>3. DOMAIN Gone = {"board", "finders", "blocks"} /\ Gone.blocks = <<>>
  BY <1>2 DEF Gone
<1>4. Asleep.at = "rest" /\ DOMAIN Asleep = {"at", "body", "fd"} /\ Asleep.body = NoBook
  BY DEF Asleep
<1>5. Evidence(NoBook, log) /\ Evidence(Gone, log)
  BY <1>1, <1>2, <1>3 DEF Evidence
<1> QED
  BY <1>4, <1>5

(* A saver's step leaves sessions, slots and the publisher alone.          *)
LEMMA SaverMoves ==
  ASSUME StratumInv, UNCHANGED <<conns, miners, socks, pc, told, paid, cast, log>>,
         BookInv', SaverInv'
  PROVE  StratumInv'
<1>1. live' = live
  BY DEF live
<1> QED
  BY <1>1 DEF StratumInv, SessionInv, SlotInv, CastInv

(* save_solo_book: what is written anywhere is a book that was in memory.  *)
LEMMA SaveKeeps ==
  ASSUME StratumInv, NEW s \in Saver, Save(s)
  PROVE  StratumInv'
<1>0. /\ BookInv /\ SaverInv /\ DOMAIN saving = Saver
      /\ \A r \in Saver : DOMAIN saving[r] = {"at", "body", "fd"} /\ Evidence(saving[r].body, log)
  BY DEF StratumInv, BookInv
<1>conn. \A r \in Conn : r \in Saver
  BY DEF Saver
<1>1. CASE Serialise(s)
  <2>1. /\ UNCHANGED <<conns, miners, socks, pc, told, paid, cast, log, book, file, tmp>>
        /\ s # Timer => pc[s].at = "save"
        /\ saving' = [saving EXCEPT ![s] = [at |-> "open", body |-> book, fd |-> "none"]]
    BY <1>1 DEF Serialise, session
  <2>2. /\ DOMAIN saving' = Saver
        /\ \A r \in Saver \ {s} : saving'[r] = saving[r]
        /\ DOMAIN saving'[s] = {"at", "body", "fd"} /\ saving'[s].body = book
    BY <1>0, <2>1
  <2>3. BookInv'
    BY Zenon, <1>0, <2>1, <2>2 DEF BookInv
  <2>4. SaverInv'
    BY Zenon, <1>0, <1>conn, <2>1, <2>2 DEF SaverInv
  <2> QED
    BY <2>1, <2>3, <2>4, SaverMoves
<1>2. CASE OpenTmp(s) \/ WriteTmp(s)
  <2>1. /\ UNCHANGED <<conns, miners, socks, pc, told, paid, cast, log, book>>
        /\ saving[s].at # "rest"
    BY <1>2 DEF OpenTmp, WriteTmp, session
  <2>2. /\ DOMAIN saving' = Saver
        /\ \A r \in Saver \ {s} : saving'[r] = saving[r]
        /\ DOMAIN saving'[s] = {"at", "body", "fd"} /\ saving'[s].body = saving[s].body
    BY <1>0, <1>2 DEF OpenTmp, WriteTmp
  <2>3. /\ tmp' = tmp \/ tmp' = Torn \/ tmp' = saving[s].body
        /\ file' = file \/ file' = Torn \/ file' = saving[s].body
    BY <1>2 DEF OpenTmp, WriteTmp, Written
  <2>4. BookInv'
    BY Zenon, <1>0, <2>1, <2>2, <2>3 DEF BookInv
  <2>5. SaverInv'
    BY Zenon, <1>0, <1>conn, <2>1, <2>2 DEF SaverInv
  <2> QED
    BY <2>1, <2>4, <2>5, SaverMoves
<1>3. CASE RenameTmp(s)
  <2>1. /\ UNCHANGED <<conns, miners, socks, told, paid, cast, log, book>>
        /\ saving[s].at = "rename"
        /\ pc' = IF s = Timer THEN pc ELSE [pc EXCEPT ![s] = Idle("read")]
    BY <1>3 DEF RenameTmp
  <2>2. Asleep.at = "rest" /\ DOMAIN Asleep = {"at", "body", "fd"} /\ Evidence(Asleep.body, log)
    BY EmptyBooks
  <2>3. /\ DOMAIN saving' = Saver /\ saving'[s] = Asleep
        /\ \A r \in Saver \ {s} : /\ DOMAIN saving'[r] = DOMAIN saving[r]
                                  /\ saving'[r].body = saving[r].body
                                  /\ saving'[r].at = saving[r].at
    <3>1. CASE tmp = Gone
      BY <1>0, <1>3, <3>1 DEF RenameTmp
    <3>2. CASE tmp # Gone
      <4> DEFINE moved == [tmp |-> "file", file |-> "gone", gone |-> "gone", none |-> "none"]
      <4>1. saving' = [r \in Saver |-> IF r = s THEN Asleep ELSE
                                       [saving[r] EXCEPT !.fd = moved[@]]]
        BY <1>3, <3>2 DEF RenameTmp
      <4> HIDE DEF moved
      <4>2. DOMAIN saving' = Saver /\ saving'[s] = Asleep
        BY Zenon, <4>1
      <4>3. ASSUME NEW r \in Saver \ {s}
            PROVE  /\ DOMAIN saving'[r] = DOMAIN saving[r]
                   /\ saving'[r].body = saving[r].body /\ saving'[r].at = saving[r].at
        <5>1. saving'[r] = [saving[r] EXCEPT !.fd = moved[@]]
          BY <4>1, <4>3
        <5> QED
          BY <1>0, <5>1
      <4> QED
        BY <4>2, <4>3
    <3> QED
      BY <3>1, <3>2
  <2>4. (file' = file /\ tmp' = tmp) \/ (file' = tmp /\ tmp' = Gone)
    BY <1>3 DEF RenameTmp
  <2>5. Evidence(Gone, log)
    BY EmptyBooks
  <2>6. BookInv'
    BY Zenon, <1>0, <2>1, <2>2, <2>3, <2>4, <2>5 DEF BookInv
  <2>7. DOMAIN pc = Conn
    BY DEF StratumInv, SessionInv
  <2>8. CASE s = Timer
    <3>1. SaverInv'
      BY Zenon, <1>0, <1>conn, <2>1, <2>3, <2>8 DEF SaverInv
    <3> QED
      BY <2>1, <2>6, <2>8, <3>1, SaverMoves
  <2>9. CASE s # Timer
    <3>1. s \in Conn /\ pc[s].at = "save"
      BY <1>0, <2>1, <2>9 DEF Saver, SaverInv
    <3>2. DOMAIN pc' = Conn /\ pc'[s] = Idle("read") /\ \A r \in Conn \ {s} : pc'[r] = pc[r]
      BY <2>1, <2>7, <2>9, <3>1
    <3>3. SaverInv'
      BY Zenon, <1>0, <1>conn, <2>2, <2>3, <3>1, <3>2 DEF SaverInv
    <3>4. DOMAIN Idle("read") = {"at", "tell", "solved"} /\ Idle("read").at = "read" /\ Idle("read").tell = {}
      BY DEF Idle
    <3>5. Session(pc[s], miners[s], told[s], paid[s], log)
      BY <3>1 DEF StratumInv, SessionInv
    <3>6. Session(Idle("read"), miners[s], told[s], paid[s], log)
      BY <3>1, <3>4, <3>5 DEF Session
    <3>7. SessionInv'
      BY Zenon, <2>1, <3>2, <3>6 DEF StratumInv, SessionInv
    <3>8. live' = live
      BY <3>1, <3>2, <3>4 DEF live
    <3>9. SlotInv'
      BY <2>1, <3>8, KeepSlots DEF StratumInv
    <3>10. CastInv'
      BY Zenon, <2>1 DEF StratumInv, CastInv
    <3> QED
      BY Zenon, <2>6, <3>3, <3>7, <3>9, <3>10 DEF StratumInv
  <2> QED
    BY <2>8, <2>9
<1> QED
  BY <1>1, <1>2, <1>3 DEF Save

(* A publisher that moves on to sessions that are there.                   *)
LEMMA CastMoves ==
  ASSUME StratumInv, UNCHANGED <<session, book, disk>>,
         DOMAIN cast' = {"at", "left", "ok", "dead"},
         \A t \in cast'.left \cup cast'.ok : t.conn \in Conn /\ miners[t.conn] # NoMiner
  PROVE  StratumInv'
<1>1. UNCHANGED <<conns, miners, socks, pc, told, paid, book, file, tmp, saving, log>>
  BY DEF session, disk
<1>2. live' = live
  BY <1>1 DEF live
<1>3. CastInv'
  BY Zenon, <1>1 DEF StratumInv, CastInv
<1>4. SessionInv' /\ SlotInv' /\ BookInv' /\ SaverInv'
  BY <1>1, <1>2 DEF StratumInv, SessionInv, SlotInv, BookInv, SaverInv
<1> QED
  BY <1>3, <1>4 DEF StratumInv

(* broadcast, broadcast_solo: sockets are snapshotted, written, stamped.   *)
LEMMA CastKeeps ==
  ASSUME StratumInv,
         Publish \/ PublishTemplate \/ (\E t \in cast.left : CastWrite(t)) \/ CastStamp
  PROVE  StratumInv'
<1>0. /\ \A c \in socks : c \in Conn /\ miners[c] # NoMiner
      /\ DOMAIN cast = {"at", "left", "ok", "dead"}
      /\ \A t \in cast.left \cup cast.ok : t.conn \in Conn /\ miners[t.conn] # NoMiner
  BY DEF StratumInv, CastInv
<1>1. CASE Publish
  <2> DEFINE j == [id |-> seq + 1, who |-> NoOne]
  <2>1. cast' = [at |-> "write", left |-> {Target(c, j) : c \in socks}, ok |-> {}, dead |-> {}]
    BY <1>1 DEF Publish
  <2> HIDE DEF j
  <2>2. /\ DOMAIN cast' = {"at", "left", "ok", "dead"} /\ cast'.ok = {}
        /\ cast'.left = {Target(c, j) : c \in socks}
    BY <2>1
  <2>3. \A c : Target(c, j).conn = c
    BY DEF Target
  <2>4. \A t \in cast'.left \cup cast'.ok : t.conn \in Conn /\ miners[t.conn] # NoMiner
    <3> SUFFICES ASSUME NEW t \in cast'.left PROVE t.conn \in socks
      BY Zenon, <1>0, <2>2
    <3>1. PICK c \in socks : t = Target(c, j)
      BY Zenon, <2>2
    <3> QED
      BY Zenon, <2>3, <3>1
  <2>5. UNCHANGED <<session, book, disk>>
    BY <1>1 DEF Publish
  <2> QED
    BY <2>2, <2>4, <2>5, CastMoves
<1>2. CASE PublishTemplate
  <2> DEFINE asked == {c \in socks : miners[c].user # NoOne}
             whos  == {miners[c].user : c \in asked}
             pairs(o) == {q \in asked \X DOMAIN o : o[q[2]] = miners[q[1]].user}
  <2>1. PICK order \in SetToSeqs(whos) :
          cast' = [at |-> "write", ok |-> {}, dead |-> {},
                   left |-> {Target(p[1], [id |-> seq + p[2], who |-> order[p[2]]]) : p \in pairs(order)}]
    BY <1>2 DEF PublishTemplate
  <2> DEFINE P == pairs(order)
  <2>2. \A p \in P : p[1] \in socks
    OBVIOUS
  <2> HIDE DEF P
  <2>3. /\ DOMAIN cast' = {"at", "left", "ok", "dead"} /\ cast'.ok = {}
        /\ cast'.left = {Target(p[1], [id |-> seq + p[2], who |-> order[p[2]]]) : p \in P}
    BY <2>1 DEF P
  <2>4. \A c, j : Target(c, j).conn = c
    BY DEF Target
  <2>5. \A t \in cast'.left \cup cast'.ok : t.conn \in Conn /\ miners[t.conn] # NoMiner
    <3> SUFFICES ASSUME NEW t \in cast'.left PROVE t.conn \in socks
      BY Zenon, <1>0, <2>3
    <3>1. PICK p \in P : t = Target(p[1], [id |-> seq + p[2], who |-> order[p[2]]])
      BY Zenon, <2>3
    <3>2. t.conn = p[1]
      BY Zenon, <2>4, <3>1
    <3> QED
      BY Zenon, <2>2, <3>2
  <2>6. UNCHANGED <<session, book, disk>>
    BY <1>2 DEF PublishTemplate
  <2> QED
    BY <2>3, <2>5, <2>6, CastMoves
<1>3. ASSUME NEW t \in cast.left, CastWrite(t) PROVE StratumInv'
  <2>1. /\ DOMAIN cast' = {"at", "left", "ok", "dead"}
        /\ cast'.left \subseteq cast.left /\ cast'.ok \subseteq cast.ok \cup {t}
    BY <1>0, <1>3 DEF CastWrite
  <2>2. \A u \in cast'.left \cup cast'.ok : u.conn \in Conn /\ miners[u.conn] # NoMiner
    BY Zenon, <1>0, <2>1
  <2>3. UNCHANGED <<session, book, disk>>
    BY <1>3 DEF CastWrite
  <2> QED
    BY <2>1, <2>2, <2>3, CastMoves
<1>4. CASE CastStamp
  <2> DEFINE reached(c) == \E t \in cast.ok : t.conn = c
             job(c) == (CHOOSE t \in cast.ok : t.conn = c).job
  <2>1. /\ UNCHANGED <<conns, pc, told, paid, book, file, tmp, saving, log>>
        /\ cast' = NoCast /\ socks' = socks \ cast.dead
        /\ miners' = [c \in Conn |-> IF reached(c) THEN Hand(miners[c], job(c)) ELSE miners[c]]
    BY <1>4 DEF CastStamp, disk
  <2>2. \A c : reached(c) => miners[c] # NoMiner
    BY Zenon, <1>0
  <2> HIDE DEF reached, job
  <2>3. DOMAIN miners' = Conn
        /\ \A c \in Conn : miners'[c] = IF reached(c) THEN Hand(miners[c], job(c)) ELSE miners[c]
    BY Zenon, <2>1
  <2>4. ASSUME NEW c \in Conn
        PROVE  /\ Session(pc[c], miners'[c], told[c], paid[c], log)
               /\ miners[c] # NoMiner => miners'[c] # NoMiner
    <3>1. Session(pc[c], miners[c], told[c], paid[c], log)
      BY DEF StratumInv, SessionInv
    <3>2. CASE reached(c)
      <4>1. miners'[c] = Hand(miners[c], job(c)) /\ miners[c] # NoMiner
        BY Zenon, <2>2, <2>3, <3>2
      <4> QED
        BY Zenon, <3>1, <4>1, HandKeeps
    <3>3. CASE ~reached(c)
      BY Zenon, <2>3, <3>1, <3>3
    <3> QED
      BY <3>2, <3>3
  <2>5. SessionInv'
    BY Zenon, <2>1, <2>3, <2>4 DEF StratumInv, SessionInv
  <2>6. NoCast.left = {} /\ NoCast.ok = {} /\ DOMAIN NoCast = {"at", "left", "ok", "dead"}
    BY DEF NoCast
  <2>7. CastInv'
    BY Zenon, <1>0, <2>1, <2>4, <2>6 DEF CastInv
  <2>8. live' = live
    BY <2>1 DEF live
  <2>9. SlotInv' /\ BookInv' /\ SaverInv'
    BY <2>1, <2>8, KeepSlots DEF StratumInv, BookInv, SaverInv
  <2> QED
    BY <2>5, <2>7, <2>9 DEF StratumInv
<1> QED
  BY <1>1, <1>2, <1>3, <1>4

(* A gateway with no connection and a book of which the log has evidence.  *)
LEMMA FreshIsRight ==
  ASSUME conns = [total |-> 0, per_ip |-> [ip \in Ip |-> 0]],
         miners = [c \in Conn |-> NoMiner], socks = {}, pc = [c \in Conn |-> Away],
         cast = NoCast, saving = [s \in Saver |-> Asleep], told = [c \in Conn |-> {}],
         paid = [c \in Conn |-> <<>>], Evidence(book, log),
         file = Torn \/ Evidence(file, log), tmp = Torn \/ Evidence(tmp, log)
  PROVE  StratumInv
<1>1. Session(Away, NoMiner, {}, <<>>, log) /\ Away.at = "none"
  BY DEF Session, Away, Idle
<1>2. SessionInv
  BY Zenon, <1>1 DEF SessionInv
<1>3. live = {}
  BY <1>1 DEF live
<1>4. SlotInv
  <2>1. IsFiniteSet(live) /\ Cardinality(live) = 0
    BY <1>3, FS_EmptySet
  <2>2. \A ip \in Ip : {c \in live : IpOf[c] = ip} = live
    BY <1>3
  <2> QED
    <3>1. conns \in [total : Int, per_ip : [Ip -> Int]]
      OBVIOUS
    <3>2. conns.total = 0 /\ \A ip \in Ip : conns.per_ip[ip] = 0
      OBVIOUS
    <3>3. \A ip \in Ip : Cardinality({c \in live : IpOf[c] = ip}) = 0
      BY Zenon, <2>1, <2>2
    <3> QED
      BY Zenon, <2>1, <3>1, <3>2, <3>3 DEF SlotInv
<1>5. CastInv
  BY DEF CastInv, NoCast
<1>6. BookInv /\ SaverInv
  <2>1. DOMAIN saving = Saver /\ \A s \in Saver : saving[s] = Asleep
    OBVIOUS
  <2>2. \A s \in Conn : s \in Saver
    BY DEF Saver
  <2> QED
    BY Zenon, <2>1, <2>2, EmptyBooks DEF BookInv, SaverInv
<1> QED
  BY <1>2, <1>4, <1>5, <1>6 DEF StratumInv

LEMMA StratumInit == Init => StratumInv
  BY Zenon, EmptyBooks, FreshIsRight DEF Init

(* A restart loads the book whose file is whole, or starts an empty one.   *)
LEMMA CrashKeeps ==
  ASSUME StratumInv, Crash
  PROVE  StratumInv'
<1>1. Evidence(NoBook, log) /\ Evidence(Asleep.body, log) /\ Asleep.at = "rest"
      /\ DOMAIN Asleep = {"at", "body", "fd"}
  BY EmptyBooks
<1>2. Evidence(load_solo_book, log)
  BY Zenon, <1>1 DEF StratumInv, BookInv, load_solo_book
<1>3. Session(Away, NoMiner, {}, <<>>, log) /\ Away.at = "none"
  BY DEF Session, Away, Idle
<1>4. /\ conns' = [total |-> 0, per_ip |-> [ip \in Ip |-> 0]]
      /\ miners' = [c \in Conn |-> NoMiner] /\ socks' = {} /\ pc' = [c \in Conn |-> Away]
      /\ cast' = NoCast /\ saving' = [s \in Saver |-> Asleep] /\ told' = [c \in Conn |-> {}]
      /\ paid' = [c \in Conn |-> <<>>] /\ book' = load_solo_book
      /\ UNCHANGED <<file, tmp, log>>
  BY DEF Crash
<1>5. SessionInv'
  BY Zenon, <1>3, <1>4 DEF SessionInv
<1>6. live' = {}
  BY <1>3, <1>4 DEF live
<1>7. SlotInv'
  <2>1. IsFiniteSet(live') /\ Cardinality(live') = 0
    BY <1>6, FS_EmptySet
  <2>2. \A ip \in Ip : {c \in live' : IpOf[c] = ip} = live'
    BY <1>6
  <2> QED
    <3>1. conns' \in [total : Int, per_ip : [Ip -> Int]]
      BY <1>4
    <3>2. conns'.total = 0 /\ \A ip \in Ip : conns'.per_ip[ip] = 0
      BY <1>4
    <3>3. \A ip \in Ip : Cardinality({c \in live' : IpOf[c] = ip}) = 0
      BY Zenon, <2>1, <2>2
    <3> QED
      BY Zenon, <2>1, <3>1, <3>2, <3>3 DEF SlotInv
<1>8. CastInv'
  BY <1>4 DEF CastInv, NoCast
<1>9. BookInv' /\ SaverInv'
  <2>1. DOMAIN saving' = Saver /\ \A s \in Saver : saving'[s] = Asleep
    BY <1>4
  <2>2. \A s \in Conn : s \in Saver
    BY DEF Saver
  <2> QED
    BY Zenon, <1>1, <1>2, <1>4, <2>1, <2>2 DEF StratumInv, BookInv, SaverInv
<1> QED
  BY <1>5, <1>7, <1>8, <1>9 DEF StratumInv

(* Every step keeps the gateway in order.                                  *)
LEMMA StratumNext == StratumInv /\ [Next]_vars => StratumInv'
<1> SUFFICES ASSUME StratumInv, [Next]_vars PROVE StratumInv'
  OBVIOUS
<1>1. CASE UNCHANGED vars
  BY <1>1, Unmoved DEF vars, session, disk
<1>2. ASSUME NEW c \in Conn, Slots(c) \/ (miners[c] # NoMiner /\ (Lines(c) \/ After(c)))
      PROVE  StratumInv'
  BY Zenon, <1>2, SlotsKeep, LinesKeep, AfterKeeps
<1>3. ASSUME NEW s \in Saver, Save(s) PROVE StratumInv'
  BY Zenon, <1>3, SaveKeeps
<1> QED
  BY Zenon, <1>1, <1>2, <1>3, CastKeeps, CrashKeeps DEF Next

LEMMA StratumHolds == Spec => []StratumInv
  BY StratumInit, StratumNext, PTL DEF Spec

-----------------------------------------------------------------------------
(***************************************************************************)
(* The theorems.                                                           *)
(***************************************************************************)
(* Slots are taken exactly while a handler is, or is about to be, running, *)
(* and the maps name running handlers only (try_acquire, SessionGuard).    *)
THEOREM SlotsAreExact == Spec => []SlotsExact
<1>1. StratumInv => SlotsExact
  <2> SUFFICES ASSUME StratumInv PROVE SlotsExact
    OBVIOUS
  <2>1. \A c \in Conn : miners[c] # NoMiner => c \in live
    BY DEF StratumInv, SessionInv, Session, live
  <2> QED
    BY <2>1 DEF StratumInv, SlotInv, CastInv, SlotsExact
<1> QED
  BY <1>1, StratumHolds, PTL

(* Whatever difficulty a share would be judged by now was sent to its      *)
(* miner, if it subscribed first (accept_diffs, broadcast, vardiff).       *)
THEOREM MinersJudgedAsTold == Spec => []JudgedAsTold
<1>1. StratumInv => JudgedAsTold
  <2> SUFFICES ASSUME StratumInv, NEW c \in Conn, miners[c] # NoMiner, NEW j \in Known(c),
                      told[c] # {}, Early \notin told[c],
                      NEW d \in accept_diffs(miners[c], j.id), Judged(c, j, d)
               PROVE  d \in told[c]
    BY Zenon DEF JudgedAsTold
  <2>1. pc[c].at = "read"
    BY DEF Judged, Reading
  <2>2. Session(pc[c], miners[c], told[c], paid[c], log)
    BY DEF StratumInv, SessionInv
  <2>3. JudgedIn(miners[c], told[c])
    BY <2>1, <2>2 DEF Session
  <2> QED
    BY <2>3 DEF JudgedIn, Stamped, accept_diffs
<1> QED
  BY <1>1, StratumHolds, PTL

(* The last SEEN_CAP hashes paid on a connection are known as duplicates   *)
(* (note_share): none of them is paid again.                               *)
THEOREM PaidStaysKnown == Spec => []NoReplay
<1>1. StratumInv => NoReplay
  BY DEF StratumInv, SessionInv, Session, NoReplay
<1> QED
  BY <1>1, StratumHolds, PTL

(* No copy of the solo book has a block that the append-only log lacks,    *)
(* through crashes and racing savers (maybe_submit_block, save_solo_book). *)
THEOREM LogHasEvidence == Spec => []LogIsEvidence
<1>1. \A b : Evidence(b, log) => Range(b.blocks) \subseteq log
  BY Zenon, OwnRange DEF Evidence
<1>2. StratumInv => LogIsEvidence
  <2> SUFFICES ASSUME StratumInv,
                      NEW b \in {book} \cup ({file, tmp} \ {Torn}) \cup {saving[s].body : s \in Saver}
               PROVE  Evidence(b, log)
    BY Zenon, <1>1 DEF LogIsEvidence
  <2>1. ASSUME NEW s \in Saver PROVE Evidence(saving[s].body, log)
    BY Zenon DEF StratumInv, BookInv
  <2>2. Evidence(book, log) /\ (file # Torn => Evidence(file, log)) /\ (tmp # Torn => Evidence(tmp, log))
    BY Zenon DEF StratumInv, BookInv
  <2> QED
    BY <2>1, <2>2
<1> QED
  BY <1>2, StratumHolds, PTL
=============================================================================
