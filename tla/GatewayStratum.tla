--------------------------- MODULE GatewayStratum ---------------------------
(***************************************************************************)
(* The stratum side of lazarus-gateway: connection slots (Conns,           *)
(* SessionGuard), one thread per connection (handle_miner), the thread     *)
(* that publishes jobs (broadcast, broadcast_solo), vardiff, the reaper,   *)
(* block submission, and in solo mode the book of what every identity has  *)
(* done and its file.                                                      *)
(*                                                                         *)
(* The mode is fixed by the configuration: pooled jobs are the gateway's,  *)
(* solo jobs belong to the session that was handed them.  A share is the   *)
(* job it names and `pot', the exponent of the difficulty its hash reaches;*)
(* the two are its hash.  Tokens, the low-share window, the retarget clock *)
(* and the grace of an old difficulty depend on time: any answer they can  *)
(* give is possible.  Counters that are only reported are left out.        *)
(***************************************************************************)
EXTENDS Integers, Sequences, FiniteSets, SequencesExt

CONSTANTS Conn,              \* connections, by the id they would be given
          Ip, IpOf,          \* sources, and the one a connection comes from
          Ident,             \* payout identities
          NoOne,             \* not an identity
          Config,            \* configurations (GwCfg) a gateway is started with,
                             \* and the bounds of its run: .jobs, .names
          MAX_CONNS, MAX_CONNS_PER_IP, JOB_HISTORY, SOLO_JOBS, SEEN_CAP,
          FLOOD_LIMIT, LOW_BURST, SUBMITTED_CAP,
          SOLO_BOOK_MINERS, SOLO_BOOK_BLOCKS,
          MaxPot,            \* bound: the best hash; it meets the network target
          MaxCrash           \* bound: restarts of a solo gateway

ASSUME StratumAssumption ==
  /\ IpOf \in [Conn -> Ip] /\ NoOne \notin Ident
  /\ {MAX_CONNS, MAX_CONNS_PER_IP, JOB_HISTORY, SOLO_JOBS, SEEN_CAP,
      SOLO_BOOK_MINERS, SOLO_BOOK_BLOCKS, MaxPot} \subseteq Nat \ {0}
  /\ {FLOOD_LIMIT, LOW_BURST, SUBMITTED_CAP, MaxCrash} \subseteq Nat
  /\ \A g \in Config : /\ g.mode \in {"pooled", "solo"} /\ g.vardiff_min \in Nat \ {0}
                       /\ {g.vardiff_start, g.vardiff_max, g.vardiff_step} \subseteq Nat
                       /\ g.jobs \in Nat /\ g.names \subseteq Ident

VARIABLES cfg,        \* the configuration, fixed
          conns,      \* slots taken, in total and per source
          miners,     \* session record of a connection, or NoMiner
          socks,      \* miner_socks: connections the publisher writes to
          shut,       \* connections the reaper has shut down
          pc,         \* what each connection's thread is doing
          seq,        \* job_seq: jobs built so far
          ready,      \* solo: there is a template
          cast,       \* the publisher's round of writes, or NoCast
          submitted,  \* hashes handed to submitblock
          book,       \* solo: the book in memory
          dirty,      \* solo: it changed since it was last serialised
          file,       \* solo-book.json: a book, or Torn
          tmp,        \* solo-book.json.tmp: a book, Torn or Gone
          saving,     \* where each saver is in save_solo_book
          log,        \* hashes in solo-blocks.jsonl
          told,       \* history: difficulties each miner was sent
          paid,       \* history: its last SEEN_CAP credited hashes
          crashes

session == <<conns, miners, socks, shut, pc, told, paid>>
disk    == <<file, tmp, saving, log>>
vars == <<cfg, session, seq, ready, cast, submitted, book, dirty, disk, crashes>>

mode == cfg.mode

Timer == "timer"                 \* solo_save_loop
Saver == Conn \cup {Timer}

NoMiner == [user |-> NoOne, vdiff |-> 0]
NoCast  == [at |-> "idle", left |-> {}, ok |-> {}, dead |-> {}]
NoBook  == [board |-> <<>>, finders |-> {}, blocks |-> <<>>]
Torn    == [NoBook EXCEPT !.blocks = <<NoOne>>]
Gone    == [NoBook EXCEPT !.board = <<NoOne>>]
Asleep  == [at |-> "rest", body |-> NoBook, fd |-> "none"]

NoJob    == [id |-> 0, who |-> NoOne]
Idle(at) == [at |-> at, tell |-> {}, solved |-> NoJob]
Away     == Idle("none")

\* A session that submits before it has subscribed was sent no difficulty.
Early == 0

live == {c \in Conn : pc[c].at # "none"}
Newest(s, n) == SubSeq(s, IF Len(s) > n THEN Len(s) - n + 1 ELSE 1, Len(s))

-----------------------------------------------------------------------------
(* Vardiff.                                                                *)

Clamp(n, lo, hi) == IF n < lo THEN lo ELSE IF n > hi THEN hi ELSE n

ilog2(n) == CHOOSE k \in 0 .. 40 : 2^k <= n /\ n < 2^(k + 1)

pow2_clamp(n, floor, cap) ==
  Clamp(2^ilog2(Clamp(n, floor, cap)), floor, cap)

vmin   == cfg.vardiff_min
vmax   == IF cfg.vardiff_max > vmin THEN cfg.vardiff_max ELSE vmin
vstart == pow2_clamp(cfg.vardiff_start, vmin, vmax)

resolve_vardiff_step == 2^ilog2(Clamp(cfg.vardiff_step, 2, 16))

step_vardiff(current, ideal) ==
  LET step == resolve_vardiff_step
      cur  == pow2_clamp(current, vmin, vmax)
      want == pow2_clamp(ideal, vmin, vmax)
      up   == IF cur * step < want THEN cur * step ELSE want
      down == Clamp(cur \div step, want, vmax)
  IN  IF want > cur THEN pow2_clamp(up, vmin, vmax)
      ELSE IF want < cur THEN pow2_clamp(down, vmin, vmax) ELSE cur

\* What a retarget may leave the difficulty at: vardiff_ideal of any hashrate,
\* or no retarget at all (should_retarget, an up step not allowed yet).
Retargets(m) == {m.vdiff} \cup {step_vardiff(m.vdiff, 2^k) : k \in 0 .. MaxPot}

new_miner == [user |-> NoOne, vdiff |-> vstart, prev |-> vstart, diffs |-> <<>>,
              seen |-> <<>>, jobs |-> <<>>, flood |-> 0, low |-> 0]

assign_job(m, id) == [m EXCEPT !.diffs = Newest(Append(@, <<id, m.vdiff>>), JOB_HISTORY)]

\* A session of a solo gateway remembers its own jobs.
Hand(m, j) ==
  LET stamped == assign_job(m, j.id)
  IN  IF mode = "pooled" THEN stamped
      ELSE [stamped EXCEPT !.jobs = Newest(Append(@, j), SOLO_JOBS)]

Init ==
  /\ cfg \in Config
  /\ conns = [total |-> 0, per_ip |-> [ip \in Ip |-> 0]]
  /\ miners = [c \in Conn |-> NoMiner] /\ socks = {} /\ shut = {}
  /\ pc = [c \in Conn |-> Away]
  /\ seq = 0 /\ ready = FALSE /\ cast = NoCast /\ submitted = {}
  /\ book = NoBook /\ dirty = FALSE /\ file = NoBook /\ tmp = Gone
  /\ saving = [s \in Saver |-> Asleep] /\ log = {}
  /\ told = [c \in Conn |-> {}]
  /\ paid = [c \in Conn |-> <<>>] /\ crashes = 0

-----------------------------------------------------------------------------
(* Slots and the life of a connection.                                     *)

try_acquire(ip) ==
  /\ conns.total < MAX_CONNS /\ conns.per_ip[ip] < MAX_CONNS_PER_IP
  /\ conns' = [conns EXCEPT !.total = @ + 1, !.per_ip[ip] = @ + 1]

Released(ip) == [conns EXCEPT !.total = @ - 1, !.per_ip[ip] = @ - 1]

\* main's accept loop: the slot is taken before the thread exists.
Accept(c) ==
  /\ pc[c].at = "none" /\ try_acquire(IpOf[c])
  /\ pc' = [pc EXCEPT ![c] = Idle("spawn")]
  /\ UNCHANGED <<cfg, miners, socks, shut, told, paid, seq, ready, cast,
                 submitted, book, dirty, disk, crashes>>

\* Mutation: the slot of a connection that got no thread is not given back.
SpawnFails_keep_slot(c) ==
  /\ pc[c].at = "spawn"
  /\ pc' = [pc EXCEPT ![c] = Away]
  /\ UNCHANGED <<cfg, conns, miners, socks, shut, told, paid, seq, ready,
                 cast, submitted, book, dirty, disk, crashes>>

SpawnFails(c) ==
  /\ pc[c].at = "spawn"
  /\ conns' = Released(IpOf[c])
  /\ pc' = [pc EXCEPT ![c] = Away]
  /\ UNCHANGED <<cfg, miners, socks, shut, told, paid, seq, ready, cast,
                 submitted, book, dirty, disk, crashes>>

\* handle_miner up to its loop.
Start(c) ==
  /\ pc[c].at = "spawn"
  /\ miners' = [miners EXCEPT ![c] = new_miner]
  /\ pc' = [pc EXCEPT ![c] = Idle("read")]
  /\ UNCHANGED <<cfg, conns, socks, shut, told, paid, seq, ready, cast,
                 submitted, book, dirty, disk, crashes>>

\* SessionGuard::drop.  An id is never given twice, so what the publisher still
\* holds under it finds no session.
Leave(c) ==
  /\ miners' = [miners EXCEPT ![c] = NoMiner]
  /\ socks' = socks \ {c} /\ shut' = shut \ {c}
  /\ conns' = Released(IpOf[c])
  /\ pc' = [pc EXCEPT ![c] = Away]
  /\ told' = [told EXCEPT ![c] = {}]
  /\ paid' = [paid EXCEPT ![c] = <<>>]
  /\ cast' = [cast EXCEPT !.left = {t \in @ : t.conn # c},
                          !.ok = {t \in @ : t.conn # c}, !.dead = @ \ {c}]
  /\ UNCHANGED <<cfg, seq, ready, submitted, book, dirty, disk, crashes>>

\* The client hangs up, idles out, or sends a line that ends the session.
HangUp(c) == pc[c].at = "read" /\ Leave(c)

\* reap_silent shuts down the sockets of sessions with no user; only those that
\* subscribed have one to shut.
reap_silent(c) ==
  /\ pc[c].at # "none" /\ miners[c] # NoMiner /\ miners[c].user = NoOne
  /\ c \in socks \ shut
  /\ shut' = shut \cup {c}
  /\ UNCHANGED <<cfg, conns, miners, socks, pc, told, paid, seq, ready,
                 cast, submitted, book, dirty, disk, crashes>>

-----------------------------------------------------------------------------
(* Lines from the miner, up to the submit.                                 *)

Reading(c) == pc[c].at = "read" /\ c \notin shut

Strike(c) == miners' = [miners EXCEPT ![c].flood = @ + 1]

\* A line that is no JSON, or a submit over its rate: FLOOD_LIMIT of them are
\* let pass.
Refuse(c) ==
  /\ Reading(c)
  /\ \/ /\ miners[c].flood >= FLOOD_LIMIT
        /\ Leave(c)
     \/ /\ miners[c].flood < FLOOD_LIMIT
        /\ Strike(c)
        /\ UNCHANGED <<cfg, conns, socks, shut, pc, told, paid, seq, ready,
                       cast, submitted, book, dirty, disk, crashes>>

\* The socket is registered and the difficulty sent ...
Subscribe(c) ==
  /\ Reading(c)
  /\ socks' = socks \cup {c}
  /\ told' = [told EXCEPT ![c] = @ \cup {miners[c].vdiff}]
  /\ pc' = [pc EXCEPT ![c] = Idle(IF mode = "pooled" THEN "first" ELSE "read")]
  /\ UNCHANGED <<cfg, conns, miners, shut, paid, seq, ready, cast,
                 submitted, book, dirty, disk, crashes>>

\* ... then, in pooled mode, whatever job is current by now.
FirstJob(c) ==
  /\ pc[c].at = "first"
  /\ pc' = [pc EXCEPT ![c] = Idle("read")]
  /\ miners' = IF seq = 0 THEN miners ELSE [miners EXCEPT ![c] = assign_job(@, seq)]
  /\ UNCHANGED <<cfg, conns, socks, shut, told, paid, seq, ready, cast,
                 submitted, book, dirty, disk, crashes>>

solo_job_for(who) == [id |-> seq + 1, who |-> who]

\* mining.authorize with a payable name; in solo mode it costs a strike and is
\* answered with a job once there is a template.
Authorize(c, who) ==
  /\ Reading(c)
  /\ LET named == [miners[c] EXCEPT !.user = who]
         asked == [named EXCEPT !.flood = Clamp(@ + 1, 0, FLOOD_LIMIT + 1)]
     IN  \/ /\ mode = "pooled"
            /\ miners' = [miners EXCEPT ![c] = named]
            /\ UNCHANGED seq
         \/ /\ mode = "solo" /\ ready /\ seq < cfg.jobs
            /\ miners' = [miners EXCEPT ![c] = Hand(asked, solo_job_for(who))]
            /\ seq' = seq + 1
         \/ /\ mode = "solo" /\ ~ready
            /\ miners' = [miners EXCEPT ![c] = asked]
            /\ UNCHANGED seq
  /\ UNCHANGED <<cfg, conns, socks, shut, pc, told, paid, ready, cast,
                 submitted, book, dirty, disk, crashes>>

\* A name nobody can pay: the session is nobody's again.
BadUsername(c) ==
  /\ Reading(c)
  /\ miners' = [miners EXCEPT ![c].user = NoOne]
  /\ UNCHANGED <<cfg, conns, socks, shut, pc, told, paid, seq, ready, cast,
                 submitted, book, dirty, disk, crashes>>

-----------------------------------------------------------------------------
(* mining.submit.                                                          *)

\* Jobs a share of c may name: the gateway's history, or the session's own.
Known(c) ==
  IF mode = "pooled"
  THEN {[id |-> i, who |-> NoOne] : i \in {k \in 1 .. seq : k > seq - JOB_HISTORY}}
  ELSE Range(miners[c].jobs)

\* The difficulty the job went out at to this session; a job older than the
\* stamps kept is judged at the session's, or within the grace at the lower of
\* that and the one before.
accept_diffs(m, id) ==
  LET stamps == {s[2] : s \in {t \in Range(m.diffs) : t[1] = id}}
      least  == IF m.prev < m.vdiff THEN m.prev ELSE m.vdiff
  IN  IF stamps # {} THEN {s \in stamps : \A t \in stamps : s <= t} ELSE {m.vdiff, least}

Meets(pot, d) == pot >= ilog2(d)

HashOf(j, pot) == <<j.id, pot>>

\* A submit that gets as far as being judged: within its rate and its flood
\* budget, under a name, on a job still held.
Judged(c, j, d) ==
  /\ Reading(c) /\ miners[c].flood <= FLOOD_LIMIT /\ miners[c].user # NoOne
  /\ j \in Known(c) /\ d \in accept_diffs(miners[c], j.id)

\* The budget was overdrawn by lines that do not look at it.
Overdrawn(c) ==
  /\ Reading(c) /\ miners[c].flood > FLOOD_LIMIT
  /\ Leave(c)

BadParams(c) ==
  /\ Reading(c) /\ miners[c].flood <= FLOOD_LIMIT /\ miners[c].user # NoOne
  /\ Known(c) # {}
  /\ Strike(c)
  /\ UNCHANGED <<cfg, conns, socks, shut, pc, told, paid, seq, ready, cast,
                 submitted, book, dirty, disk, crashes>>

\* Mutation: a share is remembered before it is known to meet its target.
LowDifficulty_remembered(c, j, d, pot) ==
  /\ Judged(c, j, d) /\ ~Meets(pot, d)
  /\ \E n \in {1, miners[c].low + 1} :
       /\ n <= LOW_BURST
       /\ miners' = [miners EXCEPT ![c].low = n,
                     ![c].seen = Newest(Append(@, HashOf(j, pot)), SEEN_CAP)]
  /\ UNCHANGED <<cfg, conns, socks, shut, pc, told, paid, seq, ready, cast,
                 submitted, book, dirty, disk, crashes>>

\* Under its target: note_low may find its window over and start again.
LowDifficulty(c, j, d, pot) ==
  /\ Judged(c, j, d) /\ ~Meets(pot, d)
  /\ \E n \in {1, miners[c].low + 1} :
       /\ n <= LOW_BURST
       /\ miners' = [miners EXCEPT ![c].low = n]
  /\ UNCHANGED <<cfg, conns, socks, shut, pc, told, paid, seq, ready, cast,
                 submitted, book, dirty, disk, crashes>>

LowFlood(c, j, d, pot) ==
  /\ Judged(c, j, d) /\ ~Meets(pot, d)
  /\ miners[c].low >= LOW_BURST
  /\ Leave(c)

Duplicate(c, j, d, pot) ==
  /\ Judged(c, j, d) /\ Meets(pot, d)
  /\ HashOf(j, pot) \in Range(miners[c].seen)
  /\ Strike(c)
  /\ UNCHANGED <<cfg, conns, socks, shut, pc, told, paid, seq, ready, cast,
                 submitted, book, dirty, disk, crashes>>

\* SoloBook: who was credited last is at the end of the board; over the cap the
\* one not seen for longest and without a block goes.
evict(b) ==
  LET plain == SelectSeq(b.board, LAMBDA w : w \notin b.finders)
  IN  IF Len(b.board) > SOLO_BOOK_MINERS /\ plain # <<>>
      THEN [b EXCEPT !.board = SelectSeq(@, LAMBDA w : w # Head(plain))] ELSE b

credit(b, who) ==
  evict([b EXCEPT !.board = Append(SelectSeq(@, LAMBDA w : w # who), who)])

note_block(b, who, hash) ==
  [b EXCEPT !.finders = IF who \in Range(b.board) THEN @ \cup {who} ELSE @,
            !.blocks = Newest(Append(@, hash), SOLO_BOOK_BLOCKS)]

\* A fresh share: remembered, credited, and the difficulty perhaps moved.
Credited(c, j, d, pot, vdiff) ==
  LET m == miners[c]
  IN  /\ miners' = [miners EXCEPT
                      ![c].seen = Newest(Append(@, HashOf(j, pot)), SEEN_CAP),
                      ![c].vdiff = vdiff,
                      ![c].prev = IF vdiff # m.vdiff THEN m.vdiff ELSE @]
      /\ paid' = [paid EXCEPT ![c] = Newest(Append(@, HashOf(j, pot)), SEEN_CAP)]
      /\ book' = IF mode = "solo" THEN credit(book, j.who) ELSE book
      /\ dirty' = (dirty \/ mode = "solo")
      /\ pc' = [pc EXCEPT ![c] = [at |-> "after",
                                  tell |-> IF vdiff # m.vdiff THEN {vdiff} ELSE {},
                                  solved |-> IF pot = MaxPot THEN j ELSE NoJob]]
      /\ told' = IF told[c] = {} THEN [told EXCEPT ![c] = {Early}] ELSE told
      /\ UNCHANGED <<cfg, conns, socks, shut, seq, ready, cast, submitted,
                     disk, crashes>>

Submit(c, j, d, pot, vdiff) ==
  /\ Judged(c, j, d) /\ Meets(pot, d)
  /\ HashOf(j, pot) \notin Range(miners[c].seen)
  /\ vdiff \in Retargets(miners[c])
  /\ Credited(c, j, d, pot, vdiff)

\* Mutation: a lower difficulty is put in force without being sent.
Tell_only_up(c) ==
  /\ pc[c].at = "after" /\ pc[c].tell # {}
  /\ told' = [told EXCEPT ![c] = @ \cup {d \in pc[c].tell : d > miners[c].prev}]
  /\ pc' = [pc EXCEPT ![c].tell = {}]
  /\ UNCHANGED <<cfg, conns, miners, socks, shut, paid, seq, ready, cast,
                 submitted, book, dirty, disk, crashes>>

\* The new difficulty is sent outside the lock.
Tell(c) ==
  /\ pc[c].at = "after" /\ pc[c].tell # {}
  /\ told' = [told EXCEPT ![c] = @ \cup pc[c].tell]
  /\ pc' = [pc EXCEPT ![c].tell = {}]
  /\ UNCHANGED <<cfg, conns, miners, socks, shut, paid, seq, ready, cast,
                 submitted, book, dirty, disk, crashes>>

Answer(c) ==
  /\ pc[c].at = "after" /\ pc[c].tell = {} /\ pc[c].solved = NoJob
  /\ pc' = [pc EXCEPT ![c] = Idle("read")]
  /\ UNCHANGED <<cfg, conns, miners, socks, shut, told, paid, seq, ready,
                 cast, submitted, book, dirty, disk, crashes>>

-----------------------------------------------------------------------------
(* Blocks, and the solo book's file.                                       *)

\* maybe_submit_block: once per hash, of the last SUBMITTED_CAP or so.
SubmitBlock(c) ==
  /\ pc[c].at = "after" /\ pc[c].tell = {} /\ pc[c].solved # NoJob
  /\ LET h     == HashOf(pc[c].solved, MaxPot)
         known == submitted \cup {h}
     IN  /\ submitted' = IF Cardinality(known) > SUBMITTED_CAP THEN {} ELSE known
         /\ pc' = [pc EXCEPT ![c] = IF h \in submitted \/ mode = "pooled"
                                    THEN Idle("read") ELSE [@ EXCEPT !.at = "log"]]
  /\ UNCHANGED <<cfg, conns, miners, socks, shut, told, paid, seq, ready,
                 cast, book, dirty, disk, crashes>>

\* Mutation: the book has the block before the log.
AppendSoloBlock_late(c) ==
  /\ pc[c].at = "log"
  /\ pc' = [pc EXCEPT ![c].at = "note"]
  /\ UNCHANGED <<cfg, conns, miners, socks, shut, told, paid, seq, ready,
                 cast, submitted, book, dirty, disk, crashes>>

\* Whatever the node answered, the block is logged ...
AppendSoloBlock(c) ==
  /\ pc[c].at = "log"
  /\ log' = log \cup {HashOf(pc[c].solved, MaxPot)}
  /\ pc' = [pc EXCEPT ![c].at = "note"]
  /\ UNCHANGED <<cfg, conns, miners, socks, shut, told, paid, seq, ready,
                 cast, submitted, book, dirty, file, tmp, saving, crashes>>

\* ... noted in the book ...
NoteBlock(c) ==
  /\ pc[c].at = "note"
  /\ book' = note_block(book, pc[c].solved.who, HashOf(pc[c].solved, MaxPot))
  /\ dirty' = TRUE
  /\ pc' = [pc EXCEPT ![c].at = "save"]
  /\ UNCHANGED <<cfg, conns, miners, socks, shut, told, paid, seq, ready,
                 cast, submitted, disk, crashes>>

\* ... and the book saved.  save_solo_book serialises under the lock,
Serialise(s) ==
  /\ saving[s].at = "rest"
  /\ IF s = Timer THEN mode = "solo" /\ dirty ELSE pc[s].at = "save"
  /\ dirty' = FALSE
  /\ saving' = [saving EXCEPT ![s] = [at |-> "open", body |-> book, fd |-> "none"]]
  /\ UNCHANGED <<cfg, session, seq, ready, cast, submitted, book, file, tmp, log,
                 crashes>>

\* then opens the one temporary file, which truncates it,
OpenTmp(s) ==
  /\ saving[s].at = "open"
  /\ tmp' = Torn
  /\ saving' = [saving EXCEPT ![s].at = "write", ![s].fd = "tmp"]
  /\ UNCHANGED <<cfg, session, seq, ready, cast, submitted, book, dirty, file, log,
                 crashes>>

\* A file another saver has written to as well may end with a piece of each.
Written(s, old) == {saving[s].body} \cup (IF old = Torn THEN {} ELSE {Torn})

\* writes to what it opened, which another saver may have renamed since,
WriteTmp(s) ==
  /\ saving[s].at = "write"
  /\ \/ saving[s].fd = "tmp" /\ tmp' \in Written(s, tmp) /\ UNCHANGED file
     \/ saving[s].fd = "file" /\ file' \in Written(s, file) /\ UNCHANGED tmp
     \/ saving[s].fd = "gone" /\ UNCHANGED <<file, tmp>>
  /\ saving' = [saving EXCEPT ![s].at = "rename", ![s].fd = "none"]
  /\ UNCHANGED <<cfg, session, seq, ready, cast, submitted, book, dirty, log,
                 crashes>>

\* and renames whatever has the temporary name by now.
RenameTmp(s) ==
  /\ saving[s].at = "rename"
  /\ LET moved == [tmp |-> "file", file |-> "gone", gone |-> "gone", none |-> "none"]
     IN  IF tmp = Gone
         THEN /\ saving' = [saving EXCEPT ![s] = Asleep]
              /\ UNCHANGED <<file, tmp>>
         ELSE /\ file' = tmp /\ tmp' = Gone
              /\ saving' = [r \in Saver |-> IF r = s THEN Asleep ELSE
                              [saving[r] EXCEPT !.fd = moved[@]]]
  /\ pc' = IF s = Timer THEN pc ELSE [pc EXCEPT ![s] = Idle("read")]
  /\ UNCHANGED <<cfg, conns, miners, socks, shut, told, paid, seq, ready,
                 cast, submitted, book, dirty, log, crashes>>

load_solo_book == IF file = Torn THEN NoBook ELSE file

\* A solo gateway stops and is started again.  A new extranonce makes the hashes
\* new ones, so jobs go on being numbered.
Crash ==
  /\ mode = "solo" /\ crashes < MaxCrash /\ crashes' = crashes + 1
  /\ conns' = [total |-> 0, per_ip |-> [ip \in Ip |-> 0]]
  /\ miners' = [c \in Conn |-> NoMiner] /\ socks' = {} /\ shut' = {}
  /\ pc' = [c \in Conn |-> Away]
  /\ ready' = FALSE /\ cast' = NoCast /\ submitted' = {}
  /\ book' = load_solo_book /\ dirty' = FALSE
  /\ saving' = [s \in Saver |-> Asleep]
  /\ told' = [c \in Conn |-> {}]
  /\ paid' = [c \in Conn |-> <<>>]
  /\ UNCHANGED <<cfg, seq, file, tmp, log>>

-----------------------------------------------------------------------------
(* The publisher: sockets are snapshotted, written with no lock held, and  *)
(* only then is the job stamped for the sessions it reached.               *)

Target(c, j) == [conn |-> c, job |-> j]

\* gbt_loop publishes a job, in pooled mode.
Publish ==
  /\ mode = "pooled" /\ cast.at = "idle" /\ seq < cfg.jobs
  /\ seq' = seq + 1
  /\ LET j == [id |-> seq + 1, who |-> NoOne]
     IN  cast' = [at |-> "write", left |-> {Target(c, j) : c \in socks},
                  ok |-> {}, dead |-> {}]
  /\ UNCHANGED <<cfg, session, ready, submitted, book, dirty, disk, crashes>>

\* gbt_loop publishes a template, in solo mode: every identity that authorised
\* gets one job, for all its connections.
PublishTemplate ==
  /\ mode = "solo" /\ cast.at = "idle"
  /\ ready' = TRUE
  /\ LET asked == {c \in socks : miners[c].user # NoOne}
         whos  == {miners[c].user : c \in asked}
     IN  /\ seq + Cardinality(whos) <= cfg.jobs
         /\ seq' = seq + Cardinality(whos)
         /\ \E order \in SetToSeqs(whos) :
              cast' = [at |-> "write", ok |-> {}, dead |-> {},
                       left |-> {Target(p[1], [id |-> seq + p[2], who |-> order[p[2]]]) :
                                  p \in {q \in asked \X DOMAIN order :
                                          order[q[2]] = miners[q[1]].user}}]
  /\ UNCHANGED <<cfg, session, submitted, book, dirty, disk, crashes>>

CastWrite(t) ==
  /\ cast.at = "write" /\ t \in cast.left
  /\ \/ cast' = [cast EXCEPT !.left = @ \ {t}, !.ok = @ \cup {t}]
     \/ cast' = [cast EXCEPT !.left = @ \ {t}, !.dead = @ \cup {t.conn}]
  /\ UNCHANGED <<cfg, session, seq, ready, submitted, book, dirty, disk, crashes>>

\* Sessions that are still there get the stamp; dead sockets are forgotten.
CastStamp ==
  /\ cast.at = "write" /\ cast.left = {}
  /\ miners' = [c \in Conn |->
                  IF \E t \in cast.ok : t.conn = c
                  THEN Hand(miners[c], (CHOOSE t \in cast.ok : t.conn = c).job)
                  ELSE miners[c]]
  /\ socks' = socks \ cast.dead
  /\ cast' = NoCast
  /\ UNCHANGED <<cfg, conns, shut, pc, told, paid, seq, ready, submitted,
                 book, dirty, disk, crashes>>

-----------------------------------------------------------------------------
Slots(c) == Accept(c) \/ SpawnFails(c) \/ Start(c) \/ HangUp(c) \/ reap_silent(c)

Lines(c) ==
  \/ Refuse(c) \/ Subscribe(c) \/ FirstJob(c) \/ BadUsername(c)
  \/ \E who \in cfg.names : Authorize(c, who)
  \/ Overdrawn(c) \/ BadParams(c)
  \/ \E j \in Known(c), pot \in 0 .. MaxPot : \E d \in accept_diffs(miners[c], j.id) :
       \/ LowDifficulty(c, j, d, pot) \/ LowFlood(c, j, d, pot)
       \/ Duplicate(c, j, d, pot)
       \/ \E v \in Retargets(miners[c]) : Submit(c, j, d, pot, v)

After(c) == Tell(c) \/ Answer(c) \/ SubmitBlock(c) \/ AppendSoloBlock(c) \/ NoteBlock(c)

Save(s) == Serialise(s) \/ OpenTmp(s) \/ WriteTmp(s) \/ RenameTmp(s)

Next ==
  \/ \E c \in Conn : Slots(c) \/ (miners[c] # NoMiner /\ (Lines(c) \/ After(c)))
  \/ \E s \in Saver : Save(s)
  \/ Publish \/ PublishTemplate \/ (\E t \in cast.left : CastWrite(t)) \/ CastStamp
  \/ Crash

Spec == Init /\ [][Next]_vars

-----------------------------------------------------------------------------
(* A connection slot is taken exactly while a handler is, or is about to   *)
(* be, running, and only running handlers are in the maps the other        *)
(* threads use, whichever way a session ends (try_acquire, SessionGuard):  *)
(* a leaked slot would in the end refuse every miner.                      *)
SlotsExact ==
  /\ conns.total = Cardinality(live)
  /\ \A ip \in Ip : conns.per_ip[ip] = Cardinality({c \in live : IpOf[c] = ip})
  /\ socks \cup {c \in Conn : miners[c] # NoMiner} \subseteq live

(* Whatever difficulty a share would be held to now, the miner has been    *)
(* sent it, if it subscribed first: the job's stamp is written by the      *)
(* publisher's thread, the session's difficulty moves and is sent by the   *)
(* connection's own, and neither waits for the other.                      *)
JudgedAsTold ==
  \A c \in {k \in Conn : miners[k] # NoMiner} : \A j \in Known(c) :
    told[c] # {} /\ Early \notin told[c] =>
      \A d \in accept_diffs(miners[c], j.id) : Judged(c, j, d) => d \in told[c]

(* The last SEEN_CAP hashes paid on a connection are all still known as    *)
(* duplicates: worthless submits do not push paid ones out, which would    *)
(* let them be paid again (note_share after the target check, not before). *)
NoReplay ==
  \A c \in {k \in Conn : miners[k] # NoMiner} : Range(paid[c]) \subseteq Range(miners[c].seen)

(* Every block in the book, in memory or in any copy on its way to disk or *)
(* there, is in the append-only log: the book is a cache of that evidence, *)
(* through crashes and racing savers (maybe_submit_block).                 *)
LogIsEvidence ==
  \A b \in {book} \cup ({file, tmp} \ {Torn}) \cup {saving[s].body : s \in Saver} :
    Range(b.blocks) \subseteq log
=============================================================================
