---------------------------- MODULE PrimeSession ----------------------------
(***************************************************************************)
(* One gateway and its session with Prime (session.rs): which script it is *)
(* configured with from tip to split to tip, the coinbasers it is issued,  *)
(* the job slots and coinbase sections Prime keeps for it, what its shares *)
(* are taken for (CoinbaseKinds), and the checks of its templates with     *)
(* their faults and quarantine (validity.rs, state.rs).                    *)
(*                                                                         *)
(* Whether a share is fresh, on the tip and not a duplicate is ShareIntake;*)
(* a parent off the tip is ParentBook; the books are Accounts and on.  The *)
(* gateway is external: it makes jobs under the script it is configured    *)
(* with, asks for a coinbaser, and hands out sections that place the list  *)
(* as far as it fits and pay the rest to that script.  Messages arrive in  *)
(* order and at once; a slow one is a later step of its receiver.  Jobs    *)
(* and coinbasers have an age, in blocks behind the node's tip.            *)
(***************************************************************************)
EXTENDS CoinbaseKinds

CONSTANTS
  Gateways,         \* the kinds of gateway, one of which is connected
  Window,           \* the miners to pay: [script, part (of 64), carry]
  Room,             \* bytes of payees a section has room for
  SectionBytes,     \* bytes of a coinbase section
  SubsidyOnly,      \* the section of the height's empty job (0xff)
  HELD_SPLIT_SHARES, CLASS_BUDGET_SIGHTINGS, CLASS_BUDGET_MIN_BYTES,
  COINBASERS_KEPT, COINBASER_BURST, COINBASER_GRACE_BLOCKS, MaxCoinbaser,
  MAX_SESSION_IDENTITIES,
  MAX_LIVE_SLOTS, MAX_COINBASES_PER_SLOT, MAX_COINBASE_SECTION_BYTES,
  session_coinbase_budget, class_budget_carry_ceiling,
  quarantine_first, quarantine_cap, MaxStrikes,
  MaxTasks, MaxBlocks       \* tasks waiting for the node, and blocks for transactions

Slot == {0, 1}
Oldest == COINBASER_GRACE_BLOCKS + 2      \* ages are told apart up to here

VARIABLES
  g,            \* the gateway's kind, and g.events what happens to it
  job,          \* per slot, the job the gateway has there
  gw,           \* the gateway: [cur (slot), ask (value), waits, behind]
  s,            \* the session's scripts; see Opened
  coinbasers, next_coinbaser_id, tokens,
  slots, live_slots, coinbase_bytes,
  class_budget, held_off, carry,
  chk,          \* template checks of the session; see NoChecks
  tasks,        \* spawned tasks waiting for the node's verdict
  faults,       \* Faults: [live, pending]
  quarantine,   \* [left, strikes, old (to be forgotten)]
  known,        \* gateway-scripts.json, and the pinned_scripts in memory
  bell          \* notices the session has not received

script_vars == <<s, known>>
list_vars   == <<coinbasers, next_coinbaser_id, tokens>>
slot_vars   == <<slots, live_slots, coinbase_bytes>>
class_vars  == <<class_budget, held_off, carry>>
fault_vars  == <<chk, tasks, faults, quarantine>>
vars == <<g, job, gw, script_vars, list_vars, slot_vars, class_vars, fault_vars, bell>>

Older(age) == MinOf(age + 1, Oldest)

-----------------------------------------------------------------------------
(* Coinbasers.                                                             *)

\* What tides::split::compute makes of the window (module Split), as far as the
\* session looks: payees first-fit in order into the budget (0: the pool's own, which
\* has room for all), each with its share and its carry.
SplitFor(value, budget) ==
  LET listed == SelectSeq(Window, LAMBDA w : w.script # g.own \/ g.listed)
      Pay(w) == [script |-> w.script, sats |-> ((w.part * value) \div 64) + w.carry, carry |-> w.carry]
      Fits(used, w) == budget = 0 \/ used + Size[w.script] <= budget
      placed == FoldLeft(LAMBDA acc, w :
                           IF Fits(acc.used, w)
                           THEN [acc EXCEPT !.used = @ + Size[w.script], !.in = Append(@, Pay(w))]
                           ELSE [acc EXCEPT !.out = Append(@, Pay(w))],
                         [used |-> 0, in |-> <<>>, out |-> <<>>], listed)
  IN  [value |-> value, payees |-> placed.in, unpaid |-> placed.out, capped |-> budget # 0]

\* The payees in order, and last the pool with what is left.
coinbaser_outputs(split) ==
  Append([i \in DOMAIN split.payees |->
            [script |-> split.payees[i].script, sats |-> split.payees[i].sats]],
         [script |-> Pool, sats |-> split.value - Value(split.payees)])

\* The last one issued under an id.
issued(id) ==
  LET under == SelectSeq(coinbasers, LAMBDA c : c.id = id)
  IN  IF under = <<>> THEN <<>> ELSE <<Last(under)>>

\* The coinbaser a job may be held to, as a sequence of at most one: issued for the
\* block the job builds on, or not long before it.
issued_for(id, age) ==
  SelectSeq(issued(id), LAMBDA c : c.age - age <= COINBASER_GRACE_BLOCKS)

SplitOf(c) == SplitFor(c.value, c.budget)

-----------------------------------------------------------------------------
(* The gateway's coinbases.                                                *)

NoJob == [rest |-> "none", cb |-> 0, age |-> Oldest, value |-> 0, list |-> <<>>, bad |-> FALSE]

\* A job too old for any share on it to be taken, whatever it pays.
StaleJob == [NoJob EXCEPT !.rest = Pool]

\* A list placed into a section's room: what fits, in order, and of a rescaling
\* gateway all of it scaled to the template's value.
Placed(j, sec) ==
  LET iv       == Value(j.list)
      Amount(o) == IF g.rescales THEN (o.sats * j.value) \div iv ELSE o.sats
      Step(acc, o) ==
        IF (o.script = Pool \/ acc.used + Size[o.script] <= Room[sec]) /\ acc.paid + Amount(o) <= j.value
        THEN [used |-> acc.used + Size[o.script], paid |-> acc.paid + Amount(o),
              out |-> Append(acc.out, [o EXCEPT !.sats = Amount(o)])]
        ELSE acc
  IN  FoldLeft(Step, [used |-> 0, paid |-> 0, out |-> <<>>], j.list)

\* The coinbase of a section: the list, and what is left to the script of the job.
CoinbaseOf(j, sec) ==
  LET p == IF sec = 0 \/ j.cb = 0 THEN [paid |-> 0, out |-> <<>>] ELSE Placed(j, sec)
  IN  IF p.paid < j.value THEN Append(p.out, [script |-> j.rest, sats |-> j.value - p.paid])
      ELSE p.out

Handed(j) == IF j.rest = "none" THEN {}
             ELSE {sec \in g.sections : IF sec = SubsidyOnly THEN j.cb = 0 ELSE sec = 0 \/ j.cb # 0}

Policy(j) == [gateway |-> s.script, held_split |-> g.held,
              issued |-> LET c == issued_for(j.cb, j.age)
                         IN  IF c = <<>> THEN <<>> ELSE coinbaser_outputs(SplitOf(c[1]))]

KindOf(j, sec) ==
  classify_coinbase(CoinbaseOf(j, sec), Policy(j), sec = SubsidyOnly, sec = SubsidyOnly)

-----------------------------------------------------------------------------
(* Which script the gateway is configured with.                            *)

ScriptOf(identity) == IF identity \in {"a", "b"} THEN identity ELSE "none"

\* run: a session opens on the remembered payout.
Opened(k) ==
  [up |-> TRUE, script |-> k.script, conf |-> Pool, as_gateway |-> FALSE, ready |-> FALSE,
   prev |-> Oldest, restore |-> FALSE, pins |-> k.pinned, on |-> "none", shares |-> 0,
   ids |-> {}, dom |-> "none", full |-> FALSE]

Closed == [Opened([script |-> "none", pinned |-> FALSE]) EXCEPT !.up = FALSE]

send_configure_script(x, script, gateway) == [x EXCEPT !.conf = script, !.as_gateway = gateway]

solo_script(x) == IF x.pins THEN "none" ELSE x.script

send_configure(x) ==
  IF solo_script(x) # "none" THEN send_configure_script(x, solo_script(x), TRUE)
                             ELSE send_configure_script(x, Pool, FALSE)

stay_on_gateway(x) == g.gateway_solo /\ x.full

\* HeldPayout::script.
held_script(x) == IF g.held /\ Cardinality(x.ids) = 1 THEN x.on ELSE "none"

has_split_for_tip(x) == x.ready /\ x.prev = 0

\* A tip without a split for it, or a find: the gateway's own script, if it may have it.
solo_until_split(x) ==
  LET cleared == [x EXCEPT !.ready = FALSE, !.prev = Oldest, !.restore = FALSE]
  IN  IF solo_script(x) = "none" THEN cleared
      ELSE send_configure_script(cleared, solo_script(x), TRUE)

\* The configure that goes out before a coinbaser reply, for a template whose parent
\* has the age given.
flush_coinbaser_reply(x, age) ==
  LET y == CASE held_script(x) # "none" /\ ~x.as_gateway ->
                  send_configure_script(x, held_script(x), TRUE)
             [] held_script(x) = "none" /\ ~stay_on_gateway(x) ->
                  send_configure_script(x, Pool, FALSE)
             [] OTHER -> x
  IN  [y EXCEPT !.restore = FALSE, !.ready = TRUE, !.prev = age]

\* HeldPayout::note: held from the share that makes enough of them, all for one payout.
HeldNow(x, ids, shares, script) ==
  /\ g.held /\ x.on = "none" /\ Cardinality(ids) = 1
  /\ shares >= HELD_SPLIT_SHARES /\ script # "none"

\* A share with work for an identity, which may or may not be the leading one then.
note_identity(x, identity, dom) ==
  LET ids    == x.ids \cup {identity}
      shares == MinOf(x.shares + 1, HELD_SPLIT_SHARES)
      script == ScriptOf(dom)
      now    == HeldNow(x, ids, shares, script)
      on     == IF now THEN script ELSE x.on
      y      == [x EXCEPT !.ids = ids, !.dom = dom, !.shares = IF g.held THEN shares ELSE 0, !.on = on]
      arms   == /\ ~now /\ x.script # script /\ ~x.pins /\ ~x.ready
                /\ ~x.as_gateway /\ ~x.restore
  IN  CASE identity \notin x.ids /\ Cardinality(x.ids) >= MAX_SESSION_IDENTITIES -> x
        [] script = "none" \/ (on # "none" /\ on # script) -> y
        [] OTHER -> [y EXCEPT !.script = script, !.restore = @ \/ arms]

follow_held_split(before, x) ==
  CASE held_script(before) = "none" /\ held_script(x) # "none" ->
         send_configure_script(x, held_script(x), TRUE)
    [] /\ held_script(before) # "none" /\ held_script(x) = "none"
       /\ x.ready /\ ~stay_on_gateway(x) ->
         send_configure_script(x, Pool, FALSE)
    [] OTHER -> x

\* The coinbase shows a job that kept the gateway's script from before its split.
shows_pinned_script(x, j, sec) ==
  /\ ~x.pins /\ ~g.held /\ ~stay_on_gateway(x)
  /\ remainder_on_gateway(CoinbaseOf(j, sec), Policy(j))

\* Mutation: for this job only.
hold_on_pool_script_once(x) ==
  IF x.as_gateway THEN send_configure_script(x, Pool, FALSE) ELSE x

hold_on_pool_script(x) ==
  LET y == [x EXCEPT !.pins = TRUE, !.restore = FALSE]
  IN  IF x.as_gateway THEN send_configure_script(y, Pool, FALSE) ELSE y

-----------------------------------------------------------------------------
(* Job slots and the sections Prime keeps.                                 *)

NoSlot == [has |-> "none", secs |-> {}]      \* has: "this" job of the gateway, or an "old" one

SecsBytes(secs) == MapThenSumSet(LAMBDA c : SectionBytes[c], secs)
AllBytes(ss)    == MapThenSumSet(LAMBDA i : SecsBytes(ss[i].secs), Slot)

\* JobSlot::absorb of a share with its section or without; the job comes along when the
\* slot has another.  Refused, nothing changes: a new job's slot has room for a section.
absorb(slot, sec, with) ==
  LET new  == slot.has # "this"
      base == IF new THEN [has |-> "this", secs |-> {}] ELSE slot
      adds == with /\ sec \notin base.secs
      ok   == /\ ~(with /\ SectionBytes[sec] > MAX_COINBASE_SECTION_BYTES)
              /\ ~(adds /\ Cardinality(base.secs) >= MAX_COINBASES_PER_SLOT)
  IN  IF ok THEN [ok |-> TRUE, changed |-> new, added |-> adds,
                  slot |-> IF adds THEN [base EXCEPT !.secs = @ \cup {sec}] ELSE base]
      ELSE [ok |-> FALSE, changed |-> FALSE, added |-> FALSE, slot |-> slot]

\* The slot starts a new job, and the one longest without one loses its sections.
touch_slot(ss, live, sl) ==
  LET queue == Append(SelectSeq(live, LAMBDA i : i # sl), sl)
      out   == Less(Len(queue), MAX_LIVE_SLOTS)
      gone  == {queue[i] : i \in 1..out}
  IN  [live  |-> SubSeq(queue, out + 1, Len(queue)),
       slots |-> [i \in Slot |-> IF i \in gone THEN [ss[i] EXCEPT !.secs = {}] ELSE ss[i]]]

\* Mutation: the bytes of an evicted slot stay counted.
Stored_counting(sl, sec, with) ==
  LET a     == absorb(slots[sl], sec, with)
      into  == [slots EXCEPT ![sl] = a.slot]
      t     == IF a.changed THEN touch_slot(into, live_slots, sl) ELSE [live |-> live_slots, slots |-> into]
      bytes == Less(coinbase_bytes, SecsBytes(slots[sl].secs)) + SecsBytes(a.slot.secs)
      over  == a.added /\ bytes > session_coinbase_budget
  IN  [ok    |-> a.ok /\ ~over, live |-> t.live,
       slots |-> IF over THEN [t.slots EXCEPT ![sl].secs = @ \ {sec}] ELSE t.slots,
       bytes |-> IF over THEN Less(bytes, SectionBytes[sec]) ELSE bytes]

\* The first part of on_pow: the share's sections go into its slot, and out again when
\* that passes the session's budget.
Stored(sl, sec, with) ==
  LET a     == absorb(slots[sl], sec, with)
      into  == [slots EXCEPT ![sl] = a.slot]
      t     == IF a.changed THEN touch_slot(into, live_slots, sl) ELSE [live |-> live_slots, slots |-> into]
      bytes == IF a.changed THEN AllBytes(t.slots)
               ELSE Less(coinbase_bytes, SecsBytes(slots[sl].secs)) + SecsBytes(a.slot.secs)
      over  == a.added /\ bytes > session_coinbase_budget
  IN  [ok    |-> a.ok /\ ~over, live |-> t.live,
       slots |-> IF over THEN [t.slots EXCEPT ![sl].secs = @ \ {sec}] ELSE t.slots,
       bytes |-> IF over THEN Less(bytes, SectionBytes[sec]) ELSE bytes]

-----------------------------------------------------------------------------
(* Class budgets.                                                          *)

NoBudget == [bytes |-> 0, seen |-> {}]       \* seen: of <<section, bytes kept, coinbaser>>

observe(b, sec, id, kept) ==
  LET ids  == {e \in b.seen : e[1] = sec /\ e[2] = kept}
      seen == IF Cardinality(ids) < CLASS_BUDGET_SIGHTINGS THEN b.seen \cup {<<sec, kept, id>>} ELSE b.seen
      sure == Cardinality({e \in seen : e[1] = sec /\ e[2] = kept}) >= CLASS_BUDGET_SIGHTINGS
  IN  CASE kept < CLASS_BUDGET_MIN_BYTES -> b
        [] OTHER -> [seen  |-> seen,
                     bytes |-> IF sure /\ (b.bytes = 0 \/ b.bytes > kept) THEN kept ELSE b.bytes]

\* A Partial share with work teaches the budget, unless its section was built under the
\* solo tag or its template left too little room.
note_partial_share(j, sec, roomy) ==
  LET p    == Policy(j).issued
      kept == kept_payee_bytes(p, CoinbaseOf(j, sec))
  IN  IF g.class /\ p # <<>> /\ j.rest = Pool /\ kept > 0 /\ roomy
      THEN observe(class_budget, sec, j.cb, kept) ELSE class_budget

reply_class_budget(x) ==
  IF held_script(x) # "none" \/ stay_on_gateway(x) THEN 0 ELSE class_budget.bytes

class_budget_held_off(was) ==
  \/ class_budget_carry_ceiling = 0
  \/ IF was THEN carry > class_budget_carry_ceiling - (class_budget_carry_ceiling \div 4)
            ELSE carry >= class_budget_carry_ceiling

\* Shared::class_budget_open, which remembers on which side of the ceiling it was.
class_budget_open == ~class_budget_held_off(held_off)

\* The budget, or what it is learned from, reaches CLASS_BUDGET_TTL.
expire(b) == {NoBudget, [b EXCEPT !.seen = {}]}

ExpireClassBudget ==
  /\ class_budget # NoBudget
  /\ class_budget' \in expire(class_budget)
  /\ UNCHANGED <<g, job, gw, script_vars, list_vars, slot_vars, held_off, carry, fault_vars, bell>>

\* Blocks confirm, and others pay out.
CarryMoves ==
  /\ g.class /\ carry' \in 0..class_budget_carry_ceiling /\ carry' # carry
  /\ UNCHANGED <<g, job, gw, script_vars, list_vars, slot_vars, class_budget, held_off, fault_vars, bell>>

-----------------------------------------------------------------------------
(* The session's loop.                                                     *)

NoCheck  == [slot |-> 2, age |-> Oldest, bad |-> FALSE, live |-> FALSE]
NoChecks == [check |-> NoCheck, due |-> FALSE, suspect |-> FALSE, blocks |-> {}]
NoFail   == [slot |-> 2, age |-> Oldest]
NoFaults == [live |-> FALSE, pending |-> NoFail]
NoQuarantine == [left |-> 0, strikes |-> 0, old |-> FALSE]

Init ==
  /\ g \in Gateways
  /\ job = [i \in Slot |-> NoJob]
  /\ gw = [cur |-> 0, ask |-> 0, waits |-> FALSE, behind |-> g.behind]
  /\ s = Closed /\ known = [script |-> "none", pinned |-> FALSE]
  /\ coinbasers = <<>> /\ next_coinbaser_id = 1 /\ tokens = COINBASER_BURST
  /\ slots = [i \in Slot |-> NoSlot] /\ live_slots = <<>> /\ coinbase_bytes = 0
  /\ class_budget = NoBudget /\ held_off = FALSE /\ carry = 0
  /\ chk = NoChecks /\ tasks = {} /\ faults = NoFaults
  /\ quarantine = NoQuarantine
  /\ bell = {}

\* Faults::clear; and a quarantine on the books that has run out.
clear == NoFaults
quarantine_has_lapsed == quarantine.strikes > 0 /\ quarantine.left = 0

\* run and the start of serve, for a gateway that is not quarantined.  A quarantine that
\* has lapsed takes the fault with it.  A reconnected gateway starts on new jobs when told.
Connect ==
  /\ ~s.up /\ quarantine.left = 0
  /\ faults' = IF quarantine_has_lapsed THEN clear ELSE faults
  /\ s' = send_configure(Opened(known))
  /\ UNCHANGED <<g, job, gw, known, list_vars, slot_vars, class_vars, chk, tasks, quarantine, bell>>

\* The connection ends: closed, idle, a bad frame, a flood of rejects.
Ended ==
  /\ s' = Closed
  /\ coinbasers' = <<>> /\ next_coinbaser_id' = 1 /\ tokens' = COINBASER_BURST
  /\ slots' = [i \in Slot |-> NoSlot] /\ live_slots' = <<>> /\ coinbase_bytes' = 0
  /\ class_budget' = NoBudget /\ chk' = NoChecks /\ bell' = {}
  /\ gw' = [gw EXCEPT !.ask = 0, !.waits = FALSE]

Disconnect ==
  /\ s.up /\ "close" \in g.events /\ Ended
  /\ UNCHANGED <<g, job, known, held_off, carry, tasks, faults, quarantine>>

\* Prime starts anew: pins, faults and quarantine are in memory only.
Restart ==
  /\ s.up /\ "restart" \in g.events /\ Ended
  /\ known' = [known EXCEPT !.pinned = FALSE]
  /\ tasks' = {} /\ faults' = NoFaults /\ quarantine' = NoQuarantine
  /\ held_off' = FALSE
  /\ UNCHANGED <<g, job, carry>>

\* The node has a new tip: everything else is a block older, and sessions are told.
\* Tips come no faster than the gateway makes jobs.
NewTip ==
  LET Aged(x) == [x EXCEPT !.age = Older(@)]
  IN  /\ "tip" \in g.events /\ (s.up => job[gw.cur].age = 0)
      /\ job' = [i \in Slot |-> IF job[i].rest # "none" /\ job[i].age > 0 THEN StaleJob ELSE Aged(job[i])]
      /\ coinbasers' = [i \in DOMAIN coinbasers |-> Aged(coinbasers[i])]
      /\ s' = [s EXCEPT !.prev = Older(@)]
      /\ chk' = [chk EXCEPT !.check = Aged(@), !.blocks = {Aged(b) : b \in @}]
      /\ tasks' = {Aged(t) : t \in tasks}
      /\ faults' = [faults EXCEPT !.pending = Aged(@)]
      /\ bell' = IF s.up THEN bell \cup {"tip"} ELSE bell
      /\ UNCHANGED <<g, gw, known, next_coinbaser_id, tokens, slot_vars, class_vars, quarantine>>

\* The notify arm of serve.  block_notify makes the gateway build anew, which it may at
\* any time (MakeJob).
Notice(n) ==
  /\ s.up /\ n \in bell /\ bell' = bell \ {n}
  /\ s' = IF n = "find" \/ ~has_split_for_tip(s) THEN solo_until_split(s) ELSE s
  /\ UNCHANGED <<g, job, gw, known, list_vars, slot_vars, class_vars, fault_vars>>

\* The restore_script_at arm of serve.
RestoreScript ==
  /\ s.up /\ s.restore
  /\ s' = [(IF solo_script(s) # "none" THEN send_configure_script(s, solo_script(s), TRUE) ELSE s)
             EXCEPT !.restore = FALSE]
  /\ UNCHANGED <<g, job, gw, known, list_vars, slot_vars, class_vars, fault_vars, bell>>

\* The gateway makes a job on its node's tip in its next slot, under the script it is
\* configured with then, perhaps with the list it has, and asks for a coinbaser (or not: 0).
MakeJob(value, asks, reuse) ==
  LET sl  == (gw.cur + 1) % g.slots
      old == job[gw.cur]
      cb  == IF reuse THEN old.cb ELSE 0
  IN  /\ s.up /\ gw.ask = 0 /\ ~gw.waits
      /\ reuse => g.reuses /\ old.cb # 0
      /\ job' = [job EXCEPT ![sl] =
                   [rest |-> s.conf, cb |-> cb, age |-> 0, value |-> value,
                    list |-> IF reuse THEN old.list ELSE <<>>, bad |-> gw.behind]]
      /\ gw' = [gw EXCEPT !.cur = sl, !.ask = asks, !.waits = asks # 0]
      /\ slots' = [slots EXCEPT ![sl].has = IF @ = "this" THEN "old" ELSE @]
      /\ UNCHANGED <<g, script_vars, list_vars, live_slots, coinbase_bytes, class_vars, fault_vars, bell>>

\* It stops waiting for the reply.
GiveUp ==
  /\ gw.waits /\ "late" \in g.events /\ gw' = [gw EXCEPT !.waits = FALSE]
  /\ UNCHANGED <<g, job, script_vars, list_vars, slot_vars, class_vars, fault_vars, bell>>

\* The reply reaches the gateway, which waits for it or not.  A pinning gateway leaves
\* the job the script it was made under.
Reached(x, c) ==
  LET j == job[gw.cur]
  IN  IF gw.waits
      THEN /\ job' = [job EXCEPT ![gw.cur] =
                        [j EXCEPT !.cb = c.id, !.list = coinbaser_outputs(SplitOf(c)),
                                  !.rest = IF g.pins THEN @ ELSE x.conf]]
           /\ slots' = [slots EXCEPT ![gw.cur].has = IF @ = "this" THEN "old" ELSE @]
      ELSE UNCHANGED <<job, slots>>

\* With the bucket empty, the last reply for the same value and budget is repeated; with
\* none, or within the bucket, there is a fresh one.
coinbaser_action(n, value, budget) ==
  LET same == SelectSeq(coinbasers, LAMBDA c : c.value = value /\ c.budget = budget)
  IN  IF n = 0 /\ same # <<>> THEN <<Last(same)>> ELSE <<>>

\* on_coinbaser_request, with n tokens in the bucket once it is refilled.
CoinbaserRequest(n) ==
  LET learned == reply_class_budget(s)
      budget  == IF learned # 0 /\ class_budget_open THEN learned ELSE 0
      again   == coinbaser_action(n, gw.ask, budget)
      repeat  == again # <<>>
      c       == IF repeat THEN again[1]
                 ELSE [id |-> next_coinbaser_id, value |-> gw.ask, budget |-> budget, age |-> 0]
      all     == Append(coinbasers, c)
  IN  /\ s.up /\ gw.ask # 0
      /\ n \in tokens..COINBASER_BURST /\ ("burst" \in g.events \/ n > 0)
      /\ s' = flush_coinbaser_reply(s, job[gw.cur].age)
      /\ Reached(s', c)
      /\ gw' = [gw EXCEPT !.ask = 0, !.waits = FALSE]
      /\ held_off' = IF learned # 0 THEN ~class_budget_open ELSE held_off
      /\ tokens' = Less(n, 1)
      /\ IF repeat THEN UNCHANGED <<coinbasers, next_coinbaser_id>>
         ELSE /\ coinbasers' = SubSeq(all, Less(Len(all), COINBASERS_KEPT) + 1, Len(all))
              /\ next_coinbaser_id' = IF c.id = MaxCoinbaser THEN 1 ELSE c.id + 1
      /\ UNCHANGED <<g, known, live_slots, coinbase_bytes, class_budget, carry, fault_vars, bell>>

-----------------------------------------------------------------------------
(* Shares.                                                                 *)

\* What the node's chain says of a job (Tip::check_job, and parent_verdict for a gateway
\* whose node may follow another chain).
Chain(j) ==
  (CASE j.age = 0 -> {"Current"} [] j.age = 1 -> {"Current", "Stale"} [] OTHER -> {"Stale"})
    \cup (IF gw.behind /\ "fork" \in g.events THEN {"Dead"} ELSE {})

\* Whether this share has the gateway asked for its job's transactions, to check them.
ChecksTemplate(j, sl, sec, chain) ==
  /\ ~g.house /\ chain = "Current" /\ j.age = 0 /\ g.txs /\ sec # SubsidyOnly
  /\ chk.due /\ ~chk.check.live
  /\ \A b \in chk.blocks : b.slot # sl

maybe_check_template(j, sl, sec, chain) ==
  IF ChecksTemplate(j, sl, sec, chain)
  THEN [chk EXCEPT !.due = FALSE, !.check = [slot |-> sl, age |-> j.age, bad |-> j.bad, live |-> TRUE]]
  ELSE chk

\* Mutation: a faulted gateway is refused and no more.
recheck_faulted_never(j, sl, sec, chain) == chk

\* refuse_faulted goes on to check the template.
recheck_faulted(j, sl, sec, chain) == maybe_check_template(j, sl, sec, chain)

\* on_block_candidate, the session's part: the transactions are asked for and everyone
\* is told.  What it books is settle, in MadeWhole.
OnBlockCandidate(cand, c, j, sl) ==
  /\ chk' = IF cand THEN [c EXCEPT !.blocks = @ \cup {[slot |-> sl, age |-> j.age, bad |-> j.bad]}] ELSE c
  /\ bell' = IF cand THEN bell \cup {"find"} ELSE bell

\* What later sessions of the gateway open on: its payout, once it has a new one, and
\* whether its jobs keep the script they were made under.
remember_pinned_script(x) == known.pinned \/ x.pins
remember_gateway(x, y) ==
  [script |-> IF y.script # x.script THEN y.script ELSE known.script, pinned |-> remember_pinned_script(x)]

\* Counted: a full job that paid only the pool tells what the gateway does late.
note_pool_only_share(x, kind, sec) ==
  [x EXCEPT !.full = @ \/ (kind = "PoolOnly" /\ sec # SubsidyOnly)]

\* A share refused for its sections, its chain or its coinbase changes what Prime has of
\* its slot, and little else.
Refused(x, c) ==
  /\ s' = x /\ chk' = c
  /\ known' = [known EXCEPT !.pinned = remember_pinned_script(x)]
  /\ UNCHANGED <<class_budget, bell>>

\* The rest of on_pow, for a share the coinbase of which is taken.
Taken(x, j, sl, sec, kind, chain, who, work, roomy, cand) ==
  IF faults.live /\ ~g.house
  THEN /\ s' = x /\ known' = [known EXCEPT !.pinned = remember_pinned_script(x)]
       /\ OnBlockCandidate(cand, recheck_faulted(j, sl, sec, chain), j, sl)
       /\ UNCHANGED class_budget
  ELSE /\ \E dom \in {IF x.dom = "none" THEN who ELSE x.dom, who} :
            LET y == IF work THEN follow_held_split(x, note_identity(x, who, dom)) ELSE x
            IN  s' = note_pool_only_share(y, kind, sec) /\ known' = remember_gateway(x, y)
       /\ class_budget' = IF work /\ kind = "Partial"
                          THEN note_partial_share(j, sec, roomy) ELSE class_budget
       /\ OnBlockCandidate(cand, maybe_check_template(j, sl, sec, chain), j, sl)

\* on_pow, for a share the coinbase of which is of the kind given.
Share(sl, sec, kind, with, chain, who, work, roomy, cand) ==
  LET j      == job[sl]
      st     == Stored(sl, sec, with)
      pinned == kind \in {"Foreign", "GatewaySolo"} /\ shows_pinned_script(s, j, sec)
      x      == IF pinned THEN hold_on_pool_script(s) ELSE s
  IN  /\ s.up /\ sec \in Handed(j) /\ who \in g.payouts /\ chain \in Chain(j)
      /\ cand => g.finds /\ Cardinality(chk.blocks) < MaxBlocks
      /\ slots' = st.slots /\ live_slots' = st.live /\ coinbase_bytes' = st.bytes
      /\ CASE ~st.ok \/ chain = "Stale" -> Refused(s, chk)
           [] st.ok /\ chain = "Dead" ->
                Refused(s, [chk EXCEPT !.suspect = TRUE, !.due = @ \/ ~chk.suspect])
           [] st.ok /\ chain = "Current" /\ sec \notin st.slots[sl].secs -> Refused(s, chk)
           [] OTHER -> IF kind = "Foreign" THEN Refused(x, chk)
                       ELSE Taken(x, j, sl, sec, kind, chain, who, work, roomy, cand)
      /\ UNCHANGED <<g, job, gw, list_vars, held_off, carry, tasks, faults, quarantine>>

-----------------------------------------------------------------------------
(* Template checks, faults and quarantine.                                 *)

\* The time for the next check comes; TEMPLATE_CHECK_TTL and PENDING_BLOCK_TTL pass.
CheckDue ==
  /\ s.up /\ ~chk.due /\ ~g.house /\ g.txs /\ chk' = [chk EXCEPT !.due = TRUE]
  /\ UNCHANGED <<g, job, gw, script_vars, list_vars, slot_vars, class_vars, tasks, faults, quarantine, bell>>

CheckLapses ==
  /\ "lapse" \in g.events
  /\ \/ chk.check.live /\ chk' = [chk EXCEPT !.check.live = FALSE]
     \/ chk.blocks # {} /\ chk' = [chk EXCEPT !.blocks = {}]
  /\ UNCHANGED <<g, job, gw, script_vars, list_vars, slot_vars, class_vars, tasks, faults, quarantine, bell>>

\* on_validation: the transactions of the job in a slot, or word that there are none.
\* They are for every block and the check waiting on that slot.
OnValidation(sl, ok) ==
  LET asked == chk.check.slot = sl
      due   == {b \in chk.blocks : b.slot = sl}
      Task(why, b) == [why |-> why, slot |-> sl, age |-> b.age, bad |-> b.bad, at |-> "node"]
      spawned == {Task("block", b) : b \in due} \cup (IF asked THEN {Task("check", chk.check)} ELSE {})
  IN  /\ s.up /\ spawned # {} /\ Cardinality(tasks) + Cardinality(spawned) <= MaxTasks
      /\ chk' = [chk EXCEPT !.check = IF asked THEN NoCheck ELSE @, !.blocks = @ \ due]
      /\ tasks' = IF ok THEN tasks \cup spawned ELSE tasks
      /\ UNCHANGED <<g, job, gw, script_vars, list_vars, slot_vars, class_vars, faults, quarantine, bell>>

\* What the node may say: of a template with a premature spend that, of another that it
\* is fine, or that inputs are missing when the reply was partial; of either, something
\* about the block or nothing at all.
Verdicts(t) == {IF t.bad THEN "premature" ELSE "pass"} \cup
  (IF "odd" \in g.events THEN {"other"} \cup (IF t.bad THEN {} ELSE {"missing"}) ELSE {})

job_token(t) == [slot |-> t.slot, age |-> t.age]

\* Verdicts on the template's own transactions; and the one no accident explains, of a
\* template that was checked and of a block that was submitted.
template_fault(verdict) == verdict \in {"premature", "missing"}
faults_at_once(verdict) == verdict = "premature"
says_outdated_node(verdict) == verdict = "premature"

\* Faults::note_fail: at once for a live fault or a premature spend; else with the second
\* failure in a row on another job, which is taken from pending before the fault is set.
note_fail(t, verdict) ==
  CASE faults.live \/ faults_at_once(verdict) ->
         /\ faults' = [live |-> TRUE, pending |-> NoFail] /\ tasks' = tasks \ {t}
    [] ~(faults.live \/ faults_at_once(verdict)) /\ faults.pending = NoFail ->
         /\ faults' = [faults EXCEPT !.pending = job_token(t)] /\ tasks' = tasks \ {t}
    [] ~(faults.live \/ faults_at_once(verdict)) /\ faults.pending \notin {NoFail, job_token(t)} ->
         /\ faults' = [faults EXCEPT !.pending = NoFail]
         /\ tasks' = (tasks \ {t}) \cup {[t EXCEPT !.at = "set"]}
    [] OTHER -> faults' = faults /\ tasks' = tasks \ {t}

\* quarantine_gateway: twice as long with every strike.
quarantine_gateway(q) ==
  LET strikes == IF q.old THEN 1 ELSE MinOf(q.strikes + 1, MaxStrikes)
  IN  [left |-> MinOf(quarantine_first * 2 ^ (strikes - 1), quarantine_cap), strikes |-> strikes, old |-> FALSE]

\* The node answers a check_template or submit_candidate task.
NodeAnswers(t, verdict) ==
  /\ t \in tasks /\ t.at = "node" /\ verdict \in Verdicts(t)
  /\ CASE template_fault(verdict) -> note_fail(t, verdict)
       [] verdict = "pass" -> faults' = clear /\ tasks' = tasks \ {t}
       [] OTHER -> faults' = faults /\ tasks' = tasks \ {t}
  /\ quarantine' = IF says_outdated_node(verdict) /\ t.why = "block" THEN quarantine_gateway(quarantine)
                   ELSE quarantine
  /\ UNCHANGED <<g, job, gw, script_vars, list_vars, slot_vars, class_vars, chk, bell>>

SetFault(t) ==
  /\ t \in tasks /\ t.at = "set" /\ tasks' = tasks \ {t}
  /\ faults' = [live |-> TRUE, pending |-> NoFail]
  /\ UNCHANGED <<g, job, gw, script_vars, list_vars, slot_vars, class_vars, chk, quarantine, bell>>

\* A fault is as old as quarantine-max-hours, and so no shorter than any quarantine.
FaultExpires ==
  /\ faults.live /\ quarantine.left = 0 /\ faults' = [faults EXCEPT !.live = FALSE]
  /\ UNCHANGED <<g, job, gw, script_vars, list_vars, slot_vars, class_vars, chk, tasks, quarantine, bell>>

\* Time passes for a quarantined gateway.  Long after it has lapsed the strikes are too
\* old to count, and go when another gateway is quarantined.
QuarantineRuns ==
  /\ \/ quarantine.left > 0 /\ quarantine' = [quarantine EXCEPT !.left = @ - 1]
     \/ quarantine.left = 0 /\ quarantine.strikes > 0 /\ quarantine' = [quarantine EXCEPT !.old = TRUE]
     \/ quarantine.old /\ quarantine' = NoQuarantine
  /\ UNCHANGED <<g, job, gw, script_vars, list_vars, slot_vars, class_vars, chk, tasks, faults, bell>>

\* The gateway's operator upgrades its node.
Upgrade ==
  /\ gw.behind /\ gw' = [gw EXCEPT !.behind = FALSE]
  /\ UNCHANGED <<g, job, script_vars, list_vars, slot_vars, class_vars, fault_vars, bell>>

-----------------------------------------------------------------------------
\* Whether the template left room is its gateway's word.
template_left_room == IF g.class THEN BOOLEAN ELSE {FALSE}

If(flag) == IF flag THEN BOOLEAN ELSE {FALSE}
Only(event) == IF event \in g.events THEN {FALSE} ELSE {}

AnyJob   == \E value \in g.values, asks \in g.asks, reuse \in If(g.reuses) : MakeJob(value, asks, reuse)
AnyShare ==
  \E sl \in Slot : \E sec \in Handed(job[sl]) : \E kind \in {KindOf(job[sl], sec)} :
    \E with \in {TRUE} \cup Only("bare"), chain \in Chain(job[sl]), who \in g.payouts,
       work \in {TRUE} \cup Only("easy"), roomy \in template_left_room, cand \in If(g.finds) :
      Share(sl, sec, kind, with, chain, who, work, roomy, cand)
AnyRequest == \E n \in 0..COINBASER_BURST : CoinbaserRequest(n)
AnyAnswer(ok) == \E sl \in Slot : OnValidation(sl, ok)
AnyVerdict(verdict) == \E t \in tasks : NodeAnswers(t, verdict)

Next ==
  \/ Connect \/ Disconnect \/ Restart
  \/ NewTip \/ (\E n \in bell : Notice(n)) \/ RestoreScript
  \/ AnyJob \/ GiveUp \/ AnyRequest \/ AnyShare
  \/ ExpireClassBudget \/ CarryMoves
  \/ CheckDue \/ CheckLapses \/ (\E ok \in {TRUE} \cup Only("lapse") : AnyAnswer(ok))
  \/ (\E v \in {"premature", "pass", "missing", "other"} : AnyVerdict(v)) \/ (\E t \in tasks : SetFault(t))
  \/ FaultExpires \/ QuarantineRuns \/ Upgrade

Spec == Init /\ [][Next]_vars

\* A share of the gateway's, faulted or not, would start a check.
CanCheck ==
  s.up /\ \E sl \in Slot : \E sec \in Handed(job[sl]) :
    LET Checked == IF faults.live THEN recheck_faulted(job[sl], sl, sec, "Current")
                                  ELSE maybe_check_template(job[sl], sl, sec, "Current")
    IN  Checked.check # chk.check

\* A check that tells Prime nothing of a good template.
Inconclusive == \/ AnyAnswer(FALSE)
                \/ \E t \in tasks : ~t.bad /\ (NodeAnswers(t, "missing") \/ NodeAnswers(t, "other"))

\* What goes on is not put off for ever, each by the state it leaves: connecting, notices,
\* the restore timer, requests for a coinbaser, new jobs, quarantine, due checks and the
\* shares that start them, requests for transactions, and the tasks of the node.
\* Connections, replies and checks fail for a while only.
Fairness ==
  /\ []<>(s.up \/ quarantine.left > 0) /\ []<>(bell = {}) /\ []<>~s.restore /\ []<>(gw.ask = 0)
  /\ \A i \in Slot : []<>(gw.cur = i % g.slots)
  /\ []<>(gw.behind \/ ~job[gw.cur].bad) /\ []<>(quarantine.left = 0)
  /\ []<>(chk.due \/ ~s.up \/ ~g.txs) /\ []<>~CanCheck
  /\ []<>(chk.check.slot = 2) /\ []<>(chk.blocks = {}) /\ []<>(tasks = {})
  /\ <>[](gw.ask # 0 => gw.waits) /\ <>[](chk.check.slot # 2 => chk.check.live)
  /\ <>[][~Disconnect /\ ~Restart /\ ~Inconclusive]_vars

FairSpec == Spec /\ Fairness

-----------------------------------------------------------------------------
TypeOK ==
  /\ g \in Gateways /\ s.conf \in {Pool, "a", "b"} /\ s.script \in {"none", "a", "b"}
  /\ \A i \in Slot : slots[i].secs \subseteq g.sections /\ job[i].age \in 0..Oldest
  /\ Len(coinbasers) <= COINBASERS_KEPT /\ next_coinbaser_id \in 1..MaxCoinbaser
  /\ class_budget.bytes \in Nat /\ tokens \in 0..COINBASER_BURST
  /\ quarantine.left \in 0..quarantine_cap /\ coinbase_bytes \in Nat

\* What Prime holds of a gateway's sections stays within the session's budget, and the
\* running count it is held to (coinbase_bytes, kept up incrementally by on_pow through
\* new jobs, evictions and refusals) is exact.
SectionsWithinBudget ==
  /\ TypeOK
  /\ coinbase_bytes = AllBytes(slots) /\ coinbase_bytes <= session_coinbase_budget

\* What a payee is to get of a reward: its share of it, and its carry.  Near the reward
\* asked about, the figure it was asked for.
Due(q, value, c) ==
  IF value >= c.value /\ value - c.value <= c.value \div 16 THEN q.sats
  ELSE (((q.sats - q.carry) * value) \div c.value) + q.carry

\* Whatever section a block is found on, and whatever value its list was asked for: if the
\* share is taken for the pool's (classify_coinbase), then what the coinbase pays the
\* payees and what settle says they are owed come to what they are due.
MadeWhole ==
  \A sl \in Slot : \A sec \in Handed(job[sl]) :
    LET j     == job[sl]
        kind  == KindOf(j, sec)
        cb    == CoinbaseOf(j, sec)
        held  == issued_for(j.cb, j.age)
        c     == IF held # <<>> THEN SplitOf(held[1]) ELSE SplitFor(j.value, 0)
        due   == SumOver(c.payees, LAMBDA q : TRUE, LAMBDA q : Due(q, j.value, c))
        paid  == SumOver(c.payees, LAMBDA q : TRUE,
                         LAMBDA q : MinOf(paid_to(cb, q.script), Due(q, j.value, c)))
        owed  == settle(kind, c, cb).owed
        slack == tolerance * Len(c.payees)
    IN  s.up /\ (kind = "PoolOnly" \/ (kind \in {"Split", "Partial"} /\ held # <<>>))
          => AbsDiff(paid + owed, due) <= slack

\* Prime holds a coinbase of the gateway's job on the tip that it refuses.
BadOutputs ==
  \E sl \in Slot : /\ slots[sl].has = "this" /\ job[sl].age = 0
                   /\ \E sec \in slots[sl].secs : KindOf(job[sl], sec) = "Foreign"

\* A gateway with one payout has its shares refused as bad-coinbase-outputs for a while
\* at most, whichever way it builds its jobs: hold_on_pool_script, HeldPayout and the
\* configure before each reply leave it on a script its coinbases may pay.  It does not
\* hold of one that outruns its bucket while it asks about several values: a repeated
\* reply can be the next to be forgotten (COINBASERS_KEPT).
RefusalsStop == Cardinality(g.payouts) = 1 => <>[]~BadOutputs

\* Once its node is upgraded a gateway is connected and credited again, whatever checks,
\* blocks and quarantines of it are still on their way.
FaultLifts == ~gw.behind ~> (s.up /\ ~faults.live)
=============================================================================
