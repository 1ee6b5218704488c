--------------------------- MODULE CoinbaseKinds ---------------------------
(***************************************************************************)
(* What a coinbase is to Prime (verify.rs) and what a block found on it    *)
(* does to the books (settle in session.rs).  A coinbase is the sequence   *)
(* of its outputs, a list the sequence of outputs a coinbaser issued; a    *)
(* script is a name.  "none" is no script, <<>> no list.                   *)
(***************************************************************************)
EXTENDS Integers, Sequences, FiniteSets, SequencesExt

CONSTANTS tolerance,            \* slack per issued output
          empty_solo_fee_bps,
          Size                  \* bytes of a payee output, by script

Pool     == "pool"
OpReturn == "op_return"

MinOf(x, y) == IF x <= y THEN x ELSE y
Less(x, y)  == IF x >= y THEN x - y ELSE 0         \* saturating_sub
AbsDiff(x, y) == Less(x, y) + Less(y, x)

\* The sum of Amount over the members of a sequence that Pick picks.
SumOver(seq, Pick(_), Amount(_)) ==
  LET upto[n \in 0..Len(seq)] ==
        IF n = 0 THEN 0 ELSE upto[n - 1] + (IF Pick(seq[n]) THEN Amount(seq[n]) ELSE 0)
  IN  upto[Len(seq)]

paid_to(cb, script) == SumOver(cb, LAMBDA o : o.script = script, LAMBDA o : o.sats)
Value(outputs)      == SumOver(outputs, LAMBDA o : TRUE, LAMBDA o : o.sats)
fee_sats(value, bps) == (value * bps) \div 10000

ListPays(issued, script) == \E i \in DOMAIN issued : issued[i].script = script

\* The shape of a job: whether it is the height's subsidy-only one, and whether it
\* has no transactions (empty_job).
SoloKind(subsidy_only, empty) ==
  CASE subsidy_only /\ empty  -> "EmptySolo"
    [] ~subsidy_only          -> "GatewaySolo"
    [] subsidy_only /\ ~empty -> "Foreign"

\* The coinbase pays the gateway's script and nothing else.
gateway_only(cb, gateway) ==
  /\ gateway # "none"
  /\ \E i \in DOMAIN cb : cb[i].script = gateway
  /\ \A i \in DOMAIN cb : \/ cb[i].script = gateway
                          \/ cb[i].script = OpReturn /\ cb[i].sats = 0

\* Against a list: each miner output placed is paid in full and no more.  An amount
\* moves with the value of the template, down for what is owed, up for what is the
\* most that may be paid.
Against(cb, p, subsidy_only, empty) ==
  LET issued     == p.issued
      iv         == Value(issued)
      av         == Value(cb)
      Owed(s)    == IF iv = 0 \/ av >= iv THEN s ELSE (s * av) \div iv
      Cap(s)     == IF iv = 0 \/ av <= iv THEN s ELSE (s * av) \div iv
      slack      == tolerance + Len(issued)
      to_gateway == paid_to(cb, p.gateway)
      excess     == MinOf(Less(av, iv), iv \div 16)
      miners     == {i \in DOMAIN issued : issued[i].script # Pool}
      Paid(i)    == paid_to(cb, issued[i].script)
      present    == {i \in miners : Paid(i) > 0}
      IssuedTo(i) == SumOver(issued, LAMBDA o : o.script = issued[i].script, LAMBDA o : o.sats)
      shorted    == \E i \in present : Paid(i) + tolerance < Owed(issued[i].sats)
      past       == \E i \in present : Paid(i) > Cap(IssuedTo(i)) + slack
      somebody   == ListPays(cb, Pool) \/ ListPays(cb, p.gateway) \/ miners # {}
  IN  CASE /\ to_gateway > excess + slack
           /\ ~ListPays(issued, p.gateway)         -> SoloKind(subsidy_only, empty)
        [] past                                    -> "Foreign"
        [] ~shorted /\ present = miners /\ somebody -> "Split"
        [] ~shorted /\ present # {}                -> "Partial"
        [] OTHER                                   -> "none"

\* classify_outputs, for a policy [issued, gateway, held_split].
classify_outputs(cb, p, subsidy_only, empty) ==
  LET burns    == \E i \in DOMAIN cb : cb[i].script = OpReturn /\ cb[i].sats > 0
      foreign  == \E i \in DOMAIN cb :
                    /\ cb[i].script \notin {OpReturn, Pool, p.gateway}
                    /\ ~ListPays(p.issued, cb[i].script)
      listed   == IF p.issued = <<>> THEN "none" ELSE Against(cb, p, subsidy_only, empty)
      to_pool  == \E i \in DOMAIN cb : cb[i].script = Pool
      OnlyTo(scripts) == \A i \in DOMAIN cb : cb[i].script \in scripts \cup {OpReturn}
      fee      == fee_sats(Value(cb), empty_solo_fee_bps)
  IN  CASE burns \/ foreign                  -> "Foreign"
        [] OTHER -> CASE listed # "none"                  -> listed
                      [] to_pool /\ OnlyTo({Pool})        -> "PoolOnly"
                      [] gateway_only(cb, p.gateway)      -> SoloKind(subsidy_only, empty)
                      [] /\ to_pool /\ ListPays(cb, p.gateway) /\ OnlyTo({Pool, p.gateway})
                         /\ empty_solo_fee_bps > 0 /\ subsidy_only /\ empty
                         /\ AbsDiff(paid_to(cb, Pool), fee) <= tolerance -> "EmptySolo"
                      [] OTHER                            -> "Foreign"

\* A held-split build's section pays the script it is configured with, listed or not.
classify_coinbase(cb, p, subsidy_only, empty) ==
  LET kind == classify_outputs(cb, p, subsidy_only, empty)
  IN  IF kind = "Foreign" /\ p.held_split /\ gateway_only(cb, p.gateway)
      THEN SoloKind(subsidy_only, empty) ELSE kind

\* The coinbase pays the gateway's script what the list did not get, and the pool
\* nothing.
remainder_on_gateway(cb, p) ==
  /\ p.issued # <<>> /\ p.gateway \notin {"none", Pool}
  /\ ListPays(cb, p.gateway)
  /\ \A i \in DOMAIN cb : cb[i].script \notin {p.gateway, OpReturn} =>
       cb[i].script # Pool /\ ListPays(p.issued, cb[i].script)

\* The payee bytes a size class kept of its list, 0 when what it kept is not what
\* placing the list first-fit and in order into some room keeps.
kept_payee_bytes(issued, cb) ==
  LET miners    == {i \in DOMAIN issued : issued[i].script # Pool}
      kept      == {i \in miners : paid_to(cb, issued[i].script) > 0}
      Bytes(S)  == MapThenSumSet(LAMBDA i : Size[issued[i].script], S)
      After(i)  == Bytes({j \in kept : j > i})
      first_fit == \A i \in miners \ kept : Size[issued[i].script] > After(i)
  IN  IF Value(cb) >= Value(issued) /\ first_fit /\ kept # miners THEN Bytes(kept) ELSE 0

-----------------------------------------------------------------------------
(* Settling a block against the coinbaser it was mined on:                 *)
(* [value, payees, unpaid, capped], payees and unpaid of [script, sats,    *)
(* carry].  The rebate's part of a settlement is in Accounts and           *)
(* TidesLedger.                                                            *)

\* Mutation: a larger reward is always near enough.
reward_matches_any(actual, issued) == issued = 0 \/ actual >= issued

reward_matches(actual, issued) == issued = 0 \/ (actual >= issued /\ actual - issued <= issued \div 16)

scale(sats, value, issued) == IF issued = 0 THEN sats ELSE (sats * value) \div issued

NoSettlement == [owed |-> 0, carry_paid |-> 0, reserved |-> 0]

settle(kind, c, cb) ==
  LET value      == Value(cb)
      priced     == kind # "PoolOnly" /\ reward_matches(value, c.value)
      Rescale(x) == IF priced THEN x ELSE scale(x, value, c.value)
      Entitled(q) == Rescale(Less(q.sats, q.carry)) + q.carry
      To(q)      == IF kind = "PoolOnly" THEN 0 ELSE paid_to(cb, q.script)
      Placed(q)  == To(q) > 0 \/ (priced /\ kind = "Split")
      \* Close to the reward asked about, an output placed is one paid.
      Paid(q)    == IF priced THEN (IF Placed(q) THEN Entitled(q) ELSE 0)
                              ELSE MinOf(To(q), Entitled(q))
  IN  IF kind \notin {"Split", "Partial", "PoolOnly"} THEN NoSettlement
      ELSE [owed       |-> SumOver(c.payees, LAMBDA q : TRUE, LAMBDA q : Entitled(q) - Paid(q)),
            carry_paid |-> SumOver(c.payees, Placed, LAMBDA q : MinOf(q.carry, Paid(q))),
            reserved   |-> IF c.capped
                           THEN SumOver(c.unpaid, LAMBDA q : TRUE,
                                        LAMBDA q : Rescale(Less(q.sats, q.carry)))
                           ELSE 0]
=============================================================================
