----------------------------- MODULE GatewayLink -----------------------------
(***************************************************************************)
(* lazarus-gateway between its node and Prime, pooled mode: the queue of   *)
(* shares for Prime (send_prime, release_prime_slots), the thread that     *)
(* owns the session (prime_loop) and the thread that turns templates into  *)
(* jobs (gbt_loop).  The threads share a queue, a depth counter that gates *)
(* it, the last split Prime gave, and a flag that a pass is due.           *)
(*                                                                         *)
(* A split is the sequence of its outputs' sats and the session that gave  *)
(* it (a coinbaser id means nothing to another session).  A share is       *)
(* counted, not described.  Time is what may have passed: a deadline or    *)
(* the refresh interval may run out at any moment.                         *)
(***************************************************************************)
EXTENDS Integers, Sequences, FiniteSets, Functions

CONSTANTS Thread,    \* stratum handlers forwarding shares
          QueueCap,  \* PRIME_QUEUE_CAP
          Value,     \* sats a template may be worth
          MaxSess,   \* bound: sessions with Prime
          MaxTip,    \* bound: blocks the node sees
          MaxAsk     \* bound: coinbaser requests not answered yet

ASSUME LinkAssumption ==
  /\ QueueCap \in Nat \ {0} /\ Value \subseteq Nat \ {0, 1}
  /\ MaxSess \in Nat /\ MaxTip \in Nat /\ MaxAsk \in Nat \ {0}
  /\ IsFiniteSet(Thread) /\ Thread # {}

VARIABLES up,       \* prime_loop has a session
          sess,     \* how many it has had; the number of the current one
          step,     \* where prime_loop is in its inner loop
          queue,    \* shares in the channel to prime_loop
          out,      \* what it has drained: requests, and a number of shares
          urgent,   \* coinbaser requests in the urgent channel, by value
          inbox,    \* requests Prime has and will answer, oldest first
          depth,    \* prime_depth
          sending,  \* where each handler is in send_prime
          last_cb,  \* the last split, or NoSplit
          due,      \* gbt_due
          pass,     \* where gbt_loop is, its template and the split it took
          job,      \* the job last published, or NoJob
          tip,      \* the node's best block
          aged      \* JOB_REFRESH has passed since the last job

link == <<up, sess, step, queue, out, inbox>>
vars == <<up, sess, step, queue, out, urgent, inbox, depth, sending, last_cb,
          due, pass, job, tip, aged>>

NoSplit == [value |-> 0, sess |-> 0, sats |-> <<>>]
NoJob   == [value |-> 0, sess |-> 0, sats |-> <<>>, tip |-> 0]
Resting == [pc |-> "rest", tip |-> 0, value |-> 0, split |-> NoSplit]
Nothing == [asks |-> <<>>, shares |-> 0]

value_sum(sats) == SumFunction(sats)

Minus(a, b) == IF a > b THEN a - b ELSE 0

Init ==
  /\ up = FALSE /\ sess = 0 /\ step = "drain"
  /\ queue = 0 /\ out = Nothing /\ urgent = <<>> /\ inbox = <<>>
  /\ depth = 0 /\ sending = [t \in Thread |-> "idle"]
  /\ last_cb = NoSplit /\ due = TRUE /\ pass = [Resting EXCEPT !.tip = -1]
  /\ job = NoJob /\ tip = 0 /\ aged = TRUE 

-----------------------------------------------------------------------------
(* Handlers: send_prime looks at the depth, sends, then counts.            *)

\* Mutation: the gate is not looked at.
Gate_open(t) ==
  /\ sending[t] = "idle"
  /\ sending' = [sending EXCEPT ![t] = "send"]
  /\ UNCHANGED <<link, urgent, depth, last_cb, due, pass, job, tip, aged>>

\* A share over the cap is dropped, which changes nothing here.
Gate(t) ==
  /\ sending[t] = "idle" /\ depth < QueueCap
  /\ sending' = [sending EXCEPT ![t] = "send"]
  /\ UNCHANGED <<link, urgent, depth, last_cb, due, pass, job, tip, aged>>

Enqueue(t) ==
  /\ sending[t] = "send"
  /\ queue' = queue + 1
  /\ sending' = [sending EXCEPT ![t] = "count"]
  /\ UNCHANGED <<up, sess, step, out, inbox, urgent, depth, last_cb, due, pass,
                 job, tip, aged>>

Count(t) ==
  /\ sending[t] = "count"
  /\ depth' = depth + 1
  /\ sending' = [sending EXCEPT ![t] = "idle"]
  /\ UNCHANGED <<link, urgent, last_cb, due, pass, job, tip, aged>>

-----------------------------------------------------------------------------
(* prime_loop.                                                             *)

\* connect_prime succeeds: the gate reopens, the dead session's split is
\* dropped and a pass is due.
Connect ==
  /\ ~up /\ sess < MaxSess
  /\ up' = TRUE /\ sess' = sess + 1 /\ step' = "drain"
  /\ depth' = 0 /\ last_cb' = NoSplit /\ due' = TRUE
  /\ UNCHANGED <<queue, out, urgent, inbox, sending, pass, job, tip, aged>>

\* Everything in both channels is taken, urgent first.
Drain ==
  /\ up /\ step = "drain"
  /\ out' = [asks |-> urgent, shares |-> queue]
  /\ urgent' = <<>> /\ queue' = 0 /\ step' = "write"
  /\ UNCHANGED <<up, sess, inbox, depth, sending, last_cb, due, pass, job, tip,
                 aged>>

\* release_prime_slots saturates at zero.
release_prime_slots(n) == depth' = Minus(depth, n)

WriteAll ==
  /\ up /\ step = "write"
  /\ inbox' = inbox \o out.asks
  /\ release_prime_slots(out.shares)
  /\ out' = Nothing /\ step' = "read"
  /\ UNCHANGED <<up, sess, queue, urgent, sending, last_cb, due, pass, job, tip,
                 aged>>

\* A write fails after `released' shares, the failing one counted (none when
\* it is a request); the rest of what was drained is gone with the session.
WriteFails(released) ==
  /\ up /\ step = "write" /\ sess < MaxSess
  /\ out.asks # <<>> \/ out.shares > 0
  /\ IF released = 0 THEN out.asks # <<>> ELSE released <= out.shares
  /\ release_prime_slots(released)
  /\ up' = FALSE /\ inbox' = <<>> /\ out' = Nothing /\ step' = "drain"
  /\ UNCHANGED <<sess, queue, urgent, sending, last_cb, due, pass, job, tip,
                 aged>>

\* Prime answers the oldest request, with the payees of its window and the
\* pool last, or with the pool alone when the window has nobody to pay.
ReadSplit(sats) ==
  /\ up /\ step = "read" /\ inbox # <<>>
  /\ last_cb' = [value |-> Head(inbox), sess |-> sess, sats |-> sats]
  /\ inbox' = Tail(inbox) /\ step' = "drain"
  /\ UNCHANGED <<up, sess, queue, out, urgent, depth, sending, due, pass, job,
                 tip, aged>>

ReadPayees ==
  /\ inbox # <<>>
  /\ ReadSplit(<<1, Head(inbox) - 1>>)

ReadPoolOnly ==
  /\ inbox # <<>>
  /\ ReadSplit(<<Head(inbox)>>)

\* A block notify makes a pass due.
ReadNotify ==
  /\ up /\ step = "read"
  /\ due' = TRUE /\ step' = "drain"
  /\ UNCHANGED <<up, sess, queue, out, inbox, urgent, depth, sending, last_cb,
                 pass, job, tip, aged>>

ReadNothing ==
  /\ up /\ step = "read"
  /\ step' = "drain"
  /\ UNCHANGED <<up, sess, queue, out, inbox, urgent, depth, sending, last_cb,
                 due, pass, job, tip, aged>>

ReadFails ==
  /\ up /\ step = "read" /\ sess < MaxSess
  /\ up' = FALSE /\ inbox' = <<>> /\ step' = "drain"
  /\ UNCHANGED <<sess, queue, out, urgent, depth, sending, last_cb, due, pass,
                 job, tip, aged>>

-----------------------------------------------------------------------------
(* gbt_loop.  `pass.tip' at rest is last_hash.                             *)

NewBlock ==
  /\ tip < MaxTip
  /\ tip' = tip + 1
  /\ UNCHANGED <<link, urgent, depth, sending, last_cb, due, pass, job, aged>>

Age ==
  /\ ~aged
  /\ aged' = TRUE
  /\ UNCHANGED <<link, urgent, depth, sending, last_cb, due, pass, job, tip>>

\* The template of a pass worth making: Prime is asked for its split.
Template(v) ==
  /\ pass.pc = "rest"
  /\ tip # pass.tip \/ due \/ aged
  /\ Len(urgent) + Len(inbox) + Len(out.asks) < MaxAsk
  /\ due' = FALSE
  /\ urgent' = Append(urgent, v)
  /\ pass' = [pc |-> "wait", tip |-> tip, value |-> v, split |-> NoSplit]
  /\ UNCHANGED <<link, depth, sending, last_cb, job, tip, aged>>

\* The node does not answer with a template; the kick is spent all the same, and
\* so is the new tip when getbestblockhash had named it (last_hash).
NoTemplate ==
  /\ pass.pc = "rest"
  /\ tip # pass.tip \/ due \/ aged
  /\ due' = FALSE
  /\ pass' \in {pass, [pass EXCEPT !.tip = tip]}
  /\ UNCHANGED <<link, urgent, depth, sending, last_cb, job, tip, aged>>

\* CoinbaserV2::scale_to: the same ratios, the last output takes the rest.
scale_to(sats, v) ==
  LET old == value_sum(sats)
      n   == Len(sats)
      cut == [i \in 1 .. n |-> (sats[i] * v) \div old]
  IN  IF old = 0 \/ old = v \/ n = 0 THEN sats
      ELSE [cut EXCEPT ![n] = Minus(v, value_sum(SubSeq(cut, 1, n - 1)))]

\* The split this pass would build on: Prime's for the very value, or when the
\* wait is over the last one scaled; gbt_loop checks what it sums to.
Taken == [last_cb EXCEPT !.sats = scale_to(@, pass.value)]

\* Mutation: a split for another value is never scaled.
split_for_value_exact ==
  Len(last_cb.sats) >= 2 /\ last_cb.value = pass.value

split_for_value ==
  Len(last_cb.sats) >= 2 /\ value_sum(Taken.sats) \in 1 .. pass.value

TakeSplit ==
  /\ pass.pc = "wait" /\ split_for_value
  /\ pass' = [pass EXCEPT !.pc = "build", !.split = Taken]
  /\ UNCHANGED <<link, urgent, depth, sending, last_cb, due, job, tip, aged>>

GiveUp ==
  /\ pass.pc = "wait" /\ ~split_for_value
  /\ pass' = [Resting EXCEPT !.tip = pass.tip]
  /\ UNCHANGED <<link, urgent, depth, sending, last_cb, due, job, tip, aged>>

\* build_template makes room for the coinbase by dropping the tail of the
\* transactions and `fees' with it; the split is scaled down to what is left.
\* Mutation: the split is not scaled when fees were cut off.
Rescaled_never(sats, v) == sats

Rescaled(sats, v) == IF value_sum(sats) > v THEN scale_to(sats, v) ELSE sats

Publish(fees) ==
  /\ pass.pc = "build"
  /\ LET v == Minus(pass.value, fees)
     IN  job' = [value |-> v, sess |-> pass.split.sess, tip |-> pass.tip,
                 sats |-> Rescaled(pass.split.sats, v)]
  /\ aged' = FALSE
  /\ pass' = [Resting EXCEPT !.tip = pass.tip]
  /\ UNCHANGED <<link, urgent, depth, sending, last_cb, due, tip>>

\* The witness commitment cannot be derived and the block would be too heavy.
Overweight ==
  /\ pass.pc = "build"
  /\ pass' = [Resting EXCEPT !.tip = pass.tip]
  /\ UNCHANGED <<link, urgent, depth, sending, last_cb, due, job, tip, aged>>

-----------------------------------------------------------------------------
Prime ==
  \/ Connect \/ Drain \/ WriteAll
  \/ \E n \in 0 .. out.shares : WriteFails(n)
  \/ ReadPayees \/ ReadPoolOnly \/ ReadNotify \/ ReadNothing \/ ReadFails

Gbt ==
  \/ \E v \in Value : Template(v)
  \/ NoTemplate \/ TakeSplit \/ GiveUp
  \/ \E fees \in {0, 1} : Publish(fees)
  \/ Overweight

Next ==
  \/ \E t \in Thread : Gate(t) \/ Enqueue(t) \/ Count(t)
  \/ Prime \/ Gbt \/ NewBlock \/ Age

Spec == Init /\ [][Next]_vars

\* The threads keep running; the node fails, and the window is empty, only
\* finitely often.
Failure == NoTemplate \/ Overweight \/ ReadPoolOnly

Fairness ==
  /\ \A t \in Thread : WF_vars(Enqueue(t)) /\ WF_vars(Count(t))
  /\ WF_vars(Prime) /\ WF_vars(Gbt) /\ WF_vars(Age)
  /\ SF_vars(ReadPayees)
  /\ <>[][~Failure]_vars

FairSpec == Spec /\ Fairness

-----------------------------------------------------------------------------
(* Types of what the threads share.                                        *)
TypeOK ==
  /\ up \in BOOLEAN /\ step \in {"drain", "write", "read"}
  /\ queue \in Nat /\ depth \in Nat /\ out.shares \in Nat
  /\ sending \in [Thread -> {"idle", "send", "count"}]

(* What waits for Prime is bounded.  The depth is reset while the channel  *)
(* still holds the shares of an outage, and a failed session gives back    *)
(* slots of shares it took out, so the bound is three caps and the handlers*)
(* past the gate, not the one cap the constant names.                      *)
QueueBounded ==
  queue + out.shares <= 3 * (QueueCap + Cardinality(Thread) - 1)

(* A job never pays out more than its template is worth, whichever split   *)
(* it was scaled from and whatever fees were trimmed (bad-cb-amount), and  *)
(* always pays somebody besides the pool's own output.                     *)
PaysWithin ==
  job # NoJob => /\ value_sum(job.sats) <= job.value
                 /\ Len(job.sats) >= 2

(* A gateway whose session stays up ends up mining on a split of that      *)
(* session and on the node's tip, however the reconnect, the answers, the  *)
(* deadline and the refresh fell.                                          *)
LiveSplitReturns ==
  \A s \in 1 .. MaxSess :
    <>[](up /\ sess = s) => <>[](job.sess = s /\ (job.tip = tip))
=============================================================================
