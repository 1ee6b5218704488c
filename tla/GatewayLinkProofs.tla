-------------------------- MODULE GatewayLinkProofs --------------------------
(***************************************************************************)
(* What waits for Prime is bounded, for any number of handlers and any     *)
(* cap.  The depth counter lags behind the channel: by the handlers that   *)
(* have sent and not counted, by what it was when a session that failed    *)
(* gave slots back for shares it had taken out, and by what it was when a  *)
(* new session set it to zero.  Each of the last two happens once between  *)
(* two drains.  And a job pays out no more than its template is worth,     *)
(* whatever split it was scaled from.                                      *)
(***************************************************************************)
EXTENDS GatewayLink, MoneyFacts, FiniteSetTheorems, TLAPS

\* Handlers past the gate, and those of them that have sent.
Past == {t \in Thread : sending[t] # "idle"}
Counting == {t \in Thread : sending[t] = "count"}

\* What the depth and the handlers past the gate never exceed.
Cap == QueueCap + Cardinality(Thread) - 1

\* The channel is ahead of the depth by one reset, or by two.
BoundInv ==
  /\ TypeOK
  /\ depth + Cardinality(Past) <= Cap
  /\ step = "write" => up
  /\ step # "write" => out.shares = 0
  /\ step = "write" => queue <= depth + Cardinality(Counting)
  /\ ~up \/ step = "read" => queue <= depth + Cardinality(Counting) + Cap
  /\ queue + out.shares <= depth + Cardinality(Counting) + 2 * Cap

-----------------------------------------------------------------------------
(* The handlers are finitely many, and so are those anywhere in send_prime.*)
LEMMA HandlersFinite ==
  /\ IsFiniteSet(Past) /\ IsFiniteSet(Counting)
  /\ Cardinality(Past) \in Nat /\ Cardinality(Counting) \in Nat
  /\ Cardinality(Counting) <= Cardinality(Past)
  /\ Cardinality(Thread) \in Nat \ {0} /\ Cap \in Nat /\ QueueCap \in Nat
<1>1. Past \subseteq Thread /\ Counting \subseteq Past
  BY DEF Past, Counting
<1>2. IsFiniteSet(Thread) /\ Thread # {} /\ QueueCap \in Nat \ {0}
  BY LinkAssumption
<1>3. IsFiniteSet(Past) /\ IsFiniteSet(Counting) /\ Cardinality(Counting) <= Cardinality(Past)
  BY <1>1, <1>2, FS_Subset
<1>4. Cardinality(Past) \in Nat /\ Cardinality(Counting) \in Nat /\ Cardinality(Thread) \in Nat
  BY <1>2, <1>3, FS_CardinalityType
<1>5. Cardinality(Thread) # 0
  BY <1>2, FS_EmptySet
<1> QED
  BY <1>2, <1>3, <1>4, <1>5 DEF Cap

(* A handler that is still at the gate is one more than those past it.     *)
LEMMA RoomAtTheGate ==
  ASSUME NEW t \in Thread, sending[t] = "idle"
  PROVE  Cardinality(Past) + 1 <= Cardinality(Thread)
<1>1. IsFiniteSet(Thread \ {t}) /\ Cardinality(Thread \ {t}) = Cardinality(Thread) - 1
  BY Zenon, LinkAssumption, FS_RemoveElement
<1>2. Past \subseteq Thread \ {t}
  BY DEF Past
<1>3. Cardinality(Past) <= Cardinality(Thread \ {t})
  BY <1>1, <1>2, FS_Subset
<1> QED
  BY <1>1, <1>3, HandlersFinite

(* What a step of a handler does to the two counts.                        *)
LEMMA GateCounts ==
  ASSUME TypeOK, NEW t \in Thread, Gate(t)
  PROVE  Cardinality(Past') = Cardinality(Past) + 1 /\ Cardinality(Counting') = Cardinality(Counting)
<1>1. Past' = Past \cup {t} /\ t \notin Past /\ Counting' = Counting
  BY DEF TypeOK, Gate, Past, Counting
<1> QED
  BY Zenon, <1>1, HandlersFinite, FS_AddElement

(* A handler that sends is one more that has yet to count.                 *)
LEMMA EnqueueCounts ==
  ASSUME TypeOK, NEW t \in Thread, Enqueue(t)
  PROVE  Cardinality(Past') = Cardinality(Past) /\ Cardinality(Counting') = Cardinality(Counting) + 1
<1>1. Counting' = Counting \cup {t} /\ t \notin Counting /\ Past' = Past
  BY DEF TypeOK, Enqueue, Past, Counting
<1> QED
  BY Zenon, <1>1, HandlersFinite, FS_AddElement

(* One that counts is past the gate no longer.                             *)
LEMMA CountCounts ==
  ASSUME TypeOK, NEW t \in Thread, Count(t)
  PROVE  Cardinality(Past') = Cardinality(Past) - 1 /\ Cardinality(Counting') = Cardinality(Counting) - 1
<1>1. /\ Past' = Past \ {t} /\ t \in Past
      /\ Counting' = Counting \ {t} /\ t \in Counting
  BY DEF TypeOK, Count, Past, Counting
<1> QED
  BY Zenon, <1>1, HandlersFinite, FS_RemoveElement

-----------------------------------------------------------------------------
(* The steps of prime_loop leave the handlers where they are; so do the    *)
(* rest, which leave the queue and the depth too.                          *)
LEMMA PrimeStep ==
  ASSUME BoundInv, Prime
  PROVE  BoundInv'
<1> DEFINE p == Cardinality(Past)
           c == Cardinality(Counting)
<1>1. /\ p \in Nat /\ c \in Nat /\ c <= p /\ Cap \in Nat /\ Cap' = Cap
  BY HandlersFinite DEF Cap
<1>2. sending' = sending => Past' = Past /\ Counting' = Counting
  BY DEF Past, Counting
<1>3. CASE Connect
  BY <1>1, <1>2, <1>3 DEF BoundInv, TypeOK, Connect
<1>4. CASE Drain
  BY <1>1, <1>2, <1>4 DEF BoundInv, TypeOK, Drain
<1>5. CASE WriteAll
  <2>1. depth' \in Nat /\ depth' <= depth
    BY <1>5 DEF BoundInv, TypeOK, WriteAll, release_prime_slots, Minus
  <2>2. up /\ step = "write" /\ out'.shares = 0 /\ step' = "read" /\ UNCHANGED <<up, queue, sending>>
    BY <1>5 DEF WriteAll, Nothing
  <2> QED
    BY <1>1, <1>2, <2>1, <2>2 DEF BoundInv, TypeOK
<1>6. ASSUME NEW n \in 0 .. out.shares, WriteFails(n)
      PROVE  BoundInv'
  <2>1. depth' \in Nat /\ depth' <= depth
    BY <1>6 DEF BoundInv, TypeOK, WriteFails, release_prime_slots, Minus
  <2>2. step = "write" /\ out'.shares = 0 /\ step' = "drain" /\ UNCHANGED <<queue, sending>>
    BY <1>6 DEF WriteFails, Nothing
  <2>3. ~up' /\ up' \in BOOLEAN
    BY Zenon, <1>6 DEF WriteFails
  <2> QED
    BY <1>1, <1>2, <2>1, <2>2, <2>3 DEF BoundInv, TypeOK
<1>7. CASE ReadPayees \/ ReadPoolOnly \/ ReadNotify \/ ReadNothing \/ ReadFails
  BY Zenon, <1>1, <1>2, <1>7
  DEF BoundInv, TypeOK, ReadPayees, ReadPoolOnly, ReadSplit, ReadNotify, ReadNothing, ReadFails
<1> QED
  BY <1>3, <1>4, <1>5, <1>6, <1>7 DEF Prime

(* Nothing else touches the queue or the handlers.                         *)
LEMMA OtherStep ==
  ASSUME BoundInv, Gbt \/ NewBlock \/ Age \/ UNCHANGED vars
  PROVE  BoundInv'
<1>1. UNCHANGED <<up, step, queue, out, depth, sending>>
  BY Zenon DEF Gbt, Template, NoTemplate, TakeSplit, GiveUp, Publish, Overweight, NewBlock, Age, vars, link
<1> QED
  BY <1>1 DEF BoundInv, TypeOK, Past, Counting, Cap

(* The three steps of send_prime.                                          *)
LEMMA HandlerStep ==
  ASSUME BoundInv, NEW t \in Thread, Gate(t) \/ Enqueue(t) \/ Count(t)
  PROVE  BoundInv'
<1> DEFINE p == Cardinality(Past)
           c == Cardinality(Counting)
<1>1. /\ p \in Nat /\ c \in Nat /\ c <= p /\ Cap \in Nat /\ Cap' = Cap
      /\ QueueCap \in Nat /\ Cardinality(Thread) \in Nat /\ Cap = QueueCap + Cardinality(Thread) - 1
  BY HandlersFinite DEF Cap
<1>2. CASE Gate(t)
  <2>1. p + 1 <= Cardinality(Thread) /\ depth < QueueCap
    BY <1>2, RoomAtTheGate DEF Gate
  <2>2. Cardinality(Past') = p + 1 /\ Cardinality(Counting') = c
    BY <1>2, GateCounts DEF BoundInv
  <2> QED
    BY <1>1, <1>2, <2>1, <2>2 DEF BoundInv, TypeOK, Gate, link
<1>3. CASE Enqueue(t)
  <2>1. Cardinality(Past') = p /\ Cardinality(Counting') = c + 1
    BY <1>3, EnqueueCounts DEF BoundInv
  <2> QED
    BY <1>1, <1>3, <2>1 DEF BoundInv, TypeOK, Enqueue
<1>4. CASE Count(t)
  <2>1. Cardinality(Past') = p - 1 /\ Cardinality(Counting') = c - 1
    BY <1>4, CountCounts DEF BoundInv
  <2> QED
    BY <1>1, <1>4, <2>1 DEF BoundInv, TypeOK, Count, link
<1> QED
  BY <1>2, <1>3, <1>4

-----------------------------------------------------------------------------
(* Of the shares handed to send_prime, those in the channel and those      *)
(* drained and not yet written never exceed three caps and the handlers    *)
(* past the gate, whatever sessions fail and when (QueueBounded).          *)
THEOREM WaitingIsBounded == Spec => []QueueBounded
<1>1. Init => BoundInv
  <2> SUFFICES ASSUME Init PROVE BoundInv
    OBVIOUS
  <2>1. Past = {} /\ Counting = {}
    BY DEF Init, Past, Counting
  <2>2. Cardinality(Past) = 0 /\ Cardinality(Counting) = 0
    BY <2>1, FS_EmptySet
  <2>3. ~up /\ up \in BOOLEAN
    BY Zenon DEF Init
  <2>4. /\ step = "drain" /\ queue = 0 /\ depth = 0
        /\ out.shares = 0 /\ sending = [t \in Thread |-> "idle"]
    BY DEF Init, Nothing
  <2> QED
    BY <2>2, <2>3, <2>4, HandlersFinite DEF BoundInv, TypeOK
<1>2. BoundInv /\ [Next]_vars => BoundInv'
  BY PrimeStep, OtherStep, HandlerStep DEF Next
<1>3. BoundInv => QueueBounded
  BY HandlersFinite DEF BoundInv, TypeOK, QueueBounded, Cap
<1> QED
  BY <1>1, <1>2, <1>3, PTL DEF Spec
-----------------------------------------------------------------------------
(***************************************************************************)
(* What a job pays out.                                                    *)
(***************************************************************************)
SplitType == [value : Nat, sess : Nat, sats : Seq(Nat)]
PassType == [pc : {"rest", "wait", "build"}, tip : Int, value : Nat, split : SplitType]

\* Splits and requests are of natural numbers, and a pass that builds has payees.
PayInv ==
  /\ inbox \in Seq(Value) /\ urgent \in Seq(Value) /\ out.asks \in Seq(Value)
  /\ sess \in Nat /\ tip \in Nat
  /\ last_cb \in SplitType /\ pass \in PassType
  /\ pass.pc = "build" => Len(pass.split.sats) >= 2
  /\ PaysWithin

(* Division rounds down.                                                   *)
LEMMA RoundsDown ==
  ASSUME NEW a \in Nat, NEW b \in Nat \ {0}
  PROVE  a \div b \in Nat /\ b * (a \div b) <= a
  OBVIOUS

\* Payees D of f get their part of v, rounded down.
Scaled(cut, f, v, old, D) == \A i \in D : cut[i] = (f[i] * v) \div old

(* Scaled shares of some of the payees are no more than their part.        *)
LEMMA CutIsLess ==
  ASSUME NEW D, IsFiniteSet(D), NEW f \in [D -> Nat], NEW v \in Nat, NEW old \in Nat \ {0},
         SumFunction(f) <= old, NEW cut \in [D -> Nat],
         Scaled(cut, f, v, old, D)
  PROVE  SumFunction(cut) \in Nat /\ SumFunction(cut) <= v
<1> DEFINE vf == [i \in D |-> v * f[i]]
           oc == [i \in D |-> old * cut[i]]
<1>a. f \in [D -> Int] /\ cut \in [D -> Int] /\ f \in [D -> Nat] /\ cut \in [D -> Nat]
  OBVIOUS
<1>b. \A i \in D : f[i] \in Nat /\ cut[i] \in Nat
  BY <1>a
<1>c. \A i \in D : v * f[i] \in Int /\ old * cut[i] \in Int
  BY <1>b
<1>d. /\ vf \in [D -> Int] /\ oc \in [D -> Int]
      /\ \A i \in D : vf[i] = v * f[i] /\ oc[i] = old * cut[i]
  BY <1>c
<1>1. /\ f \in [D -> Int] /\ cut \in [D -> Int] /\ f \in [D -> Nat] /\ cut \in [D -> Nat]
      /\ vf \in [D -> Int] /\ oc \in [D -> Int]
      /\ \A i \in D : vf[i] = v * f[i] /\ oc[i] = old * cut[i]
  BY <1>a, <1>d
<1>2. \A i \in D : oc[i] <= vf[i]
  <2> TAKE i \in D
  <2>1. f[i] * v \in Nat /\ v * f[i] = f[i] * v
    BY <1>1
  <2>2. old * ((f[i] * v) \div old) <= f[i] * v
    BY <2>1, RoundsDown
  <2> QED
    BY <2>1, <2>2, <1>1 DEF Scaled
<1>3. SumFunction(f) \in Nat /\ SumFunction(cut) \in Nat
  BY Zenon, <1>1, SumNat
<1> HIDE DEF vf, oc
<1>4. SumFunction(vf) = v * SumFunction(f) /\ SumFunction(oc) = old * SumFunction(cut)
  <2>1. v \in Int /\ old \in Int
    OBVIOUS
  <2>2. /\ \A i \in D : vf[i] = v * f[i]
        /\ \A i \in D : oc[i] = old * cut[i]
    BY Zenon, <1>1
  <2>3. SumFunction(vf) = v * SumFunction(f)
    BY SMT, <1>1, <2>1, <2>2, SumTimes
  <2>4. SumFunction(oc) = old * SumFunction(cut)
    BY SMT, <1>1, <2>1, <2>2, SumTimes
  <2> QED
    BY Zenon, <2>3, <2>4
<1>5. SumFunction(oc) <= SumFunction(vf)
  BY <1>1, <1>2, SumOrder
<1>6. \A x, y \in Nat : y <= old /\ old * x <= v * y => x <= v
  <2> SUFFICES ASSUME NEW x \in Nat, NEW y \in Nat, y <= old, old * x <= v * y, x > v
               PROVE  FALSE
    OBVIOUS
  <2>1. v * y <= v * old
    OBVIOUS
  <2>2. old * x >= old * (v + 1) /\ old * (v + 1) = v * old + old
    OBVIOUS
  <2>3. v * y \in Int /\ v * old \in Int /\ old * x \in Int /\ old > 0
    OBVIOUS
  <2>4. \A b, c, d \in Int : b <= c /\ d >= c + old => ~(d <= b)
    BY <2>3
  <2>5. old * x >= v * old + old
    BY Zenon, <2>2
  <2> QED
    BY Zenon, <2>1, <2>3, <2>4, <2>5
<1> QED
  BY <1>3, <1>4, <1>5, <1>6

(* All but the last of a sequence ...                                      *)
LEMMA FrontOf ==
  ASSUME NEW n \in Nat \ {0}, NEW s \in [1 .. n -> Nat]
  PROVE  /\ SubSeq(s, 1, n - 1) \in [1 .. n - 1 -> Nat]
         /\ \A i \in 1 .. n - 1 : SubSeq(s, 1, n - 1)[i] = s[i]
<1>1. s \in Seq(Nat) /\ Len(s) = n /\ n - 1 \in Nat
  OBVIOUS
<1>2. /\ SubSeq(s, 1, n - 1) \in Seq(Nat) /\ Len(SubSeq(s, 1, n - 1)) = n - 1
      /\ \A i \in 1 .. n - 1 : SubSeq(s, 1, n - 1)[i] = s[i]
  BY <1>1
<1>3. \A q \in Seq(Nat) : Len(q) = n - 1 => q \in [1 .. n - 1 -> Nat]
  OBVIOUS
<1> QED
  BY Zenon, <1>2, <1>3

(* ... and one whose last is replaced.                                     *)
LEMMA LastSet ==
  ASSUME NEW n \in Nat \ {0}, NEW s \in [1 .. n -> Nat], NEW x \in Nat,
         NEW t, t = [s EXCEPT ![n] = x]
  PROVE  /\ t \in [1 .. n -> Nat] /\ t \in Seq(Nat) /\ Len(t) = n
         /\ t[n] = x /\ \A i \in 1 .. n - 1 : t[i] = s[i]
<1>1. t \in [1 .. n -> Nat] /\ t[n] = x /\ \A i \in 1 .. n - 1 : t[i] = s[i]
  OBVIOUS
<1>2. t \in Seq(Nat) /\ Len(t) = n
  BY <1>1
<1> QED
  BY Zenon, <1>1, <1>2

\* The last of n payees gets what the others leave of v.
LastGets(cut, n, v) == [cut EXCEPT ![n] = Minus(v, value_sum(SubSeq(cut, 1, n - 1)))]

(* What is left for the last payee makes up the sum.                       *)
LEMMA CutToSum ==
  ASSUME NEW n \in Nat \ {0}, NEW sats \in [1 .. n -> Nat], NEW v \in Nat,
         SumFunction(sats) \in Nat \ {0},
         NEW cut \in [1 .. n -> Nat], Scaled(cut, sats, v, SumFunction(sats), 1 .. n)
  PROVE  /\ LastGets(cut, n, v) \in Seq(Nat) /\ Len(LastGets(cut, n, v)) = n
         /\ SumFunction(LastGets(cut, n, v)) = v
<1> DEFINE first == [i \in 1 .. n - 1 |-> sats[i]]
           pre   == SubSeq(cut, 1, n - 1)
           rest  == Minus(v, value_sum(pre))
           new   == [cut EXCEPT ![n] = rest]
<1> SUFFICES new \in Seq(Nat) /\ Len(new) = n /\ SumFunction(new) = v
  BY DEF LastGets
<1>1. n - 1 \in Nat /\ (n - 1) + 1 = n /\ n \in 1 .. n /\ IsFiniteSet(1 .. n - 1)
  BY FirstFinite
<1>2. pre \in [1 .. n - 1 -> Nat] /\ \A i \in 1 .. n - 1 : pre[i] = cut[i]
  BY FrontOf
<1> HIDE DEF pre
<1>3. /\ first \in [1 .. n - 1 -> Nat] /\ \A i \in 1 .. n - 1 : first[i] = sats[i]
      /\ sats[n] \in Nat
  BY <1>1
<1> HIDE DEF first
<1>4. SumFunction(sats) = SumFunction(first) + sats[n]
  <2>1. first \in [1 .. n - 1 -> Int] /\ sats \in [1 .. (n - 1) + 1 -> Int]
    BY <1>1, <1>3
  <2> QED
    BY <1>1, <1>3, <2>1, SumNext
<1>5. SumFunction(first) \in Nat
  BY Zenon, <1>1, <1>3, SumNat
<1>6. SumFunction(first) <= SumFunction(sats)
  BY <1>3, <1>4, <1>5
<1>7. Scaled(pre, first, v, SumFunction(sats), 1 .. n - 1)
  BY <1>1, <1>2, <1>3 DEF Scaled
<1>8. SumFunction(pre) \in Nat /\ SumFunction(pre) <= v
  <2>1. IsFiniteSet(1 .. n - 1)
    BY Zenon, <1>1
  <2>2. pre \in [1 .. n - 1 -> Nat] /\ first \in [1 .. n - 1 -> Nat]
    BY Zenon, <1>2, <1>3
  <2> QED
    BY <1>6, <1>7, <2>1, <2>2, CutIsLess
<1>9. rest = v - SumFunction(pre) /\ rest \in Nat
  BY <1>8 DEF Minus, value_sum
<1> HIDE DEF rest
<1>10. /\ new \in [1 .. n -> Nat] /\ new \in Seq(Nat) /\ Len(new) = n
       /\ new[n] = rest /\ \A i \in 1 .. n - 1 : new[i] = cut[i]
  BY <1>9, LastSet
<1> HIDE DEF new
<1>11. SumFunction(new) = SumFunction(pre) + new[n]
  <2>1. /\ pre \in [1 .. n - 1 -> Int] /\ new \in [1 .. (n - 1) + 1 -> Int]
        /\ \A i \in 1 .. n - 1 : new[i] = pre[i]
    BY <1>1, <1>2, <1>10
  <2>2. SumFunction(new) = SumFunction(pre) + new[(n - 1) + 1]
    BY Zenon, <1>1, <2>1, SumNext
  <2> QED
    BY Zenon, <1>1, <2>2
<1> QED
  BY <1>8, <1>9, <1>10, <1>11

(* scale_to keeps the number of outputs, and one it has to cut down pays   *)
(* exactly what it was scaled to (CoinbaserV2::scale_to).                  *)
LEMMA ScaleTo ==
  ASSUME NEW sats \in Seq(Nat), NEW v \in Nat
  PROVE  /\ scale_to(sats, v) \in Seq(Nat) /\ Len(scale_to(sats, v)) = Len(sats)
         /\ value_sum(sats) > v /\ Len(sats) >= 1 => value_sum(scale_to(sats, v)) = v
<1> DEFINE old == value_sum(sats)
           n   == Len(sats)
           cut == [i \in 1 .. n |-> (sats[i] * v) \div old]
           new == LastGets(cut, n, v)
<1>1. n \in Nat /\ sats \in [1 .. n -> Nat] /\ DOMAIN sats = 1 .. n
  OBVIOUS
<1>2. old \in Nat
  BY <1>1, FirstFinite, SumNat DEF value_sum
<1>3. CASE old = 0 \/ old = v \/ n = 0
  <2>1. scale_to(sats, v) = sats
    BY <1>3 DEF scale_to
  <2> QED
    BY <1>2, <1>3, <2>1
<1>4. CASE old # 0 /\ old # v /\ n # 0
  <2>0. scale_to(sats, v) = new
    BY <1>4 DEF scale_to, LastGets
  <2>1. cut \in [1 .. n -> Nat] /\ Scaled(cut, sats, v, old, 1 .. n)
    <3>1. \A i \in 1 .. n : sats[i] * v \in Nat
      BY <1>1
    <3>2. \A i \in 1 .. n : (sats[i] * v) \div old \in Nat
      BY <1>2, <1>4, <3>1, RoundsDown
    <3> QED
      BY <3>2 DEF Scaled
  <2>2. n \in Nat \ {0} /\ SumFunction(sats) \in Nat \ {0}
    BY <1>1, <1>2, <1>4 DEF value_sum
  <2>3. Scaled(cut, sats, v, SumFunction(sats), 1 .. n) /\ sats \in [1 .. n -> Nat]
    BY Zenon, <1>1, <2>1 DEF value_sum
  <2> HIDE DEF cut, old, n
  <2>4. new \in Seq(Nat) /\ Len(new) = n /\ SumFunction(new) = v
    BY <2>1, <2>2, <2>3, CutToSum
  <2>5. n = Len(sats)
    BY DEF n
  <2> QED
    BY <2>0, <2>4, <2>5 DEF value_sum
<1> QED
  BY <1>3, <1>4

(* Nothing paid, nothing asked.                                            *)
LEMMA PayInit == Init => PayInv
<1> SUFFICES ASSUME Init PROVE PayInv
  OBVIOUS
<1>1. <<>> \in Seq(Nat) /\ <<>> \in Seq(Value)
  OBVIOUS
<1>2. NoSplit \in SplitType
  BY <1>1 DEF NoSplit, SplitType
<1>3. pass \in PassType /\ pass.pc = "rest"
  BY <1>2 DEF Init, Resting, PassType
<1>4. out.asks = <<>> /\ job = NoJob
  BY DEF Init, Nothing
<1> QED
  BY <1>1, <1>2, <1>3, <1>4 DEF Init, PayInv, PaysWithin

(* The steps of prime_loop.                                                *)
LEMMA PayPrime ==
  ASSUME PayInv, Prime
  PROVE  PayInv'
<1>0. /\ <<>> \in Seq(Nat) /\ <<>> \in Seq(Value) /\ NoSplit \in SplitType
      /\ Nothing.asks = <<>> /\ Value \subseteq Nat \ {0, 1}
  BY LinkAssumption DEF NoSplit, SplitType, Nothing
<1>1. UNCHANGED <<pass, job, tip>>
  BY Zenon DEF Prime, Connect, Drain, WriteAll, WriteFails, ReadPayees, ReadPoolOnly, ReadSplit,
               ReadNotify, ReadNothing, ReadFails
<1>2. CASE Connect
  BY <1>0, <1>1, <1>2 DEF PayInv, PaysWithin, Connect
<1>3. CASE Drain
  <2>1. out'.asks = urgent /\ urgent' = <<>> /\ UNCHANGED <<sess, inbox, last_cb>>
    BY <1>3 DEF Drain
  <2> QED
    BY <1>0, <1>1, <2>1 DEF PayInv, PaysWithin
<1>4. CASE WriteAll
  <2>1. out'.asks = <<>> /\ inbox' = inbox \o out.asks /\ UNCHANGED <<sess, urgent, last_cb>>
    BY <1>0, <1>4 DEF WriteAll
  <2>2. inbox' \in Seq(Value)
    BY <2>1 DEF PayInv
  <2> QED
    BY <1>0, <1>1, <2>1, <2>2 DEF PayInv, PaysWithin
<1>5. ASSUME NEW n \in 0 .. out.shares, WriteFails(n)
      PROVE  PayInv'
  <2>1. out'.asks = <<>> /\ inbox' = <<>> /\ UNCHANGED <<sess, urgent, last_cb>>
    BY <1>0, <1>5 DEF WriteFails
  <2> QED
    BY <1>0, <1>1, <2>1 DEF PayInv, PaysWithin
<1>6. CASE ReadPayees \/ ReadPoolOnly
  <2>1. inbox # <<>> /\ inbox \in Seq(Value) /\ UNCHANGED <<sess, urgent, out>>
    BY Zenon, <1>6 DEF ReadPayees, ReadPoolOnly, ReadSplit, PayInv
  <2>2. Head(inbox) \in Value /\ Tail(inbox) \in Seq(Value)
    BY <2>1
  <2>3. Head(inbox) \in Nat /\ Head(inbox) - 1 \in Nat
    <3>1. Head(inbox) \in Nat \ {0, 1}
      BY Zenon, <1>0, <2>2
    <3> QED
      BY <3>1
  <2>4. <<1, Head(inbox) - 1>> \in Seq(Nat) /\ <<Head(inbox)>> \in Seq(Nat)
    BY <2>3
  <2>5. PICK sats \in Seq(Nat) : ReadSplit(sats)
    BY Zenon, <1>6, <2>4 DEF ReadPayees, ReadPoolOnly
  <2>6. last_cb' = [value |-> Head(inbox), sess |-> sess, sats |-> sats] /\ inbox' = Tail(inbox)
    BY <2>5 DEF ReadSplit
  <2>7. last_cb' \in SplitType
    BY <2>3, <2>6 DEF SplitType, PayInv
  <2> QED
    BY <1>1, <2>1, <2>2, <2>6, <2>7 DEF PayInv, PaysWithin
<1>7. CASE ReadNotify \/ ReadNothing \/ ReadFails
  <2>1. inbox' \in Seq(Value) /\ UNCHANGED <<sess, urgent, out, last_cb>>
    BY <1>0, <1>7 DEF ReadNotify, ReadNothing, ReadFails, PayInv
  <2> QED
    BY <1>1, <2>1 DEF PayInv, PaysWithin
<1> QED
  BY <1>2, <1>3, <1>4, <1>5, <1>6, <1>7 DEF Prime

(* The steps of gbt_loop.                                                  *)
LEMMA PayGbt ==
  ASSUME PayInv, Gbt
  PROVE  PayInv'
<1>0. /\ Value \subseteq Nat \ {0, 1} /\ NoSplit \in SplitType
  BY LinkAssumption DEF NoSplit, SplitType
<1>1. UNCHANGED <<inbox, out, sess, tip, last_cb>>
  BY Zenon DEF Gbt, Template, NoTemplate, TakeSplit, GiveUp, Publish, Overweight, link
<1>2. pass \in PassType /\ pass.value \in Nat /\ pass.split \in SplitType /\ pass.tip \in Int
  BY DEF PayInv, PassType
<1>rest. [Resting EXCEPT !.tip = pass.tip] \in PassType /\ [Resting EXCEPT !.tip = pass.tip].pc = "rest"
  BY <1>0, <1>2 DEF Resting, PassType
<1>3. ASSUME NEW v \in Value, Template(v) PROVE PayInv'
  <2>1. urgent' = Append(urgent, v) /\ UNCHANGED job
        /\ pass' = [pc |-> "wait", tip |-> tip, value |-> v, split |-> NoSplit]
    BY <1>3 DEF Template
  <2>2. pass' \in PassType /\ pass'.pc = "wait"
    BY <1>0, <2>1 DEF PassType, PayInv
  <2>3. urgent' \in Seq(Value)
    BY <2>1 DEF PayInv
  <2> QED
    BY <1>1, <2>1, <2>2, <2>3 DEF PayInv, PaysWithin
<1>4. CASE NoTemplate
  <2>1. UNCHANGED <<urgent, job>> /\ pass' \in {pass, [pass EXCEPT !.tip = tip]}
    BY <1>4 DEF NoTemplate
  <2>2. pass' \in PassType /\ pass'.pc = pass.pc /\ pass'.split = pass.split
    BY <1>2, <2>1 DEF PassType, PayInv
  <2> QED
    BY <1>1, <2>1, <2>2 DEF PayInv, PaysWithin
<1>5. CASE TakeSplit
  <2>1. /\ UNCHANGED <<urgent, job>> /\ Len(last_cb.sats) >= 2
        /\ pass' = [pass EXCEPT !.pc = "build", !.split = Taken]
    BY <1>5 DEF TakeSplit, split_for_value
  <2>2. last_cb \in SplitType /\ last_cb.sats \in Seq(Nat)
    BY DEF PayInv, SplitType
  <2>3. scale_to(last_cb.sats, pass.value) \in Seq(Nat)
        /\ Len(scale_to(last_cb.sats, pass.value)) = Len(last_cb.sats)
    BY <1>2, <2>2, ScaleTo
  <2>4. Taken \in SplitType /\ Taken.sats = scale_to(last_cb.sats, pass.value)
    BY <2>2, <2>3 DEF Taken, SplitType
  <2>5. pass' \in PassType /\ pass'.split = Taken
    BY <1>2, <2>1, <2>4 DEF PassType
  <2> QED
    BY <1>1, <2>1, <2>3, <2>4, <2>5 DEF PayInv, PaysWithin
<1>6. CASE GiveUp \/ Overweight
  <2>1. UNCHANGED <<urgent, job>> /\ pass' = [Resting EXCEPT !.tip = pass.tip]
    BY <1>6 DEF GiveUp, Overweight
  <2> QED
    BY <1>1, <1>rest, <2>1 DEF PayInv, PaysWithin
<1>7. ASSUME NEW fees \in {0, 1}, Publish(fees) PROVE PayInv'
  <2> DEFINE v == Minus(pass.value, fees)
             sats == pass.split.sats
  <2>1. /\ pass.pc = "build" /\ UNCHANGED urgent /\ pass' = [Resting EXCEPT !.tip = pass.tip]
        /\ job'.value = v /\ job'.sats = Rescaled(sats, v)
    BY <1>7 DEF Publish
  <2>2. v \in Nat /\ sats \in Seq(Nat) /\ Len(sats) >= 2
    <3>1. pass.value \in Nat /\ pass.split \in SplitType /\ Len(sats) >= 2
      BY <1>2, <2>1 DEF PayInv, PassType
    <3>2. sats \in Seq(Nat)
      BY <3>1 DEF SplitType
    <3>3. v \in Nat
      BY <3>1, <1>7 DEF Minus
    <3> QED
      BY <3>1, <3>2, <3>3
  <2> HIDE DEF v, sats
  <2>3. value_sum(sats) \in Nat
    <3>1. sats \in [1 .. Len(sats) -> Nat] /\ Len(sats) \in Int
      BY <2>2
    <3> QED
      BY <3>1, FirstFinite, SumNat DEF value_sum
  <2>4. value_sum(Rescaled(sats, v)) <= v /\ Len(Rescaled(sats, v)) >= 2
    <3>1. CASE value_sum(sats) > v
      <4>1. Rescaled(sats, v) = scale_to(sats, v)
        BY <3>1 DEF Rescaled
      <4>2. Len(sats) >= 1
        BY <2>2
      <4>3. value_sum(scale_to(sats, v)) = v /\ Len(scale_to(sats, v)) = Len(sats)
        BY <2>2, <3>1, <4>2, ScaleTo
      <4> QED
        BY <2>2, <4>1, <4>3
    <3>2. CASE ~(value_sum(sats) > v)
      BY <2>2, <2>3, <3>2 DEF Rescaled
    <3> QED
      BY <3>1, <3>2
  <2>5. PaysWithin'
    BY <2>1, <2>4 DEF PaysWithin, value_sum
  <2> QED
    BY <1>1, <1>rest, <2>1, <2>5 DEF PayInv
<1> QED
  BY <1>3, <1>4, <1>5, <1>6, <1>7 DEF Gbt

(* No job pays out more than its template is worth, whatever split it was  *)
(* scaled from and whatever fees were trimmed, and each pays somebody      *)
(* besides the pool (PaysWithin).                                          *)
THEOREM JobsPayWithin == Spec => []PaysWithin
<1>1. PayInv /\ [Next]_vars => PayInv'
  <2> SUFFICES ASSUME PayInv, [Next]_vars PROVE PayInv'
    OBVIOUS
  <2>1. ASSUME UNCHANGED <<inbox, urgent, out, sess, last_cb, pass, job>>, tip' \in Nat
        PROVE  PayInv'
    BY <2>1 DEF PayInv, PaysWithin
  <2>2. ASSUME NEW t \in Thread, Gate(t) \/ Enqueue(t) \/ Count(t)
        PROVE  PayInv'
    BY <2>1, <2>2 DEF Gate, Enqueue, Count, link, PayInv
  <2>3. CASE NewBlock \/ Age \/ UNCHANGED vars
    BY <2>1, <2>3 DEF NewBlock, Age, vars, link, PayInv
  <2> QED
    BY <2>2, <2>3, PayPrime, PayGbt DEF Next
<1>2. PayInv => PaysWithin
  BY DEF PayInv
<1> QED
  BY <1>1, <1>2, PayInit, PTL DEF Spec
=============================================================================
