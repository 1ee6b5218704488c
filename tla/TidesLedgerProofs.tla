------------------------- MODULE TidesLedgerProofs -------------------------
(***************************************************************************)
(* Proofs about TidesLedger, for every set of identities, blocks, batches  *)
(* and amounts: what a draw, a dropped and a new batch do to the sums of   *)
(* the holds; the inductive invariant, action by action; and the           *)
(* refinement of Accounts, action by action.                               *)
(***************************************************************************)
EXTENDS TidesLedger, MoneyFacts, TLAPS

(* Drawing w oldest first takes Lesser(w, everything) altogether.          *)
LEMMA DrawnOldestFirst ==
  ASSUME NEW n \in Nat, NEW e \in [1 .. n -> Nat], NEW w \in Nat,
         NEW l \in [1 .. n -> Int],
         \A k \in 1 .. n :
           LET older == SumFunction([j \in 1 .. (k - 1) |-> e[j]])
           IN  l[k] = e[k] - Lesser(e[k], IF w > older THEN w - older ELSE 0)
  PROVE  SumFunction(l) = SumFunction(e) - Lesser(SumFunction(e), w)
<1> DEFINE E(m) == [j \in 1 .. m |-> e[j]]
           L(m) == [j \in 1 .. m |-> l[j]]
           X == {m \in 0 .. n :
                  SumFunction(L(m)) = SumFunction(E(m)) - Lesser(SumFunction(E(m)), w)}
<1>1. \A m \in 0 .. n : E(m) \in [1 .. m -> Nat] /\ L(m) \in [1 .. m -> Int]
  OBVIOUS
<1>2. \A m \in 0 .. n : SumFunction(E(m)) \in Nat
  <2> SUFFICES ASSUME NEW m \in 0 .. n PROVE SumFunction(E(m)) \in Nat
    OBVIOUS
  <2>1. IsFiniteSet(1 .. m)
    BY FS_Interval
  <2>2. E(m) \in [1 .. m -> Nat]
    BY <1>1
  <2> HIDE DEF E
  <2> QED
    BY <2>1, <2>2, SumNat
<1>3. 0 \in X
  <2>1. IsFiniteSet({})
    BY FS_EmptySet
  <2>2. 1 .. 0 = {}
    OBVIOUS
  <2>3. E(0) \in [{} -> Int] /\ L(0) \in [{} -> Int]
    BY <2>2
  <2> HIDE DEF E, L
  <2>4. SumFunction(E(0)) = 0 /\ SumFunction(L(0)) = 0
    BY <2>1, <2>3, SumType
  <2> QED
    BY <2>4 DEF Lesser
<1>4. ASSUME NEW m \in 0 .. n - 1, m \in X PROVE m + 1 \in X
  <2>1. /\ m \in Nat /\ m \in 0 .. n /\ m + 1 \in 0 .. n /\ m + 1 \in 1 .. n
        /\ (m + 1) - 1 = m
    OBVIOUS
  <2>2. /\ E(m) \in [1 .. m -> Int] /\ E(m + 1) \in [1 .. m + 1 -> Int]
        /\ L(m) \in [1 .. m -> Int] /\ L(m + 1) \in [1 .. m + 1 -> Int]
        /\ \A y \in 1 .. m : E(m + 1)[y] = E(m)[y] /\ L(m + 1)[y] = L(m)[y]
        /\ E(m + 1)[m + 1] = e[m + 1] /\ L(m + 1)[m + 1] = l[m + 1]
    BY <2>1
  <2>3. l[m + 1] = e[m + 1] - Lesser(e[m + 1],
                     IF w > SumFunction(E(m)) THEN w - SumFunction(E(m)) ELSE 0)
    BY <2>1
  <2>4. SumFunction(L(m)) = SumFunction(E(m)) - Lesser(SumFunction(E(m)), w)
    BY <1>4
  <2> HIDE DEF E, L
  <2>5. SumFunction(E(m + 1)) = SumFunction(E(m)) + e[m + 1]
    BY Zenon, <2>1, <2>2, SumNext
  <2>6. SumFunction(L(m + 1)) = SumFunction(L(m)) + l[m + 1]
    BY Zenon, <2>1, <2>2, SumNext
  <2>7. SumFunction(E(m)) \in Nat /\ e[m + 1] \in Nat
    BY <1>2, <2>1
  <2> QED
    BY <2>1, <2>3, <2>4, <2>5, <2>6, <2>7 DEF Lesser
<1>5. n \in X
  <2> HIDE DEF X
  <2>1. \A m \in 0 .. n - 1 : m \in X => m + 1 \in X
    BY <1>4
  <2>2. \A m \in 0 .. n : m \in X
    BY ONLY Zenon, <1>3, <2>1, UpTo, n \in Nat
  <2> QED
    BY <2>2
<1>6. E(n) = e /\ L(n) = l
  OBVIOUS
<1> QED
  BY Zenon, <1>5, <1>6
-----------------------------------------------------------------------------
(***************************************************************************)
(* The holds as a sequence of batches, oldest first.                       *)
(***************************************************************************)
HoldBatch == [id : Batch, entries : [Ident -> Nat]]

Entries(H, i) == [k \in DOMAIN H |-> H[k].entries[i]]

HeldIn(H) == [i \in Ident |-> SumFunction(Entries(H, i))]

OneEach(H) == \A j, k \in DOMAIN H : H[j].id = H[k].id => j = k

(* What the batches hold for one identity: a finite family of numbers.     *)
LEMMA EntriesType ==
  ASSUME NEW H \in Seq(HoldBatch), NEW i \in Ident
  PROVE  /\ IsFiniteSet(DOMAIN H)
         /\ DOMAIN H = 1 .. Len(H)
         /\ Entries(H, i) \in [DOMAIN H -> Nat]
<1>1. DOMAIN H = 1 .. Len(H) /\ Len(H) \in Nat /\ \A k \in DOMAIN H : H[k] \in HoldBatch
  OBVIOUS
<1>2. IsFiniteSet(1 .. Len(H))
  BY <1>1, FS_Interval
<1> QED
  BY <1>1, <1>2 DEF Entries, HoldBatch

(* What is held for an identity is a number, no less than any batch holds  *)
(* for it.                                                                 *)
LEMMA HeldType ==
  ASSUME NEW H \in Seq(HoldBatch)
  PROVE  /\ HeldIn(H) \in [Ident -> Nat]
         /\ \A k \in DOMAIN H, i \in Ident : H[k].entries[i] <= HeldIn(H)[i]
<1> SUFFICES ASSUME NEW i \in Ident
             PROVE  /\ SumFunction(Entries(H, i)) \in Nat
                    /\ \A k \in DOMAIN H : H[k].entries[i] <= SumFunction(Entries(H, i))
  BY DEF HeldIn
<1>1. IsFiniteSet(DOMAIN H) /\ Entries(H, i) \in [DOMAIN H -> Nat]
  BY EntriesType
<1>2. \A k \in DOMAIN H : H[k].entries[i] = Entries(H, i)[k]
  BY DEF Entries
<1> QED
  BY <1>1, <1>2, SumNat

\* q gives what the batches at T hold of i.
EntriesAt(q, H, T, i) ==
  /\ q \in [DOMAIN H -> Int]
  /\ \A k \in DOMAIN H : q[k] = IF k \in T THEN H[k].entries[i] ELSE 0

(* What the batches picked hold of i is what they held of it.              *)
LEMMA PickedHeld ==
  ASSUME NEW H \in Seq(HoldBatch), NEW T, NEW i \in Ident, NEW q, EntriesAt(q, H, T, i)
  PROVE  HeldIn(Picked(H, T))[i] = SumFunction(q)
<1> DEFINE W == [b \in HoldBatch |-> b.entries[i]]
<1>1. W \in [HoldBatch -> Int]
  BY DEF HoldBatch
<1>2. Picked(H, T) \in Seq(HoldBatch)
  BY PickedFrom
<1>3. /\ Entries(Picked(H, T), i) \in [DOMAIN Picked(H, T) -> Int]
      /\ \A j \in DOMAIN Picked(H, T) : Entries(Picked(H, T), i)[j] = W[Picked(H, T)[j]]
  <2>1. \A j \in DOMAIN Picked(H, T) : Picked(H, T)[j] \in HoldBatch
    BY <1>2
  <2>2. Entries(Picked(H, T), i) \in [DOMAIN Picked(H, T) -> Nat]
    BY <1>2, EntriesType
  <2> QED
    BY <2>1, <2>2 DEF Entries
<1>4. /\ q \in [DOMAIN H -> Int]
      /\ \A k \in DOMAIN H : q[k] = IF k \in T THEN W[H[k]] ELSE 0
  <2>1. \A k \in DOMAIN H : H[k] \in HoldBatch /\ H[k].entries[i] \in Int
    <3>1. \A k \in DOMAIN H : H[k] \in HoldBatch
      OBVIOUS
    <3> QED
      BY <3>1 DEF HoldBatch
  <2> QED
    BY <2>1 DEF EntriesAt
<1> HIDE DEF W
<1>5. SumFunction(Entries(Picked(H, T), i)) = SumFunction(q)
  <2>1. Weights(Entries(Picked(H, T), i), Picked(H, T), W) /\ WeightsAt(q, H, T, W)
    BY <1>3, <1>4 DEF Weights, WeightsAt
  <2> QED
    BY <1>1, <2>1, PickedWeighs
<1>6. HeldIn(Picked(H, T))[i] = SumFunction(Entries(Picked(H, T), i))
  BY Zenon DEF HeldIn
<1> QED
  BY <1>5, <1>6

(* Every batch picked was there, and no id comes twice that did not.       *)
LEMMA PickedBatches ==
  ASSUME NEW H \in Seq(HoldBatch), NEW T
  PROVE  /\ \A j \in DOMAIN Picked(H, T) :
              \E k \in T \cap DOMAIN H : Picked(H, T)[j] = H[k]
         /\ OneEach(H) => OneEach(Picked(H, T))
<1>1. PICK m \in [DOMAIN Picked(H, T) -> T \cap DOMAIN H] :
        /\ \A j \in DOMAIN Picked(H, T) : Picked(H, T)[j] = H[m[j]]
        /\ \A i, j \in DOMAIN Picked(H, T) : i < j => m[i] < m[j]
  BY SMTT(30), PickedFrom
<1>2. \A j \in DOMAIN Picked(H, T) : j \in Int
  BY PickedFrom
<1>3. \A k \in DOMAIN H : k \in Int
  OBVIOUS
<1> QED
  BY <1>1, <1>2, <1>3 DEF OneEach

(* A draw leaves every batch its id and no more than it had, takes         *)
(* Lesser(what is held, what is wanted) of each identity altogether, and   *)
(* drops only batches that have nothing left (Ledger::draw_from_holds).    *)
LEMMA DrawHolds ==
  ASSUME holds \in Seq(HoldBatch), NEW want \in [Ident -> Nat]
  PROVE  /\ draw_from_holds(want) \in Seq(HoldBatch)
         /\ \A i \in Ident : HeldIn(draw_from_holds(want))[i]
                              = HeldIn(holds)[i] - Lesser(HeldIn(holds)[i], want[i])
         /\ \A j \in DOMAIN draw_from_holds(want) : \E k \in DOMAIN holds :
              /\ draw_from_holds(want)[j].id = holds[k].id
              /\ \A i \in Ident :
                   draw_from_holds(want)[j].entries[i] <= holds[k].entries[i]
         /\ OneEach(holds) => OneEach(draw_from_holds(want))
<1> DEFINE left == [k \in DOMAIN holds |->
                      [holds[k] EXCEPT !.entries =
                         [i \in Ident |-> @[i] - Take(k, i, want[i])]]]
           T == {k \in DOMAIN left : \E i \in Ident : left[k].entries[i] > 0}
           n == Len(holds)
<1>1. /\ n \in Nat /\ DOMAIN holds = 1 .. n
      /\ \A k \in 1 .. n : /\ holds[k] \in HoldBatch /\ holds[k].id \in Batch
                           /\ holds[k].entries \in [Ident -> Nat]
      /\ \A k \in 1 .. n, i \in Ident : holds[k].entries[i] \in Nat
  <2>1. n \in Nat /\ DOMAIN holds = 1 .. n /\ \A k \in 1 .. n : holds[k] \in HoldBatch
    OBVIOUS
  <2> QED
    BY <2>1 DEF HoldBatch
<1>2. ASSUME NEW k \in 1 .. n, NEW i \in Ident
      PROVE  Take(k, i, want[i]) \in 0 .. holds[k].entries[i]
  <2> DEFINE older == [j \in 1 .. (k - 1) |-> holds[j].entries[i]]
  <2>1. older \in [1 .. (k - 1) -> Nat]
    BY <1>1
  <2>2. IsFiniteSet(1 .. (k - 1))
    BY <1>1, FirstFinite
  <2> HIDE DEF older
  <2>3. SumFunction(older) \in Nat
    BY <2>1, <2>2, SumNat
  <2>4. Take(k, i, want[i])
          = Lesser(holds[k].entries[i],
                   IF want[i] > SumFunction(older) THEN want[i] - SumFunction(older) ELSE 0)
    BY DEF Take, older
  <2>5. holds[k].entries[i] \in Nat /\ want[i] \in Nat
    BY <1>1
  <2> QED
    BY <2>3, <2>4, <2>5 DEF Lesser
<1>3. ASSUME NEW k \in 1 .. n
      PROVE  /\ left[k] \in HoldBatch /\ left[k].id = holds[k].id
             /\ \A i \in Ident :
                  /\ left[k].entries[i] = holds[k].entries[i] - Take(k, i, want[i])
                  /\ left[k].entries[i] \in Nat
                  /\ left[k].entries[i] <= holds[k].entries[i]
  <2> DEFINE e == [i \in Ident |-> holds[k].entries[i] - Take(k, i, want[i])]
  <2>1. \A i \in Ident : /\ holds[k].entries[i] - Take(k, i, want[i]) \in Nat
                         /\ holds[k].entries[i] - Take(k, i, want[i]) <= holds[k].entries[i]
    BY <1>1, <1>2
  <2>2. e \in [Ident -> Nat]
    BY <2>1
  <2>3. left[k] = [holds[k] EXCEPT !.entries = e]
    BY <1>1
  <2>4. \A i \in Ident : e[i] = holds[k].entries[i] - Take(k, i, want[i])
    OBVIOUS
  <2> HIDE DEF e, left
  <2>5. left[k] \in HoldBatch /\ left[k].id = holds[k].id /\ left[k].entries = e
    BY Zenon, <1>1, <2>2, <2>3 DEF HoldBatch
  <2> QED
    BY <2>1, <2>4, <2>5
<1>4. DOMAIN left = 1 .. n
  BY <1>1
<1>5. draw_from_holds(want) = Picked(left, T)
  BY DEF draw_from_holds
<1>6. left \in Seq(HoldBatch)
  <2>1. left = [k \in 1 .. n |-> left[k]]
    BY <1>1
  <2> HIDE DEF left
  <2> QED
    BY <1>1, <1>3, <2>1
<1>7. ASSUME NEW i \in Ident
      PROVE  HeldIn(Picked(left, T))[i] = HeldIn(holds)[i] - Lesser(HeldIn(holds)[i], want[i])
  <2> DEFINE e == Entries(holds, i)
             l == Entries(left, i)
             q == [k \in DOMAIN left |-> IF k \in T THEN left[k].entries[i] ELSE 0]
  <2>1. q = l
    <3>1. \A k \in 1 .. n : k \notin T => left[k].entries[i] = 0
      <4> SUFFICES ASSUME NEW k \in 1 .. n, k \notin T PROVE left[k].entries[i] = 0
        BY Zenon
      <4>1. ~(left[k].entries[i] > 0)
        BY <1>4
      <4>2. left[k].entries[i] \in Nat
        BY Zenon, <1>3
      <4> HIDE DEF left
      <4> QED
        BY SMTT(30), <4>1, <4>2
    <3> HIDE DEF left, T
    <3> QED
      BY <1>4, <3>1 DEF Entries
  <2>2. HeldIn(Picked(left, T))[i] = SumFunction(q)
    <3> HIDE DEF left, T
    <3>1. EntriesAt(q, left, T, i)
      BY <1>3, <1>4 DEF EntriesAt
    <3> HIDE DEF q
    <3> QED
      BY <1>6, <3>1, PickedHeld
  <2>3. e \in [1 .. n -> Nat] /\ l \in [1 .. n -> Int]
    <3> HIDE DEF left
    <3> QED
      BY <1>1, <1>3, <1>4 DEF Entries
  <2>4. \A k \in 1 .. n :
          LET older == SumFunction([j \in 1 .. (k - 1) |-> e[j]])
          IN  l[k] = e[k] - Lesser(e[k], IF want[i] > older THEN want[i] - older ELSE 0)
    <3> SUFFICES ASSUME NEW k \in 1 .. n
                 PROVE  LET older == SumFunction([j \in 1 .. (k - 1) |-> e[j]])
                        IN  l[k] = e[k] - Lesser(e[k], IF want[i] > older THEN want[i] - older ELSE 0)
      BY Zenon
    <3>1. [j \in 1 .. (k - 1) |-> e[j]] = [j \in 1 .. (k - 1) |-> holds[j].entries[i]]
      BY <1>1 DEF Entries
    <3>2. l[k] = left[k].entries[i] /\ e[k] = holds[k].entries[i]
      BY Zenon, <1>1, <1>4 DEF Entries
    <3>3. left[k].entries[i] = holds[k].entries[i] - Take(k, i, want[i])
      BY <1>3
    <3> HIDE DEF e, l, left
    <3> QED
      BY Zenon, <3>1, <3>2, <3>3 DEF Take
  <2>5. SumFunction(l) = SumFunction(e) - Lesser(SumFunction(e), want[i])
    <3> HIDE DEF e, l, left
    <3>1. want[i] \in Nat
      OBVIOUS
    <3> QED
      BY Zenon, <1>1, <2>3, <2>4, <3>1, DrawnOldestFirst
  <2> QED
    BY Zenon, <2>1, <2>2, <2>5 DEF HeldIn
<1>8. \A j \in DOMAIN Picked(left, T) : \E k \in DOMAIN holds :
        /\ Picked(left, T)[j].id = holds[k].id
        /\ \A i \in Ident : Picked(left, T)[j].entries[i] <= holds[k].entries[i]
  <2> HIDE DEF left, T
  <2>1. \A j \in DOMAIN Picked(left, T) :
          \E k \in T \cap DOMAIN left : Picked(left, T)[j] = left[k]
    BY <1>6, PickedBatches
  <2> SUFFICES ASSUME NEW j \in DOMAIN Picked(left, T)
               PROVE  \E k \in DOMAIN holds :
                        /\ Picked(left, T)[j].id = holds[k].id
                        /\ \A i \in Ident : Picked(left, T)[j].entries[i] <= holds[k].entries[i]
    OBVIOUS
  <2>2. PICK k \in 1 .. n : Picked(left, T)[j] = left[k]
    BY <1>4, <2>1
  <2>3. k \in DOMAIN holds
    BY <1>1
  <2> QED
    BY <1>3, <2>2, <2>3
<1>9. OneEach(holds) => OneEach(Picked(left, T))
  <2> HIDE DEF left, T
  <2>1. OneEach(holds) => OneEach(left)
    BY <1>1, <1>3, <1>4 DEF OneEach
  <2> QED
    BY <1>6, <2>1, PickedBatches
<1>10. Picked(left, T) \in Seq(HoldBatch)
  <2> HIDE DEF left, T
  <2> QED
    BY <1>6, PickedFrom
<1> HIDE DEF left, T
<1> QED
  BY <1>5, <1>7, <1>8, <1>9, <1>10

(* Dropping the batches of one id takes what batch k held, when k is the   *)
(* one batch of that id, and nothing when there is none.                   *)
LEMMA DropHolds ==
  ASSUME holds \in Seq(HoldBatch), OneEach(holds), NEW id
  PROVE  /\ Drop(id) \in Seq(HoldBatch) /\ OneEach(Drop(id))
         /\ \A j \in DOMAIN Drop(id) : \E k \in DOMAIN holds :
              Drop(id)[j] = holds[k] /\ holds[k].id # id
         /\ \A k \in DOMAIN holds, i \in Ident : holds[k].id = id =>
              HeldIn(Drop(id))[i] = HeldIn(holds)[i] - holds[k].entries[i]
         /\ (\A k \in DOMAIN holds : holds[k].id # id) =>
              \A i \in Ident : HeldIn(Drop(id))[i] = HeldIn(holds)[i]
<1> DEFINE T == {k \in DOMAIN holds : holds[k].id # id}
<1>0. Drop(id) = Picked(holds, T)
  BY DEF Drop
<1>1. /\ Drop(id) \in Seq(HoldBatch) /\ OneEach(Drop(id))
      /\ \A j \in DOMAIN Drop(id) : \E k \in T \cap DOMAIN holds : Drop(id)[j] = holds[k]
  <2> HIDE DEF T
  <2> QED
    BY <1>0, PickedFrom, PickedBatches
<1>2. ASSUME NEW i \in Ident
      PROVE  /\ \A k \in DOMAIN holds : holds[k].id = id =>
                  HeldIn(Drop(id))[i] = HeldIn(holds)[i] - holds[k].entries[i]
             /\ (\A k \in DOMAIN holds : holds[k].id # id) =>
                  HeldIn(Drop(id))[i] = HeldIn(holds)[i]
  <2> DEFINE q == [k \in DOMAIN holds |-> IF k \in T THEN holds[k].entries[i] ELSE 0]
             e == Entries(holds, i)
  <2>1. IsFiniteSet(DOMAIN holds) /\ e \in [DOMAIN holds -> Nat]
    BY EntriesType
  <2>2. \A k \in DOMAIN holds : e[k] = holds[k].entries[i] /\ q[k] = IF k \in T THEN e[k] ELSE 0
    BY DEF Entries
  <2>3. q \in [DOMAIN holds -> Int]
    BY <2>1, <2>2
  <2>4. HeldIn(holds)[i] = SumFunction(e) /\ HeldIn(Drop(id))[i] = SumFunction(q)
    <3>1. EntriesAt(q, holds, T, i)
      <4> HIDE DEF T, e
      <4> QED
        BY <2>2, <2>3 DEF EntriesAt
    <3> HIDE DEF T, q
    <3>2. HeldIn(Picked(holds, T))[i] = SumFunction(q)
      BY <3>1, PickedHeld
    <3>3. HeldIn(holds)[i] = SumFunction(e)
      BY Zenon DEF HeldIn
    <3> QED
      BY <1>0, <3>2, <3>3
  <2>5. ASSUME NEW k \in DOMAIN holds, holds[k].id = id
        PROVE  SumFunction(q) = SumFunction(e) - holds[k].entries[i]
    <3>1. /\ \A y \in DOMAIN holds \ {k} : q[y] = e[y]
          /\ q[k] = 0
      <4>1. k \notin T /\ \A y \in DOMAIN holds \ {k} : y \in T
        BY <2>5 DEF OneEach
      <4> HIDE DEF T, q, e
      <4> QED
        BY <2>2, <4>1
    <3>2. e \in [DOMAIN holds -> Int]
      BY <2>1
    <3>3. SumFunction(e) \in Int
      <4> HIDE DEF e
      <4> QED
        BY <2>1, <3>2, SumType
    <3> HIDE DEF q, e
    <3>4. SumFunction(q) = SumFunction(e) - e[k] + q[k]
      BY <2>1, <2>3, <3>1, <3>2, SumChange
    <3>5. e[k] \in Int
      BY <3>2
    <3> QED
      BY SMTT(30), <2>2, <3>1, <3>3, <3>4, <3>5
  <2>6. ASSUME \A k \in DOMAIN holds : holds[k].id # id
        PROVE  q = e
    <3>1. \A k \in DOMAIN holds : k \in T
      BY <2>6
    <3> HIDE DEF T
    <3> QED
      BY <3>1 DEF Entries
  <2> HIDE DEF q, e
  <2> QED
    BY <2>4, <2>5, <2>6
<1> QED
  BY <1>1, <1>2

(* A batch more: its entries are held too.                                 *)
LEMMA AppendHolds ==
  ASSUME NEW H \in Seq(HoldBatch), NEW b \in HoldBatch
  PROVE  /\ Append(H, b) \in Seq(HoldBatch)
         /\ \A i \in Ident : HeldIn(Append(H, b))[i] = HeldIn(H)[i] + b.entries[i]
         /\ (OneEach(H) /\ \A k \in DOMAIN H : H[k].id # b.id) => OneEach(Append(H, b))
<1>1. /\ Append(H, b) \in Seq(HoldBatch)
      /\ Len(H) \in Nat /\ DOMAIN H = 1 .. Len(H)
      /\ DOMAIN Append(H, b) = 1 .. Len(H) + 1
      /\ \A k \in 1 .. Len(H) : Append(H, b)[k] = H[k]
      /\ Append(H, b)[Len(H) + 1] = b
  OBVIOUS
<1>2. ASSUME NEW i \in Ident
      PROVE  SumFunction(Entries(Append(H, b), i)) = SumFunction(Entries(H, i)) + b.entries[i]
  <2> DEFINE f == Entries(H, i)
             f2 == Entries(Append(H, b), i)
  <2>1. f \in [1 .. Len(H) -> Nat] /\ f2 \in [1 .. Len(H) + 1 -> Nat]
    BY Zenon, <1>1, EntriesType
  <2>2. (\A y \in 1 .. Len(H) : f2[y] = f[y]) /\ f2[Len(H) + 1] = b.entries[i]
    BY <1>1 DEF Entries
  <2>3. f \in [1 .. Len(H) -> Int] /\ f2 \in [1 .. Len(H) + 1 -> Int]
    BY <2>1
  <2> HIDE DEF f, f2
  <2>4. SumFunction(f2) = SumFunction(f) + f2[Len(H) + 1]
    BY Zenon, <1>1, <2>2, <2>3, SumNext
  <2> QED
    BY <2>2, <2>4 DEF f, f2
<1>3. (OneEach(H) /\ \A k \in DOMAIN H : H[k].id # b.id) => OneEach(Append(H, b))
  BY <1>1 DEF OneEach
<1>4. \A i \in Ident : HeldIn(Append(H, b))[i] = HeldIn(H)[i] + b.entries[i]
  BY <1>2, Zenon DEF HeldIn
<1> QED
  BY <1>1, <1>3, <1>4
-----------------------------------------------------------------------------
(***************************************************************************)
(* The inductive invariant.  PaidCoversHold alone is not inductive: a      *)
(* release or a finished payment drops every batch of its id, so that it   *)
(* takes exactly the batch it gives back only if no two have one id; and   *)
(* an orphan puts back what a block's books say, so they must be exact.    *)
(***************************************************************************)
Covers ==
  paying # Idle =>
    \A k \in DOMAIN holds : holds[k].id = paying.id =>
      \A i \in Ident : holds[k].entries[i] <= paying.entries[i]

BooksSound == \A b \in Block : Exact(books[b])

LedgerInv == TypeOK /\ Covers /\ OneEach(holds) /\ BooksSound

(* What is held, as a function of the batches alone.                       *)
LEMMA HeldIs == Held = HeldIn(holds)
  BY Zenon DEF Held, HeldIn, Entries

(* The same after a step.                                                  *)
LEMMA HeldNextIs == Held' = HeldIn(holds')
  BY Zenon DEF Held, HeldIn, Entries

(* What the invariant says of the types.                                   *)
LEMMA InvFacts ==
  ASSUME LedgerInv
  PROVE  /\ holds \in Seq(HoldBatch) /\ OneEach(holds)
         /\ acct \in [Ident -> Account]
         /\ Held \in [Ident -> Nat]
         /\ books \in [Block -> BookRecord]
         /\ \A b \in Block : books[b] \in BookRecord /\ Exact(books[b])
<1>1. holds \in Seq(HoldBatch)
  BY DEF LedgerInv, TypeOK, HoldBatch
<1>2. Held \in [Ident -> Nat]
  BY <1>1, HeldType, HeldIs
<1> QED
  BY <1>1, <1>2 DEF LedgerInv, TypeOK, BooksSound

(* The books of a block that has booked nothing are exact.                 *)
LEMMA NoBooksFacts ==
  ASSUME NEW d \in [Ident -> Nat], NEW c \in [Ident -> Nat]
  PROVE  LET k == [NoBooks EXCEPT !.seen = TRUE, !.debit = d, !.credit = c]
         IN  k \in BookRecord /\ Exact(k) /\ ~k.debits_live /\ k.debit = d /\ k.credit = c
<1>1. None \in [Ident -> Nat]
  BY DEF None
<1> QED
  BY Zenon, <1>1 DEF NoBooks, BookRecord, Exact

(* What booking the debits of k draws from the holds is what Accounts says. *)
LEMMA DrawDebits ==
  ASSUME LedgerInv, NEW k \in BookRecord
  PROVE  /\ draw_from_holds(Wanted(k)) \in Seq(HoldBatch)
         /\ OneEach(draw_from_holds(Wanted(k)))
         /\ \A j \in DOMAIN draw_from_holds(Wanted(k)) : \E m \in DOMAIN holds :
              /\ draw_from_holds(Wanted(k))[j].id = holds[m].id
              /\ \A i \in Ident :
                   draw_from_holds(Wanted(k))[j].entries[i] <= holds[m].entries[i]
         /\ HeldIn(draw_from_holds(Wanted(k))) = held_after_debits(k, acct, Held)
<1>1. /\ holds \in Seq(HoldBatch) /\ OneEach(holds)
      /\ Held \in [Ident -> Nat] /\ Held = HeldIn(holds)
      /\ \A i \in Ident : Held[i] \in Nat
      /\ \A i \in Ident : acct[i] \in Account /\ acct[i].carry \in Nat
      /\ \A i \in Ident : k.debit[i] \in Nat
  BY InvFacts, HeldIs DEF Account, BookRecord
<1>2. \A i \in Ident : /\ k.debit[i] - from_carry(acct[i], k.debit[i]) \in Nat
                       /\ Wanted(k)[i] = IF k.debits_live THEN 0
                                         ELSE k.debit[i] - from_carry(acct[i], k.debit[i])
  BY <1>1 DEF Wanted, from_carry, Lesser
<1>3. Wanted(k) \in [Ident -> Nat]
  BY <1>2 DEF Wanted
<1> DEFINE D == draw_from_holds(Wanted(k))
<1>4. /\ D \in Seq(HoldBatch) /\ OneEach(D)
      /\ \A i \in Ident : HeldIn(D)[i] = Held[i] - Lesser(Held[i], Wanted(k)[i])
      /\ \A j \in DOMAIN D : \E m \in DOMAIN holds :
           /\ D[j].id = holds[m].id
           /\ \A i \in Ident : D[j].entries[i] <= holds[m].entries[i]
  BY <1>1, <1>3, DrawHolds
<1> HIDE DEF D
<1>5. ASSUME NEW i \in Ident
      PROVE  HeldIn(D)[i] = held_after_debits(k, acct, Held)[i]
  <2>1. CASE k.debits_live
    <3>1. Lesser(Held[i], 0) = 0
      BY <1>1 DEF Lesser
    <3>2. Wanted(k)[i] = 0
      BY <1>2, <2>1
    <3>3. HeldIn(D)[i] = Held[i]
      BY <1>1, <1>4, <3>1, <3>2
    <3>4. held_after_debits(k, acct, Held) = Held
      BY <2>1 DEF held_after_debits
    <3> QED
      BY <3>3, <3>4
  <2>2. CASE ~k.debits_live
    BY <1>2, <1>4, <2>2 DEF held_after_debits, drawn
  <2> QED
    BY <2>1, <2>2
<1>6. /\ HeldIn(D) = [i \in Ident |-> HeldIn(D)[i]]
      /\ held_after_debits(k, acct, Held)
           = [i \in Ident |-> held_after_debits(k, acct, Held)[i]]
  BY <1>1 DEF HeldIn, held_after_debits
<1>7. HeldIn(D) = held_after_debits(k, acct, Held)
  BY <1>5, <1>6
<1> QED
  BY <1>4, <1>7 DEF D
-----------------------------------------------------------------------------
(* Batches that only shrink stay covered by the payment in flight.         *)
LEMMA CoversStep ==
  ASSUME LedgerInv, paying' = paying,
         \A j \in DOMAIN holds' : \E m \in DOMAIN holds :
           /\ holds'[j].id = holds[m].id
           /\ \A i \in Ident : holds'[j].entries[i] <= holds[m].entries[i],
         holds' \in Seq(HoldBatch)
  PROVE  Covers'
<1> SUFFICES ASSUME paying # Idle, NEW j \in DOMAIN holds', holds'[j].id = paying.id,
                    NEW i \in Ident
             PROVE  holds'[j].entries[i] <= paying.entries[i]
  BY DEF Covers, Idle
<1>1. PICK m \in DOMAIN holds :
        holds'[j].id = holds[m].id /\ holds'[j].entries[i] <= holds[m].entries[i]
  OBVIOUS
<1>2. holds[m].entries[i] <= paying.entries[i]
  BY <1>1 DEF LedgerInv, Covers
<1>3. holds[m].entries[i] \in Nat /\ holds'[j].entries[i] \in Nat
  <2>1. holds[m] \in HoldBatch /\ holds'[j] \in HoldBatch
    BY InvFacts
  <2> QED
    BY <2>1 DEF HoldBatch
<1>4. paying.entries[i] \in Nat
  BY DEF LedgerInv, TypeOK
<1> QED
  BY <1>1, <1>2, <1>3, <1>4

(* A step that books block b and leaves the requests alone.                *)
LEMMA BookStep ==
  ASSUME LedgerInv, NEW b \in Block, NEW k \in BookRecord, Exact(k),
         books' = [books EXCEPT ![b] = k]
  PROVE  books' \in [Block -> BookRecord] /\ BooksSound'
<1>1. books \in [Block -> BookRecord] /\ \A x \in Block : Exact(books[x])
  BY InvFacts
<1>2. \A x \in Block : books'[x] = IF x = b THEN k ELSE books[x]
  BY <1>1
<1>3. books' \in [Block -> BookRecord]
  BY <1>1
<1> QED
  BY <1>1, <1>2, <1>3 DEF BooksSound

(* A block found.                                                          *)
LEMMA CandidateInv ==
  ASSUME LedgerInv, NEW b \in Block, NEW d \in cbs, NEW c \in [Ident -> Amount],
         BlockCandidate(b, d, c)
  PROVE  LedgerInv'
<1> DEFINE k == [NoBooks EXCEPT !.seen = TRUE, !.debit = d, !.credit = c]
<1>1. d \in [Ident -> Nat] /\ c \in [Ident -> Nat]
  BY Zenon, LedgerAssumption DEF LedgerInv, TypeOK
<1>2. k \in BookRecord /\ Exact(k)
  BY Zenon, <1>1, NoBooksFacts
<1>3. /\ books' = [books EXCEPT ![b] = book_debits(k, acct, Held)]
      /\ acct' = after_debits(k, acct, Held)
      /\ holds' = draw_from_holds(Wanted(k))
      /\ verdict' = [verdict EXCEPT ![b] = "asked"]
      /\ UNCHANGED <<settled, orphan, cbs, paying>>
  BY SMTT(30) DEF BlockCandidate
<1> HIDE DEF k
<1>4. /\ book_debits(k, acct, Held) \in BookRecord /\ Exact(book_debits(k, acct, Held))
      /\ acct' \in [Ident -> Account]
  BY <1>2, <1>3, InvFacts, BlockDebits
<1>5. books' \in [Block -> BookRecord] /\ BooksSound'
  BY Zenon, <1>3, <1>4, BookStep
<1>6. holds' \in Seq(HoldBatch) /\ OneEach(holds)' /\ Covers'
  BY <1>2, <1>3, DrawDebits, CoversStep DEF OneEach
<1>7. TypeOK'
  BY <1>3, <1>4, <1>5, <1>6 DEF LedgerInv, TypeOK, HoldBatch, Idle
<1> QED
  BY <1>5, <1>6, <1>7 DEF LedgerInv

(* A block settled.                                                        *)
LEMMA SettleInv ==
  ASSUME LedgerInv, NEW b \in Block, SettleConfirmed(b)
  PROVE  LedgerInv'
<1> DEFINE k  == books[b]
           a1 == after_debits(k, acct, Held)
           k1 == book_debits(k, acct, Held)
<1>1. k \in BookRecord /\ Exact(k)
  BY InvFacts
<1>2. /\ books' = [books EXCEPT ![b] = book_credits(k1, a1)]
      /\ acct' = after_credits(k1, a1)
      /\ holds' = draw_from_holds(Wanted(k))
      /\ settled' = [settled EXCEPT ![b] = TRUE]
      /\ orphan' = [orphan EXCEPT ![b] = FALSE]
      /\ UNCHANGED <<verdict, cbs, paying>>
  BY DEF SettleConfirmed
<1> HIDE DEF k
<1>3. k1 \in BookRecord /\ Exact(k1) /\ a1 \in [Ident -> Account]
  BY <1>1, InvFacts, BlockDebits
<1> HIDE DEF k1, a1
<1>4. /\ book_credits(k1, a1) \in BookRecord /\ Exact(book_credits(k1, a1))
      /\ acct' \in [Ident -> Account]
  BY <1>2, <1>3, BlockCredits
<1>5. books' \in [Block -> BookRecord] /\ BooksSound'
  BY Zenon, <1>2, <1>4, BookStep
<1>6. holds' \in Seq(HoldBatch) /\ OneEach(holds)' /\ Covers'
  BY <1>1, <1>2, DrawDebits, CoversStep DEF OneEach
<1>7. TypeOK'
  BY <1>2, <1>4, <1>5, <1>6 DEF LedgerInv, TypeOK, HoldBatch, Idle
<1> QED
  BY <1>5, <1>6, <1>7 DEF LedgerInv

(* mark_orphan leaves the holds and the requests to its callers.           *)
LEMMA OrphanInv ==
  ASSUME LedgerInv, NEW b \in Block, mark_orphan(b), UNCHANGED <<holds, cbs, paying>>,
         verdict' \in [Block -> {"none", "asked", "answered"}]
  PROVE  LedgerInv'
<1>1. books[b] \in BookRecord /\ Exact(books[b])
  BY SMTT(30), InvFacts
<1>2. /\ unbook(books[b]) \in BookRecord /\ Exact(unbook(books[b]))
      /\ undebited(books[b], uncredited(books[b], acct)) \in [Ident -> Account]
  BY Zenon, <1>1, InvFacts, BlockUnbook DEF Exact
<1>3. books' \in [Block -> BookRecord] /\ BooksSound'
  BY ZenonT(30), <1>2, BookStep DEF mark_orphan
<1>4. OneEach(holds)' /\ Covers'
  BY DEF LedgerInv, OneEach, Covers, Idle
<1>5. TypeOK'
  BY <1>2, <1>3 DEF LedgerInv, TypeOK, mark_orphan, Idle
<1> QED
  BY <1>3, <1>4, <1>5 DEF LedgerInv
(* A submission the node calls invalid.                                    *)
LEMMA SubmitInvalidInv ==
  ASSUME LedgerInv, NEW b \in Block, SubmitInvalid(b)
  PROVE  LedgerInv'
<1>1. verdict' \in [Block -> {"none", "asked", "answered"}]
  BY DEF SubmitInvalid, LedgerInv, TypeOK
<1>2. CASE mark_orphan(b)
  BY SMTT(30), <1>1, <1>2, OrphanInv DEF SubmitInvalid
<1>3. CASE UNCHANGED <<acct, books, orphan, settled>>
  BY <1>1, <1>3 DEF SubmitInvalid, LedgerInv, TypeOK, Covers, OneEach, BooksSound, Idle
<1> QED
  BY <1>2, <1>3 DEF SubmitInvalid

\* The batch a Hold makes.
NewBatch(batch, S) ==
  [id |-> batch, entries |-> [i \in Ident |-> IF i \in S THEN acct[i].carry ELSE 0]]

(* What a hold request does, identity by identity.                         *)
LEMMA HoldFacts ==
  ASSUME LedgerInv, NEW batch \in Batch, NEW S \in SUBSET Ident, HoldRequest(batch, S)
  PROVE  /\ NewBatch(batch, S) \in HoldBatch
         /\ holds' = Append(holds, NewBatch(batch, S))
         /\ acct' \in [Ident -> Account]
         /\ \A i \in Ident : acct'[i] = IF i \in S THEN [acct[i] EXCEPT !.carry = 0]
                                                   ELSE acct[i]
         /\ \A k \in DOMAIN holds : holds[k].id # NewBatch(batch, S).id
<1>1. \A i \in Ident : acct[i] \in Account /\ acct[i].carry \in Nat
  BY InvFacts DEF Account
<1>2. [i \in Ident |-> IF i \in S THEN acct[i].carry ELSE 0] \in [Ident -> Nat]
  BY <1>1
<1>3. NewBatch(batch, S) \in HoldBatch /\ NewBatch(batch, S).id = batch
  BY <1>2 DEF NewBatch, HoldBatch
<1>4. \A i \in Ident : /\ adjust_carry(acct[i], -acct[i].carry) = [acct[i] EXCEPT !.carry = 0]
                       /\ [acct[i] EXCEPT !.carry = 0] \in Account
  BY <1>1 DEF adjust_carry, Account
<1>5. acct' = [i \in Ident |-> IF i \in S THEN adjust_carry(acct[i], -acct[i].carry)
                                          ELSE acct[i]]
  BY DEF HoldRequest
<1>6. /\ acct' \in [Ident -> Account]
      /\ \A i \in Ident : acct'[i] = IF i \in S THEN [acct[i] EXCEPT !.carry = 0]
                                                ELSE acct[i]
  BY ZenonT(30), <1>1, <1>4, <1>5
<1> QED
  BY SMTT(30), <1>3, <1>6 DEF HoldRequest, NewBatch

(* A hold request.                                                         *)
LEMMA HoldInv ==
  ASSUME LedgerInv, NEW batch \in Batch, NEW S \in SUBSET Ident, HoldRequest(batch, S)
  PROVE  LedgerInv'
<1>1. /\ NewBatch(batch, S) \in HoldBatch
      /\ holds' = Append(holds, NewBatch(batch, S))
      /\ acct' \in [Ident -> Account]
      /\ \A k \in DOMAIN holds : holds[k].id # NewBatch(batch, S).id
  BY HoldFacts
<1>2. holds' \in Seq(HoldBatch) /\ OneEach(holds')
  BY <1>1, InvFacts, AppendHolds
<1>3. TypeOK'
  BY SMTT(30), <1>1, <1>2 DEF HoldRequest, LedgerInv, TypeOK, HoldBatch, Idle
<1>4. Covers'
  BY DEF HoldRequest, Covers, Idle
<1> QED
  BY <1>2, <1>3, <1>4 DEF HoldRequest, LedgerInv, OneEach, BooksSound

(* What a release request does, identity by identity.                      *)
LEMMA ReleaseFacts ==
  ASSUME LedgerInv, NEW k \in DOMAIN holds, ReleaseRequest(k)
  PROVE  /\ acct' \in [Ident -> Account]
         /\ \A i \in Ident :
              /\ holds[k].entries[i] \in Nat
              /\ acct'[i] = restore_carry(acct[i], holds[k].entries[i])
              /\ Net(acct'[i]) = Net(acct[i]) + holds[k].entries[i]
<1>1. \A i \in Ident : acct[i] \in Account /\ holds[k].entries[i] \in Nat
  <2>1. holds[k] \in HoldBatch
    BY InvFacts
  <2> QED
    BY <2>1, InvFacts DEF HoldBatch
<1>2. \A i \in Ident : /\ restore_carry(acct[i], holds[k].entries[i]) \in Account
                       /\ Net(restore_carry(acct[i], holds[k].entries[i]))
                            = Net(acct[i]) + holds[k].entries[i]
  BY SMTT(30), <1>1, RestoreCarry
<1> QED
  BY <1>1, <1>2 DEF ReleaseRequest

(* A release request.                                                      *)
LEMMA ReleaseInv ==
  ASSUME LedgerInv, NEW k \in DOMAIN holds, ReleaseRequest(k)
  PROVE  LedgerInv'
<1>1. holds' \in Seq(HoldBatch) /\ OneEach(holds')
  BY SMTT(30), InvFacts, DropHolds DEF ReleaseRequest
<1>2. TypeOK'
  BY Zenon, <1>1, ReleaseFacts DEF ReleaseRequest, LedgerInv, TypeOK, HoldBatch, Idle
<1> QED
  BY SMTT(30), <1>1, <1>2 DEF ReleaseRequest, LedgerInv, OneEach, BooksSound, Covers, Idle

(* The payment in flight confirms.                                         *)
LEMMA PaidInv ==
  ASSUME LedgerInv, PaidConfirmed
  PROVE  LedgerInv'
<1>1. holds' \in Seq(HoldBatch) /\ OneEach(holds')
  BY InvFacts, DropHolds DEF PaidConfirmed
<1>2. TypeOK'
  BY <1>1 DEF PaidConfirmed, LedgerInv, TypeOK, HoldBatch, Idle
<1> QED
  BY <1>1, <1>2 DEF PaidConfirmed, LedgerInv, OneEach, BooksSound, Covers, Idle

(* A batch whose payment is looked up.                                     *)
LEMMA PaidRequestInv ==
  ASSUME LedgerInv, NEW k \in DOMAIN holds, PaidRequest(k)
  PROVE  LedgerInv'
<1>1. holds[k] \in HoldBatch
  BY InvFacts
<1>2. holds[k].id \in Batch /\ holds[k].entries \in [Ident -> Nat]
  BY SMTT(30), <1>1 DEF HoldBatch
<1>3. TypeOK'
  BY <1>2 DEF PaidRequest, LedgerInv, TypeOK, Idle
<1>4. Covers'
  <2> SUFFICES ASSUME NEW j \in DOMAIN holds, holds[j].id = holds[k].id, NEW i \in Ident
               PROVE  holds[j].entries[i] <= holds[k].entries[i]
    BY DEF PaidRequest, Covers, Idle
  <2>1. j = k
    BY SMTT(30) DEF LedgerInv, OneEach
  <2> QED
    BY SMTT(30), <1>2, <2>1
<1> QED
  BY <1>3, <1>4 DEF PaidRequest, LedgerInv, OneEach, BooksSound

(* A correction by hand.                                                   *)
LEMMA CreditInv ==
  ASSUME LedgerInv, NEW i \in Ident, NEW delta \in Int, CreditRequest(i, delta)
  PROVE  LedgerInv' /\ Net(acct'[i]) \in Int
<1>1. acct \in [Ident -> Account] /\ acct[i] \in Account
  BY InvFacts
<1>2. settle_carry(acct[i], delta) \in Account
  BY <1>1, SettleCarry
<1>3. acct' \in [Ident -> Account]
  BY SMTT(30), <1>1, <1>2 DEF CreditRequest
<1>4. TypeOK'
  BY <1>3 DEF CreditRequest, LedgerInv, TypeOK, Idle
<1>5. Net(acct'[i]) \in Int
  BY <1>3 DEF Net, Account
<1> QED
  BY <1>4, <1>5 DEF CreditRequest, LedgerInv, OneEach, BooksSound, Covers, Idle
(* The invariant holds at the start.                                       *)
LEMMA LedgerInit == Init => LedgerInv
<1> SUFFICES ASSUME Init PROVE LedgerInv
  OBVIOUS
<1>1. NoBooks \in BookRecord /\ Exact(NoBooks)
  <2>1. None \in [Ident -> Nat]
    BY DEF None
  <2> QED
    BY <2>1 DEF NoBooks, BookRecord, Exact
<1>2. acct \in [Ident -> Account]
  <2>1. Amount \subseteq Nat
    BY LedgerAssumption
  <2>2. \A i \in Ident : acct[i].carry \in Nat /\ acct[i].debt = 0
    BY Zenon, <2>1 DEF Init
  <2> QED
    BY <2>2 DEF Init, Account
<1>3. TypeOK
  BY <1>1, <1>2 DEF Init, TypeOK
<1>4. BooksSound
  BY <1>1 DEF Init, BooksSound
<1> QED
  BY <1>3, <1>4 DEF Init, LedgerInv, OneEach, Covers

(* A coinbaser issued.                                                     *)
LEMMA IssueInv ==
  ASSUME LedgerInv, NEW d \in Balances, IssueCoinbaser(d)
  PROVE  LedgerInv'
<1>1. \A i \in Ident : acct[i].carry \in Nat
  BY InvFacts DEF Account
<1>2. UNION {0 .. acct[i].carry : i \in Ident} \subseteq Nat
  BY <1>1
<1>3. d \in [Ident -> Nat]
  BY <1>2 DEF Balances
<1> QED
  BY <1>3 DEF IssueCoinbaser, LedgerInv, TypeOK, Covers, OneEach, BooksSound, Idle

(* Every step keeps the invariant.                                         *)
LEMMA LedgerStep == LedgerInv /\ [Next]_vars => LedgerInv'
<1> SUFFICES ASSUME LedgerInv, [Next]_vars PROVE LedgerInv'
  OBVIOUS
<1>1. ASSUME NEW d \in Balances, IssueCoinbaser(d) PROVE LedgerInv'
  BY SMTT(30), <1>1, IssueInv
<1>2. ASSUME NEW d \in cbs, ForgetCoinbaser(d) PROVE LedgerInv'
  BY <1>2 DEF ForgetCoinbaser, LedgerInv, TypeOK, Covers, OneEach, BooksSound, Idle
<1>3. ASSUME NEW b \in Block, NEW d \in cbs, NEW c \in [Ident -> Amount],
             BlockCandidate(b, d, c)
      PROVE  LedgerInv'
  BY <1>3, CandidateInv
<1>4. ASSUME NEW b \in Block, SettleConfirmed(b) PROVE LedgerInv'
  BY SMTT(30), <1>4, SettleInv
<1>5. ASSUME NEW b \in Block, OrphanedByPoll(b) PROVE LedgerInv'
  BY SMTT(30), <1>5, OrphanInv DEF OrphanedByPoll, LedgerInv, TypeOK
<1>6. ASSUME NEW b \in Block, SubmitInvalid(b) PROVE LedgerInv'
  BY <1>6, SubmitInvalidInv
<1>7. ASSUME NEW b \in Block, SubmitOther(b) PROVE LedgerInv'
  BY <1>7 DEF SubmitOther, LedgerInv, TypeOK, Covers, OneEach, BooksSound, Idle
<1>8. ASSUME NEW batch \in Batch, NEW S \in SUBSET Ident, HoldRequest(batch, S)
      PROVE  LedgerInv'
  BY <1>8, HoldInv
<1>9. ASSUME NEW k \in DOMAIN holds, ReleaseRequest(k) PROVE LedgerInv'
  BY <1>9, ReleaseInv
<1>10. ASSUME NEW k \in DOMAIN holds, PaidRequest(k) PROVE LedgerInv'
  BY <1>10, PaidRequestInv
<1>11. CASE PaidConfirmed
  BY SMTT(30), <1>11, PaidInv
<1>12. CASE PaidRefused
  BY <1>12 DEF PaidRefused, LedgerInv, TypeOK, Covers, OneEach, BooksSound, Idle
<1>13. ASSUME NEW i \in Ident, NEW s \in Correction,
              CreditRequest(i, s) \/ CreditRequest(i, -s)
       PROVE  LedgerInv'
  <2>1. s \in Int /\ -s \in Int
    BY SMTT(30), LedgerAssumption
  <2> QED
    BY <1>13, <2>1, CreditInv
<1>14. CASE UNCHANGED vars
  BY <1>14 DEF vars, LedgerInv, TypeOK, Covers, OneEach, BooksSound, Idle
<1> QED
  BY SMTT(30), <1>1, <1>2, <1>3, <1>4, <1>5, <1>6, <1>7, <1>8, <1>9, <1>10, <1>11, <1>12,
     <1>13, <1>14 DEF Next

(* The invariant holds of every behaviour.                                 *)
LEMMA LedgerInvariant == Spec => []LedgerInv
  BY LedgerInit, LedgerStep, PTL DEF Spec

(* A hold finished after an await was paid in full: what is written off    *)
(* the books is never more than the transaction was checked to pay         *)
(* (payouts, Paid), for every number of identities, blocks and batches.    *)
THEOREM PaidCovers == Spec => []PaidCoversHold
<1>1. LedgerInv => PaidCoversHold
  BY DEF LedgerInv, Covers, PaidCoversHold
<1> QED
  BY <1>1, LedgerInvariant, PTL
-----------------------------------------------------------------------------
(***************************************************************************)
(* TidesLedger implements Accounts.  The operators Accounts gets by        *)
(* INSTANCE are those of BlockBooks.                                       *)
(***************************************************************************)
LEMMA SameBooking ==
  ASSUME NEW k, NEW a, NEW h
  PROVE  /\ A!NoBooks = NoBooks
         /\ A!book_debits(k, a, h) = book_debits(k, a, h)
         /\ A!after_debits(k, a, h) = after_debits(k, a, h)
         /\ A!held_after_debits(k, a, h) = held_after_debits(k, a, h)
         /\ A!book_credits(k, a) = book_credits(k, a)
         /\ A!after_credits(k, a) = after_credits(k, a)
<1>1. A!NoBooks = NoBooks
  BY DEF A!NoBooks, NoBooks, A!None, None
<1>2. A!book_debits(k, a, h) = book_debits(k, a, h)
  BY Zenon DEF A!book_debits, book_debits, A!moved, moved, A!overpaid, overpaid, A!drawn, drawn,
         A!from_carry, from_carry, A!Lesser, Lesser
<1>3. A!after_debits(k, a, h) = after_debits(k, a, h)
  BY Zenon DEF A!after_debits, after_debits, A!book_debit, book_debit, A!accrue_debt,
         accrue_debt, A!adjust_carry, adjust_carry, A!moved, moved, A!overpaid, overpaid,
         A!drawn, drawn, A!from_carry, from_carry, A!Lesser, Lesser
<1>4. A!held_after_debits(k, a, h) = held_after_debits(k, a, h)
  BY Zenon DEF A!held_after_debits, held_after_debits, A!drawn, drawn, A!from_carry, from_carry,
         A!Lesser, Lesser
<1>5. A!book_credits(k, a) = book_credits(k, a)
  BY Zenon DEF A!book_credits, book_credits, A!debt_taken, debt_taken, A!Lesser, Lesser
<1>6. A!after_credits(k, a) = after_credits(k, a)
  BY Zenon DEF A!after_credits, after_credits, A!book_credit, book_credit, A!adjust_carry,
         adjust_carry, A!reduce_debt, reduce_debt, A!debt_taken, debt_taken, A!Lesser, Lesser
<1> QED
  BY SMTT(30), <1>1, <1>2, <1>3, <1>4, <1>5, <1>6

(* Undoing a block is the same in both specifications.                     *)
LEMMA SameUndoing ==
  ASSUME NEW k, NEW a
  PROVE  /\ A!unbook(k) = unbook(k)
         /\ A!uncredited(k, a) = uncredited(k, a)
         /\ A!undebited(k, a) = undebited(k, a)
         /\ A!short(k, a) = short(k, a)
<1>1. A!unbook(k) = unbook(k)
  BY Zenon DEF A!unbook, unbook, A!None, None
<1>2. A!uncredited(k, a) = uncredited(k, a)
  BY Zenon DEF A!uncredited, uncredited, A!unbook_credit, unbook_credit, A!restore_debt, restore_debt,
         A!accrue_debt, accrue_debt, A!adjust_carry, adjust_carry, A!Lesser, Lesser
<1>3. A!undebited(k, a) = undebited(k, a)
  BY Zenon DEF A!undebited, undebited, A!unbook_debit, unbook_debit, A!forgive_debt, forgive_debt,
         A!restore_carry, restore_carry, A!reduce_debt, reduce_debt, A!debt_taken, debt_taken,
         A!adjust_carry, adjust_carry, A!Lesser, Lesser
<1>4. A!short(k, a) = short(k, a)
  BY Zenon DEF A!short, short, A!unbook_short, unbook_short, A!Lesser, Lesser, A!None, None
<1> QED
  BY <1>1, <1>2, <1>3, <1>4

(* So are the operations on one account.                                   *)
LEMMA SameAccount ==
  ASSUME NEW a, NEW s, NEW k, NEW i
  PROVE  /\ A!Net(a) = Net(a)
         /\ A!restore_carry(a, s) = restore_carry(a, s)
         /\ A!settle_carry(a, s) = settle_carry(a, s)
         /\ A!Booked(k, i) = Booked(k, i)
<1>1. A!restore_carry(a, s) = restore_carry(a, s)
  BY Zenon DEF A!restore_carry, restore_carry, A!reduce_debt, reduce_debt, A!debt_taken, debt_taken,
         A!adjust_carry, adjust_carry, A!Lesser, Lesser
<1>2. A!settle_carry(a, s) = settle_carry(a, s)
  BY <1>1, Zenon DEF A!settle_carry, settle_carry, A!adjust_carry, adjust_carry
<1> QED
  BY <1>1, <1>2, Zenon DEF A!Net, Net, A!Booked, Booked
\* What Accounts calls the claim, here.
Claim == [i \in Ident |-> Net(acct[i]) + Held[i]]

(* What an identity has a claim to, before and after a step.               *)
LEMMA ClaimIs ==
  \A i \in Ident : /\ Claim[i] = Net(acct[i]) + Held[i]
                   /\ Claim'[i] = Net(acct'[i]) + Held'[i]
  BY Zenon DEF Claim

(* The claims after a step, as a function.                                 *)
LEMMA ClaimNext == Claim' = [i \in Ident |-> Claim'[i]]
  BY DEF Claim

(* Claims are numbers.                                                     *)
LEMMA NetType ==
  ASSUME LedgerInv
  PROVE  \A i \in Ident : Net(acct[i]) \in Int /\ Held[i] \in Nat /\ Claim[i] \in Int
<1> SUFFICES ASSUME NEW i \in Ident
             PROVE  Net(acct[i]) \in Int /\ Held[i] \in Nat /\ Claim[i] \in Int
  OBVIOUS
<1>1. acct[i] \in Account /\ Held[i] \in Nat
  BY InvFacts
<1>2. Net(acct[i]) \in Int
  BY <1>1 DEF Net, Account
<1> QED
  BY <1>1, <1>2, ClaimIs

(* An initial ledger is an initial state of Accounts.                      *)
LEMMA InitMaps == Init => A!Init
<1> SUFFICES ASSUME Init PROVE A!Init
  BY SMTT(30)
<1>1. \A i \in Ident : acct[i].carry \in Nat /\ acct[i].debt = 0
  <2>1. Amount \subseteq Nat
    BY LedgerAssumption
  <2> QED
    BY Zenon, <2>1 DEF Init
<1>2. Held = A!None
  <2>1. holds = <<>> /\ DOMAIN holds = {}
    BY DEF Init
  <2>2. ASSUME NEW i \in Ident
        PROVE  SumFunction([k \in DOMAIN holds |-> holds[k].entries[i]]) = 0
    <3> DEFINE f == [k \in DOMAIN holds |-> holds[k].entries[i]]
    <3>1. f \in [{} -> Int]
      BY <2>1
    <3> HIDE DEF f
    <3>2. SumFunction(f) = 0
      BY Zenon, <3>1, FS_EmptySet, SumType
    <3> QED
      BY <3>2 DEF f
  <2> QED
    BY <2>2 DEF Held, A!None
<1>3. acct \in [Ident -> [carry : Sats, debt : {0}]]
  BY Zenon, LedgerAssumption DEF Init
<1>4. [i \in Ident |-> Net(acct[i]) + Held[i]] = [i \in Ident |-> acct[i].carry]
  <2>1. \A i \in Ident : Held[i] = 0
    BY <1>2 DEF A!None
  <2> QED
    BY <1>1, <2>1 DEF Net
<1>5. books = [b \in Block |-> A!NoBooks]
  BY SameBooking DEF Init
<1> QED
  BY <1>2, <1>3, <1>4, <1>5 DEF A!Init

(* A block found is a Candidate step.                                      *)
LEMMA CandidateMaps ==
  ASSUME LedgerInv, NEW b \in Block, NEW d \in cbs, NEW c \in [Ident -> Amount],
         BlockCandidate(b, d, c)
  PROVE  A!Candidate(b, d, c)
<1> DEFINE k == [NoBooks EXCEPT !.seen = TRUE, !.debit = d, !.credit = c]
<1>1. d \in [Ident -> Nat] /\ c \in [Ident -> Nat]
  BY Zenon, LedgerAssumption DEF LedgerInv, TypeOK
<1>2. k \in BookRecord /\ Exact(k) /\ ~k.debits_live /\ k.debit = d
  BY Zenon, <1>1, NoBooksFacts
<1>3. /\ ~books[b].seen
      /\ books' = [books EXCEPT ![b] = book_debits(k, acct, Held)]
      /\ acct' = after_debits(k, acct, Held)
      /\ holds' = draw_from_holds(Wanted(k))
  BY DEF BlockCandidate
<1>4. [A!NoBooks EXCEPT !.seen = TRUE, !.debit = d, !.credit = c] = k
  BY ZenonT(30), SameBooking
<1> HIDE DEF k
<1>5. Held' = held_after_debits(k, acct, Held)
  BY <1>2, <1>3, DrawDebits, HeldNextIs
<1>6. Claim' = [i \in Ident |-> Claim[i] - d[i]]
  <2>1. \A i \in Ident :
          Net(after_debits(k, acct, Held)[i]) + held_after_debits(k, acct, Held)[i]
            = Net(acct[i]) + Held[i] - (IF k.debits_live THEN 0 ELSE k.debit[i])
    BY SMTT(30), <1>2, InvFacts, BlockDebits
  <2>2. \A i \in Ident : Net(acct'[i]) + Held'[i] = Net(acct[i]) + Held[i] - d[i]
    <3> SUFFICES ASSUME NEW i \in Ident
                 PROVE  Net(acct'[i]) + Held'[i] = Net(acct[i]) + Held[i] - d[i]
      OBVIOUS
    <3>1. (IF k.debits_live THEN 0 ELSE k.debit[i]) = d[i]
      BY Zenon, <1>2
    <3>2. Net(after_debits(k, acct, Held)[i]) + held_after_debits(k, acct, Held)[i]
            = Net(acct[i]) + Held[i] - d[i]
      BY Zenon, <2>1, <3>1
    <3> QED
      BY Zenon, <1>3, <1>5, <3>2
  <2>3. \A i \in Ident : Claim'[i] = Claim[i] - d[i]
    BY SMTT(30), <1>1, <2>2, ClaimIs, NetType
  <2> QED
    BY <2>3, ClaimNext, Zenon
<1>7. /\ books' = [books EXCEPT ![b] = A!book_debits(k, acct, Held)]
      /\ acct' = A!after_debits(k, acct, Held)
      /\ Held' = A!held_after_debits(k, acct, Held)
  BY ZenonT(30), <1>3, <1>5, SameBooking
<1> QED
  BY <1>3, <1>4, <1>6, <1>7, Zenon DEF A!Candidate, Claim
(* A block settled is a Confirm step.                                      *)
LEMMA SettleMaps ==
  ASSUME LedgerInv, NEW b \in Block, SettleConfirmed(b)
  PROVE  A!Confirm(b)
<1> DEFINE k  == books[b]
           a1 == after_debits(k, acct, Held)
           k1 == book_debits(k, acct, Held)
           k2 == book_credits(k1, a1)
<1>1. k \in BookRecord /\ Exact(k)
  BY InvFacts
<1>2. /\ k.seen
      /\ books' = [books EXCEPT ![b] = k2]
      /\ acct' = after_credits(k1, a1)
      /\ holds' = draw_from_holds(Wanted(k))
  BY DEF SettleConfirmed
<1>3. /\ a1 = A!after_debits(k, acct, Held) /\ k1 = A!book_debits(k, acct, Held)
      /\ k2 = A!book_credits(k1, a1) /\ after_credits(k1, a1) = A!after_credits(k1, a1)
  BY SameBooking
<1>4. Held' = A!held_after_debits(k, acct, Held) /\ Held' = held_after_debits(k, acct, Held)
  <2> HIDE DEF k
  <2> QED
    BY ZenonT(30), <1>1, <1>2, DrawDebits, HeldNextIs, SameBooking
<1>5. /\ k1 \in BookRecord /\ Exact(k1) /\ k1.debits_live
      /\ k1.credits_live = k.credits_live /\ k1.debit = k.debit /\ k1.credit = k.credit
      /\ a1 \in [Ident -> Account]
      /\ \A i \in Ident : Net(a1[i]) + held_after_debits(k, acct, Held)[i]
           = Net(acct[i]) + Held[i] - (IF k.debits_live THEN 0 ELSE k.debit[i])
      /\ held_after_debits(k, acct, Held) \in [Ident -> Nat]
  <2>1. acct \in [Ident -> Account] /\ Held \in [Ident -> Nat]
    BY SMTT(30), InvFacts
  <2> HIDE DEF k
  <2>2. /\ k1 \in BookRecord /\ Exact(k1) /\ a1 \in [Ident -> Account]
        /\ held_after_debits(k, acct, Held) \in [Ident -> Nat]
    BY SMTT(30), <1>1, <2>1, BlockDebits
  <2>3. /\ k1.debits_live /\ k1.credits_live = k.credits_live
        /\ k1.debit = k.debit /\ k1.credit = k.credit
    BY SMTT(30), <1>1, <2>1, BlockDebits
  <2>4. \A i \in Ident : Net(a1[i]) + held_after_debits(k, acct, Held)[i]
           = Net(acct[i]) + Held[i] - (IF k.debits_live THEN 0 ELSE k.debit[i])
    BY SMTT(30), <1>1, <2>1, BlockDebits
  <2> QED
    BY SMTT(30), <2>2, <2>3, <2>4
<1> HIDE DEF a1, k1
<1>6. /\ k2.credits_live /\ k2.debits_live = k1.debits_live
      /\ k2.debit = k1.debit /\ k2.credit = k1.credit
      /\ \A i \in Ident : Net(acct'[i])
           = Net(a1[i]) + (IF k1.credits_live THEN 0 ELSE k1.credit[i])
  <2>1. /\ k2.credits_live /\ k2.debits_live = k1.debits_live
        /\ k2.debit = k1.debit /\ k2.credit = k1.credit
    BY ZenonT(30), <1>5, BlockCredits
  <2>2. \A i \in Ident : Net(after_credits(k1, a1)[i])
           = Net(a1[i]) + (IF k1.credits_live THEN 0 ELSE k1.credit[i])
    BY <1>5, BlockCredits
  <2> QED
    BY SMTT(30), <1>2, <2>1, <2>2
<1> HIDE DEF k2
<1>7. \A i \in Ident : Claim'[i] = Claim[i] + Booked(k2, i) - Booked(k, i)
  <2> SUFFICES ASSUME NEW i \in Ident
               PROVE  Claim'[i] = Claim[i] + Booked(k2, i) - Booked(k, i)
    OBVIOUS
  <2>1. k.debit[i] \in Nat /\ k.credit[i] \in Nat
    <3> HIDE DEF k
    <3> QED
      BY SMTT(30), <1>1 DEF BookRecord
  <2> HIDE DEF k
  <2>2. /\ Booked(k2, i) = k.credit[i] - k.debit[i]
        /\ Booked(k, i) = (IF k.credits_live THEN k.credit[i] ELSE 0)
                            - (IF k.debits_live THEN k.debit[i] ELSE 0)
    BY SMTT(30), <1>5, <1>6 DEF Booked
  <2>3. Net(a1[i]) \in Int /\ Held'[i] \in Nat
    BY SMTT(30), <1>4, <1>5 DEF Net, Account
  <2>4. Net(acct'[i]) = Net(a1[i]) + (IF k.credits_live THEN 0 ELSE k.credit[i])
    BY SMTT(30), <1>5, <1>6
  <2>5. Net(a1[i]) + Held'[i]
          = Net(acct[i]) + Held[i] - (IF k.debits_live THEN 0 ELSE k.debit[i])
    BY SMTT(30), <1>4, <1>5
  <2>6. Claim'[i] = Net(acct'[i]) + Held'[i] /\ Claim[i] = Net(acct[i]) + Held[i]
    BY ClaimIs
  <2>7. Net(acct[i]) \in Int /\ Held[i] \in Nat
    BY NetType
  <2>8. CASE k.credits_live /\ k.debits_live
    BY <2>1, <2>2, <2>3, <2>4, <2>5, <2>6, <2>7, <2>8
  <2>9. CASE k.credits_live /\ ~k.debits_live
    BY <2>1, <2>2, <2>3, <2>4, <2>5, <2>6, <2>7, <2>9
  <2>10. CASE ~k.credits_live /\ k.debits_live
    BY <2>1, <2>2, <2>3, <2>4, <2>5, <2>6, <2>7, <2>10
  <2>11. CASE ~k.credits_live /\ ~k.debits_live
    BY <2>1, <2>2, <2>3, <2>4, <2>5, <2>6, <2>7, <2>11
  <2> QED
    BY <2>8, <2>9, <2>10, <2>11
<1>8. Claim' = [i \in Ident |-> Claim[i] + A!Booked(k2, i) - A!Booked(k, i)]
  <2>1. \A i \in Ident : A!Booked(k2, i) = Booked(k2, i) /\ A!Booked(k, i) = Booked(k, i)
    BY SMTT(30), SameAccount
  <2>2. \A i \in Ident : Claim'[i] = Claim[i] + A!Booked(k2, i) - A!Booked(k, i)
    BY <1>7, <2>1
  <2> QED
    BY <2>2, ClaimNext, Zenon
<1> QED
  BY <1>2, <1>3, <1>4, <1>8, Zenon DEF A!Confirm, Claim, k

(* A block orphaned is an Orphan step.                                     *)
LEMMA OrphanMaps ==
  ASSUME LedgerInv, NEW b \in Block, mark_orphan(b), holds' = holds
  PROVE  A!Orphan(b)
<1> DEFINE k == books[b]
           v == undebited(k, uncredited(k, acct))
<1>1. k \in BookRecord /\ Exact(k)
  BY InvFacts
<1>2. k.seen /\ books' = [books EXCEPT ![b] = unbook(k)] /\ acct' = v
  BY DEF mark_orphan
<1>3. /\ unbook(k) = A!unbook(k) /\ short(k, acct) = A!short(k, acct)
      /\ v = A!undebited(k, A!uncredited(k, acct))
  BY SameUndoing
<1>4. Held' = Held
  BY Zenon DEF Held
<1> HIDE DEF k
<1>5. /\ short(k, acct) \in [Ident -> Nat]
      /\ \A i \in Ident : Net(v[i]) = Net(acct[i]) - Booked(k, i) + short(k, acct)[i]
  BY SMTT(30), <1>1, InvFacts, BlockUnbook
<1>6. \A i \in Ident : Claim'[i] = Claim[i] - A!Booked(k, i) + A!short(k, acct)[i]
  <2> SUFFICES ASSUME NEW i \in Ident
               PROVE  Claim'[i] = Claim[i] - A!Booked(k, i) + A!short(k, acct)[i]
    OBVIOUS
  <2> HIDE DEF v
  <2>1. k.debit[i] \in Nat /\ k.credit[i] \in Nat
    BY SMTT(30), <1>1 DEF BookRecord
  <2>2. Booked(k, i) \in Int /\ short(k, acct)[i] \in Nat
    BY SMTT(30), <1>5, <2>1 DEF Booked
  <2>3. Claim'[i] = Net(v[i]) + Held[i] /\ Claim[i] = Net(acct[i]) + Held[i]
    BY SMTT(30), <1>2, <1>4, ClaimIs
  <2>4. A!Booked(k, i) = Booked(k, i)
    BY SMTT(30), SameAccount
  <2>5. Net(acct[i]) \in Int /\ Held[i] \in Nat
    BY NetType
  <2>6. Net(v[i]) = Net(acct[i]) - Booked(k, i) + short(k, acct)[i]
    BY Zenon, <1>5
  <2>7. A!short(k, acct)[i] = short(k, acct)[i]
    BY Zenon, <1>3
  <2>8. Net(v[i]) + Held[i] = (Net(acct[i]) + Held[i]) - Booked(k, i) + short(k, acct)[i]
    BY SMTT(30), <2>2, <2>5, <2>6
  <2>9. Claim[i] - A!Booked(k, i) + A!short(k, acct)[i]
          = (Net(acct[i]) + Held[i]) - Booked(k, i) + short(k, acct)[i]
    BY ONLY Zenon, <2>3, <2>4, <2>7
  <2> QED
    BY ONLY Zenon, <2>3, <2>8, <2>9
<1>7. Claim' = [i \in Ident |-> Claim[i] - A!Booked(k, i) + A!short(k, acct)[i]]
  BY <1>6, ClaimNext, Zenon
<1> HIDE DEF v
<1> QED
  BY <1>2, <1>3, <1>4, <1>7, Zenon DEF A!Orphan, Claim, k
(* A hold request is a Hold step.                                          *)
LEMMA HoldMaps ==
  ASSUME LedgerInv, NEW batch \in Batch, NEW S \in SUBSET Ident, HoldRequest(batch, S)
  PROVE  A!Hold(S)
<1> DEFINE n == NewBatch(batch, S)
<1>1. /\ n \in HoldBatch /\ holds' = Append(holds, n)
      /\ acct' \in [Ident -> Account]
      /\ \A i \in Ident : acct'[i] = IF i \in S THEN [acct[i] EXCEPT !.carry = 0]
                                                ELSE acct[i]
  BY HoldFacts
<1>2. \A i \in Ident : n.entries[i] = IF i \in S THEN acct[i].carry ELSE 0
  BY DEF NewBatch
<1>3. \A i \in Ident : /\ acct[i] \in Account /\ acct[i].carry \in Nat
                       /\ acct[i].debt \in Nat /\ Held[i] \in Nat
  BY InvFacts DEF Account
<1> HIDE DEF n
<1>4. \A i \in Ident : Held'[i] = Held[i] + n.entries[i]
  BY SMTT(30), <1>1, InvFacts, HeldIs, HeldNextIs, AppendHolds
<1>5. Held' = [i \in Ident |-> IF i \in S THEN Held[i] + acct[i].carry ELSE Held[i]]
  <2>1. Held' = [i \in Ident |-> Held'[i]]
    BY Zenon DEF Held
  <2>2. \A i \in Ident : Held'[i] = IF i \in S THEN Held[i] + acct[i].carry ELSE Held[i]
    BY SMTT(30), <1>2, <1>3, <1>4
  <2> QED
    BY <2>1, <2>2
<1>6. acct' = [i \in Ident |-> IF i \in S THEN [acct[i] EXCEPT !.carry = 0] ELSE acct[i]]
  BY <1>1
<1>7. Claim' = Claim
  <2>1. \A i \in Ident : Net(acct'[i]) + Held'[i] = Net(acct[i]) + Held[i]
    <3> SUFFICES ASSUME NEW i \in Ident
                 PROVE  Net(acct'[i]) + Held'[i] = Net(acct[i]) + Held[i]
      OBVIOUS
    <3>1. Held'[i] = Held[i] + n.entries[i]
      BY SMTT(30), <1>4
    <3>2. CASE i \in S
      <4>1. acct'[i].carry = 0 /\ acct'[i].debt = acct[i].debt /\ n.entries[i] = acct[i].carry
        BY SMTT(30), <1>1, <1>2, <1>3, <3>2 DEF Account
      <4> QED
        BY <1>3, <3>1, <4>1 DEF Net
    <3>3. CASE i \notin S
      BY SMTT(30), <1>1, <1>2, <1>3, <3>1, <3>3
    <3> QED
      BY SMTT(30), <3>2, <3>3
  <2> QED
    BY <2>1, Zenon DEF Claim
<1> QED
  BY <1>5, <1>6, <1>7, Zenon DEF A!Hold, HoldRequest, Claim

(* Giving up batch k, or having paid it, takes its entries off the holds.  *)
LEMMA DropMaps ==
  ASSUME LedgerInv, NEW k \in DOMAIN holds, holds' = Drop(holds[k].id)
  PROVE  /\ holds[k].entries \in A!HeldEntries
         /\ \A i \in Ident : /\ holds[k].entries[i] \in Nat
                             /\ holds[k].entries[i] <= Held[i]
                             /\ Held'[i] = Held[i] - holds[k].entries[i]
         /\ Held' = [i \in Ident |-> Held[i] - holds[k].entries[i]]
<1>1. holds[k].entries \in [Ident -> Nat]
  <2>1. holds[k] \in HoldBatch
    BY InvFacts
  <2> QED
    BY <2>1 DEF HoldBatch
<1>2. \A i \in Ident : holds[k].entries[i] <= Held[i]
  BY SMTT(30), InvFacts, HeldType, HeldIs
<1>3. \A i \in Ident : Held'[i] = Held[i] - holds[k].entries[i]
  BY SMTT(30), InvFacts, DropHolds, HeldIs, HeldNextIs
<1>4. holds[k].entries \in A!HeldEntries
  <2>1. \A i \in Ident : holds[k].entries[i] \in 0 .. Held[i]
    BY SMTT(30), <1>1, <1>2, InvFacts
  <2>2. \A i \in Ident : holds[k].entries[i] \in UNION {0 .. Held[x] : x \in Ident}
    BY <2>1
  <2> QED
    BY SMTT(30), <1>1, <2>2 DEF A!HeldEntries
<1>5. Held' = [i \in Ident |-> Held'[i]]
  BY Zenon DEF Held
<1> QED
  BY SMTT(30), <1>1, <1>2, <1>3, <1>4, <1>5

(* A release request is a Release step.                                    *)
LEMMA ReleaseMaps ==
  ASSUME LedgerInv, NEW k \in DOMAIN holds, ReleaseRequest(k)
  PROVE  \E r \in A!HeldEntries : A!Release(r)
<1> DEFINE r == holds[k].entries
<1>1. /\ r \in A!HeldEntries
      /\ \A i \in Ident : r[i] \in Nat /\ r[i] <= Held[i] /\ Held'[i] = Held[i] - r[i]
      /\ Held' = [i \in Ident |-> Held[i] - r[i]]
  BY SMTT(30), DropMaps DEF ReleaseRequest
<1>2. acct' = [i \in Ident |-> A!restore_carry(acct[i], r[i])]
  <2>1. acct' = [i \in Ident |-> restore_carry(acct[i], r[i])]
    BY DEF ReleaseRequest
  <2> QED
    BY SMTT(30), <2>1, SameAccount
<1>3. Claim' = Claim
  <2>1. \A i \in Ident : Net(acct'[i]) = Net(acct[i]) + r[i]
    BY SMTT(30), ReleaseFacts
  <2>2. \A i \in Ident : Net(acct'[i]) + Held'[i] = Net(acct[i]) + Held[i]
    BY <1>1, <2>1, NetType
  <2> QED
    BY <2>2, Zenon DEF Claim
<1> HIDE DEF r
<1>4. A!Release(r)
  BY <1>1, <1>2, <1>3, Zenon DEF A!Release, ReleaseRequest, Claim
<1> QED
  BY SMTT(30), <1>1, <1>4

(* A payment that confirms is a Finish step, or changes nothing.           *)
LEMMA PaidMaps ==
  ASSUME LedgerInv, PaidConfirmed
  PROVE  \/ \E r \in A!HeldEntries : A!Finish(r)
         \/ UNCHANGED A!vars
<1>1. holds' = Drop(paying.id) /\ UNCHANGED <<acct, books>>
  BY DEF PaidConfirmed
<1>2. ASSUME NEW k \in DOMAIN holds, holds[k].id = paying.id
      PROVE  \E r \in A!HeldEntries : A!Finish(r)
  <2>0. PICK e : e = holds[k].entries
    BY SMTT(30)
  <2>1. /\ e \in A!HeldEntries
        /\ \A i \in Ident : e[i] \in Nat /\ e[i] <= Held[i] /\ Held'[i] = Held[i] - e[i]
        /\ Held' = [i \in Ident |-> Held[i] - e[i]]
    BY SMTT(30), <1>1, <1>2, <2>0, DropMaps
  <2>2. \A i \in Ident : Claim'[i] = Claim[i] - e[i]
    BY SMTT(30), <1>1, <2>1, ClaimIs, NetType
  <2>3. Claim' = [i \in Ident |-> Claim[i] - e[i]]
    BY <2>2, ClaimNext, Zenon
  <2>4. A!Finish(e)
    BY <1>1, <2>1, <2>3, Zenon DEF A!Finish, Claim
  <2>5. e \in A!HeldEntries
    BY <2>1
  <2> QED
    BY <2>4, <2>5
<1>3. ASSUME \A k \in DOMAIN holds : holds[k].id # paying.id
      PROVE  UNCHANGED A!vars
  <2>1. \A i \in Ident : Held'[i] = Held[i]
    BY SMTT(30), <1>1, <1>3, InvFacts, DropHolds, HeldIs, HeldNextIs
  <2>2. Held' = [i \in Ident |-> Held'[i]] /\ Held = [i \in Ident |-> Held[i]]
    BY Zenon DEF Held
  <2>3. Held' = Held
    BY <2>1, <2>2
  <2> QED
    BY <1>1, <2>3, Zenon DEF A!vars
<1> QED
  BY <1>2, <1>3

(* A correction by hand is an Adjust step.                                 *)
LEMMA CreditMaps ==
  ASSUME LedgerInv, NEW i \in Ident, NEW delta \in Int, CreditRequest(i, delta)
  PROVE  A!Adjust(i, delta)
<1>1. acct' = [acct EXCEPT ![i] = settle_carry(@, delta)] /\ Held' = Held /\ books' = books
  BY Zenon DEF CreditRequest, Held
<1>2. acct' = [acct EXCEPT ![i] = A!settle_carry(@, delta)]
  BY ZenonT(30), <1>1, SameAccount
<1>3. /\ \A x \in Ident \ {i} : acct'[x] = acct[x]
      /\ acct'[i] = settle_carry(acct[i], delta)
  BY <1>1, InvFacts
<1>4. Net(acct'[i]) \in Int
  BY CreditInv
<1>5. \A x \in Ident :
        Claim'[x] = IF x = i THEN Claim[i] + Net(settle_carry(acct[i], delta)) - Net(acct[i])
                    ELSE Claim[x]
  BY <1>1, <1>3, <1>4, ClaimIs, NetType
<1>6. Claim' = [Claim EXCEPT ![i] = @ + A!Net(A!settle_carry(acct[i], delta)) - A!Net(acct[i])]
  <2> DEFINE z == Claim[i] + Net(settle_carry(acct[i], delta)) - Net(acct[i])
  <2>1. z = Claim[i] + A!Net(A!settle_carry(acct[i], delta)) - A!Net(acct[i])
    BY SMTT(30), SameAccount
  <2>2. \A x \in Ident : Claim'[x] = IF x = i THEN z ELSE Claim[x]
    BY <1>5
  <2> HIDE DEF z
  <2>3. Claim = [x \in Ident |-> Claim[x]]
    BY Zenon DEF Claim
  <2>4. Claim' = [Claim EXCEPT ![i] = z]
    BY <2>2, <2>3, ClaimNext
  <2> QED
    BY SMTT(30), <2>1, <2>4
<1> QED
  BY <1>1, <1>2, <1>6, Zenon DEF A!Adjust, Claim
(* Every step of the ledger is a step of Accounts, or a stutter.           *)
LEMMA StepMaps ==
  ASSUME Sats = Nat, LedgerInv, [Next]_vars
  PROVE  [A!Next]_(A!vars)
<1>1. ASSUME UNCHANGED <<acct, holds, books>> PROVE UNCHANGED A!vars
  <2>1. Held' = Held
    BY <1>1, Zenon DEF Held
  <2> QED
    BY <1>1, <2>1, Zenon DEF A!vars
<1>2. ASSUME NEW d \in Balances, IssueCoinbaser(d) PROVE UNCHANGED A!vars
  BY <1>1, <1>2 DEF IssueCoinbaser
<1>3. ASSUME NEW d \in cbs, ForgetCoinbaser(d) PROVE UNCHANGED A!vars
  BY <1>1, <1>3 DEF ForgetCoinbaser
<1>4. ASSUME NEW b \in Block, NEW d \in cbs, NEW c \in [Ident -> Amount],
             BlockCandidate(b, d, c)
      PROVE  A!Next
  <2>1. d \in [Ident -> Sats] /\ c \in [Ident -> Sats]
    BY Zenon, LedgerAssumption DEF LedgerInv, TypeOK
  <2>2. A!Candidate(b, d, c)
    BY <1>4, CandidateMaps
  <2> QED
    BY <2>1, <2>2, Zenon DEF A!Next
<1>5. ASSUME NEW b \in Block, SettleConfirmed(b) PROVE A!Next
  BY <1>5, SettleMaps, Zenon DEF A!Next
<1>6. ASSUME NEW b \in Block, OrphanedByPoll(b) PROVE A!Next
  <2>1. A!Orphan(b)
    BY <1>6, OrphanMaps DEF OrphanedByPoll
  <2> QED
    BY <2>1, Zenon DEF A!Next
<1>7. ASSUME NEW b \in Block, SubmitInvalid(b) PROVE A!Next \/ UNCHANGED A!vars
  <2>1. CASE mark_orphan(b)
    <3>1. A!Orphan(b)
      BY SMTT(30), <1>7, <2>1, OrphanMaps DEF SubmitInvalid
    <3> QED
      BY <3>1, Zenon DEF A!Next
  <2>2. CASE UNCHANGED <<acct, books, orphan, settled>>
    BY SMTT(30), <1>1, <1>7, <2>2 DEF SubmitInvalid
  <2> QED
    BY <1>7, <2>1, <2>2 DEF SubmitInvalid
<1>8. ASSUME NEW b \in Block, SubmitOther(b) PROVE UNCHANGED A!vars
  BY <1>1, <1>8 DEF SubmitOther
<1>9. ASSUME NEW batch \in Batch, NEW S \in SUBSET Ident, HoldRequest(batch, S)
      PROVE  A!Next
  <2>1. A!Hold(S)
    BY <1>9, HoldMaps
  <2> QED
    BY <2>1, Zenon DEF A!Next
<1>10. ASSUME NEW k \in DOMAIN holds, ReleaseRequest(k) PROVE A!Next
  <2>1. \E r \in A!HeldEntries : A!Release(r)
    BY <1>10, ReleaseMaps
  <2> QED
    BY <2>1, Zenon DEF A!Next
<1>11. ASSUME NEW k \in DOMAIN holds, PaidRequest(k) PROVE UNCHANGED A!vars
  BY <1>1, <1>11 DEF PaidRequest
<1>12. CASE PaidConfirmed
  BY <1>12, PaidMaps, Zenon DEF A!Next
<1>13. ASSUME PaidRefused PROVE UNCHANGED A!vars
  BY <1>1, <1>13 DEF PaidRefused
<1>14. ASSUME NEW i \in Ident, NEW s \in Correction,
              CreditRequest(i, s) \/ CreditRequest(i, -s)
       PROVE  A!Next
  <2>1. s \in Sats /\ s \in Int /\ -s \in Int
    BY LedgerAssumption
  <2>2. A!Adjust(i, s) \/ A!Adjust(i, -s)
    BY SMTT(30), <1>14, <2>1, CreditMaps
  <2> QED
    BY <2>1, <2>2, Zenon DEF A!Next
<1>15. CASE UNCHANGED vars
  BY SMTT(30), <1>1, <1>15 DEF vars
<1>16. A!Next \/ UNCHANGED A!vars
  BY SMTT(30), <1>2, <1>3, <1>4, <1>5, <1>6, <1>7, <1>8, <1>9, <1>10, <1>11, <1>12, <1>13,
     <1>14, <1>15 DEF Next
<1> QED
  BY <1>16

(* TidesLedger implements Accounts: seen through the totals per identity,  *)
(* every step of the ledger, with its holds kept in batches, its           *)
(* coinbasers priced earlier and the node's answers arriving late, is a    *)
(* step Accounts allows or changes nothing, so the ledger inherits what is *)
(* proved of Accounts.                                                     *)
THEOREM LedgerKeepsAccounts ==
  ASSUME Sats = Nat
  PROVE  Spec => KeepsAccounts
<1>1. LedgerInv /\ [Next]_vars => [A!Next]_(A!vars)
  BY StepMaps
<1> QED
  BY <1>1, InitMaps, LedgerInvariant, PTL DEF Spec, KeepsAccounts, A!Spec
=============================================================================
