------------------------- MODULE DissemBarrierProofs -------------------------
(***************************************************************************)
(* The dissemination barrier is correct for every size of a communicator.  *)
(*                                                                         *)
(* The inductive invariant counts: the messages queued between two ranks   *)
(* that are a mask apart are the sends of one less the receives of the     *)
(* other, because different masks lead to different destinations.  And it  *)
(* says what a receive tells the receiver: once the r-th receive at        *)
(* distance k is over, the 2k ranks up to its own have entered r times.    *)
(* The loop ends when 2k has reached the size of the ring.                 *)
(*                                                                         *)
(* The set of masks is defined as a least set, which makes induction over  *)
(* the rounds (MaskInduction) a matter of instantiating a set.             *)
(***************************************************************************)
EXTENDS DissemBarrier, TLAPS

\* The masks of MPIR_Barrier_intra in a communicator of n processes: mask starts
\* at 1 and doubles while it is below n, so they are the least set that holds 1
\* and, with every k, the double of k below n.
Doubles(n, S) == 1 \in S /\ \A k \in S : 2 * k < n => 2 * k \in S
Masks(n) == {k \in 1 .. n - 1 : \A S \in SUBSET (1 .. n - 1) : Doubles(n, S) => k \in S}

\* What "mask = 0x1; mask < size; mask <<= 1" generates: 1, unless the process is
\* alone, and the double of every mask that is below the size.
LEMMA MasksDouble ==
  ASSUME NEW n \in Nat
  PROVE  /\ Masks(n) \subseteq 1 .. n - 1
         /\ n > 1 => 1 \in Masks(n)
         /\ \A k \in Masks(n) : 2 * k < n => 2 * k \in Masks(n)
  <1>1. Masks(n) \subseteq 1 .. n - 1
    BY DEF Masks
  <1>2. ASSUME n > 1 PROVE 1 \in Masks(n)
    BY <1>2 DEF Masks, Doubles
  <1>3. ASSUME NEW k \in Masks(n), 2 * k < n PROVE 2 * k \in Masks(n)
    <2>1. k \in 1 .. n - 1 /\ 2 * k \in 1 .. n - 1
      BY <1>1, <1>3
    <2>2. ASSUME NEW S \in SUBSET (1 .. n - 1), Doubles(n, S) PROVE 2 * k \in S
      <3>1. k \in S
        BY <2>2 DEF Masks
      <3>2. QED
        BY <1>3, <2>2, <3>1 DEF Doubles
    <2>3. QED
      BY <2>1, <2>2 DEF Masks
  <1>4. QED
    BY <1>1, <1>2, <1>3

\* Induction over the rounds of the loop: a set that holds the first mask and,
\* with every mask, the next one holds all of them.
LEMMA MaskInduction ==
  ASSUME NEW n \in Nat, NEW S,
         n > 1 => 1 \in S,
         \A k \in Masks(n) : k \in S /\ 2 * k < n => 2 * k \in S
  PROVE  Masks(n) \subseteq S
  <1> DEFINE T == Masks(n) \cap S
  <1>1. CASE n > 1
    <2>1. T \in SUBSET (1 .. n - 1)
      BY MasksDouble
    <2>2. 1 \in T
      BY <1>1, MasksDouble
    <2>3. \A k \in T : 2 * k < n => 2 * k \in T
      BY MasksDouble
    <2>4. Doubles(n, T)
      BY <2>2, <2>3 DEF Doubles
    <2> HIDE DEF T
    <2>5. Masks(n) \subseteq T
      BY <2>1, <2>4 DEF Masks
    <2>6. QED
      BY <2>5 DEF T
  <1>2. CASE ~(n > 1)
    <2>1. 1 .. n - 1 = {}
      BY <1>2
    <2>2. QED
      BY <2>1, MasksDouble
  <1>3. QED
    BY <1>1, <1>2

\* Every round but the first follows the round with half its mask.
LEMMA MaskHalf ==
  ASSUME NEW n \in Nat, NEW k \in Masks(n)
  PROVE  k = 1 \/ \E j \in Masks(n) : k = 2 * j
  <1> DEFINE S == {x \in Nat : x = 1 \/ \E j \in Masks(n) : x = 2 * j}
  <1>1. n > 1 => 1 \in S
    OBVIOUS
  <1>2. \A x \in Masks(n) : 2 * x \in S
    BY MasksDouble
  <1>3. Masks(n) \subseteq S
    <2> HIDE DEF S
    <2>1. QED
      BY <1>1, <1>2, MaskInduction
  <1>4. QED
    BY <1>3

\* There is no round between one mask and its double: "mask <<= 1" skips nothing.
LEMMA MaskGap ==
  ASSUME NEW n \in Nat, NEW j \in Masks(n), NEW k \in Masks(n), j < k
  PROVE  2 * j <= k
  <1> DEFINE S == {x \in Nat : \A i \in Masks(n) : i < x => 2 * i <= x}
  <1>1. n > 1 => 1 \in S
    BY MasksDouble
  <1>2. ASSUME NEW x \in Masks(n), x \in S PROVE 2 * x \in S
    <2>1. x \in Nat
      BY MasksDouble
    <2>2. ASSUME NEW i \in Masks(n), i < 2 * x PROVE 2 * i <= 2 * x
      <3>1. i \in Nat
        BY MasksDouble
      <3>2. CASE i = 1
        BY <3>2, <2>1, MasksDouble
      <3>3. ASSUME NEW h \in Masks(n), i = 2 * h PROVE i <= x
        <4>1. h \in Nat
          BY MasksDouble
        <4>2. h < x
          BY <4>1, <3>3, <2>2, <2>1
        <4>3. QED
          BY <4>2, <1>2, <3>3
      <3>4. QED
        BY <3>1, <2>1, <3>2, <3>3, MaskHalf
    <2>3. QED
      BY <2>1, <2>2
  <1>3. Masks(n) \subseteq S
    <2> HIDE DEF S
    <2>1. QED
      BY <1>1, <1>2, MaskInduction
  <1>4. QED
    BY <1>3
-----------------------------------------------------------------------------
\* The remainder of a number below twice the modulus, which is all that the rank
\* computations of MPIR_Barrier_intra need.
LEMMA Wrap ==
  ASSUME NEW n \in Nat \ {0}, NEW a \in Int
  PROVE  /\ a \in 0 .. n - 1 => a % n = a
         /\ a \in n .. 2 * n - 1 => a % n = a - n
  OBVIOUS

\* dst = (rank + mask) % size wraps around at most once.
LEMMA DstIs ==
  ASSUME size \in Nat \ {0}, NEW p \in Rank, NEW k \in 0 .. size - 1
  PROVE  Dst(p, k) = IF p + k < size THEN p + k ELSE p + k - size
  <1>1. p + k \in Int /\ p \in 0 .. size - 1 /\ k \in Int
    BY DEF Rank
  <1>2. CASE p + k < size
    <2>1. p + k \in 0 .. size - 1
      BY <1>1, <1>2
    <2>2. QED
      BY <1>1, <1>2, <2>1, Wrap, Zenon DEF Dst
  <1>3. CASE ~(p + k < size)
    <2>1. p + k \in size .. 2 * size - 1
      BY <1>1, <1>3
    <2>2. (p + k) % size = (p + k) - size
      BY ONLY <1>1, <2>1, size \in Nat \ {0}, Wrap, Zenon
    <2>3. QED
      BY <1>1, <1>3, <2>2 DEF Dst
  <1>4. QED
    BY <1>2, <1>3

\* src = (rank - mask + size) % size wraps around at most once.
LEMMA SrcIs ==
  ASSUME size \in Nat \ {0}, NEW p \in Rank, NEW k \in 0 .. size - 1
  PROVE  Src(p, k) = IF p - k < 0 THEN p - k + size ELSE p - k
  <1>1. p - k + size \in Int /\ p \in 0 .. size - 1 /\ k \in Int
    BY DEF Rank
  <1>2. CASE p - k < 0
    <2>1. p - k + size \in 0 .. size - 1
      BY <1>1, <1>2
    <2>2. QED
      BY <1>1, <1>2, <2>1, Wrap DEF Src
  <1>3. CASE ~(p - k < 0)
    <2>1. p - k + size \in size .. 2 * size - 1 /\ p - k + size - size = p - k
      BY <1>1, <1>3
    <2>2. (p - k + size) % size = (p - k + size) - size
      BY ONLY <1>1, <2>1, size \in Nat \ {0}, Wrap, Zenon
    <2>3. QED
      BY <1>1, <1>3, <2>1, <2>2 DEF Src
  <1>4. QED
    BY <1>2, <1>3

\* dst and src of MPIR_Barrier_intra on the ring of ranks: they are ranks and
\* undo each other, different masks have different destinations, distances add
\* up, and every rank is some distance behind every other.
LEMMA Ring ==
  ASSUME size \in Nat \ {0}
  PROVE  /\ \A p \in Rank, k \in 0 .. size - 1 :
              /\ Dst(p, k) \in Rank /\ Src(p, k) \in Rank
              /\ Dst(Src(p, k), k) = p
         /\ \A p \in Rank : Src(p, 0) = p
         /\ \A p \in Rank, j, k \in 0 .. size - 1 : Dst(p, j) = Dst(p, k) => j = k
         /\ \A p, x \in Rank, k \in 0 .. size - 1 : Dst(x, k) = p => x = Src(p, k)
         /\ \A p \in Rank, j, k \in 0 .. size - 1 :
              j + k < size => Src(Src(p, j), k) = Src(p, j + k)
         /\ \A p, q \in Rank : \E k \in 0 .. size - 1 : q = Src(p, k)
  <1>1. ASSUME NEW p \in Rank, NEW k \in 0 .. size - 1
        PROVE  Dst(p, k) \in Rank /\ Src(p, k) \in Rank
    BY DstIs, SrcIs DEF Rank
  <1>2. ASSUME NEW p \in Rank, NEW k \in 0 .. size - 1
        PROVE  Dst(Src(p, k), k) = p
    <2>1. Src(p, k) \in Rank
      BY <1>1
    <2>2. Dst(Src(p, k), k) = IF Src(p, k) + k < size THEN Src(p, k) + k
                              ELSE Src(p, k) + k - size
      BY <2>1, DstIs
    <2>3. QED
      BY <2>2, SrcIs DEF Rank
  <1>3. ASSUME NEW p \in Rank
        PROVE  Src(p, 0) = p
    <2>1. 0 \in 0 .. size - 1
      OBVIOUS
    <2>2. QED
      BY <2>1, SrcIs DEF Rank
  <1>4. ASSUME NEW p \in Rank, NEW j \in 0 .. size - 1, NEW k \in 0 .. size - 1,
               Dst(p, j) = Dst(p, k)
        PROVE  j = k
    BY <1>4, DstIs DEF Rank
  <1>5. ASSUME NEW p \in Rank, NEW x \in Rank, NEW k \in 0 .. size - 1, Dst(x, k) = p
        PROVE  x = Src(p, k)
    BY <1>5, DstIs, SrcIs DEF Rank
  <1>6. ASSUME NEW p \in Rank, NEW j \in 0 .. size - 1, NEW k \in 0 .. size - 1,
               j + k < size
        PROVE  Src(Src(p, j), k) = Src(p, j + k)
    <2>1. Src(p, j) \in Rank /\ j + k \in 0 .. size - 1
      BY <1>1, <1>6
    <2>2. Src(Src(p, j), k) = IF Src(p, j) - k < 0 THEN Src(p, j) - k + size
                              ELSE Src(p, j) - k
      BY <2>1, SrcIs
    <2>3. Src(p, j + k) = IF p - (j + k) < 0 THEN p - (j + k) + size ELSE p - (j + k)
      BY <2>1, SrcIs
    <2>4. QED
      BY <2>2, <2>3, <1>6, SrcIs DEF Rank
  <1>7. ASSUME NEW p \in Rank, NEW q \in Rank
        PROVE  \E k \in 0 .. size - 1 : q = Src(p, k)
    <2>1. CASE q <= p
      <3>1. p - q \in 0 .. size - 1
        BY <2>1 DEF Rank
      <3>2. Src(p, p - q) = q
        BY <3>1, SrcIs DEF Rank
      <3>3. QED
        BY <3>1, <3>2
    <2>2. CASE q > p
      <3>1. p - q + size \in 0 .. size - 1
        BY <2>2 DEF Rank
      <3>2. Src(p, p - q + size) = q
        BY <3>1, SrcIs DEF Rank
      <3>3. QED
        BY <3>1, <3>2
    <2>3. QED
      BY <2>1, <2>2 DEF Rank
  <1>8. QED
    BY <1>1, <1>2, <1>3, <1>4, <1>5, <1>6, <1>7
-----------------------------------------------------------------------------
\* How many messages at distance k a process has sent that has left l barriers
\* and has mask m: one per barrier, once its mask has come to k.
Sends(l, m, k) == l + (IF m >= k THEN 1 ELSE 0)

\* How many it has received, where r tells whether its receive is still open.
Receives(l, m, r, k) == l + (IF m > k \/ (m = k /\ ~r) THEN 1 ELSE 0)

\* A process in the barrier has one of the masks, its receive is open only there,
\* and it has entered one barrier more than it has left.
MaskOK ==
    \A p \in Rank :
      /\ mask[p] # 0 => mask[p] \in Masks(size)
      /\ mask[p] = 0 => p \notin receiving
      /\ entered[p] = left[p] + (IF mask[p] = 0 THEN 0 ELSE 1)

\* The messages between two ranks that are a mask apart are the sends of one less
\* the receives of the other: no two rounds share a pair of ranks.
Accounts ==
    \A p \in Rank, k \in Masks(size) :
      flight[<<p, Dst(p, k)>>] = Sends(left[p], mask[p], k) - Receives(left[Dst(p, k)], mask[Dst(p, k)], Dst(p, k) \in receiving, k)

\* There are no messages between ranks that are no mask apart.
NoOthers ==
    \A p, q \in Rank : (\A k \in Masks(size) : q # Dst(p, k)) => flight[<<p, q>>] = 0

\* A process whose r-th receive at distance k is over has heard, directly or
\* through others, of the r-th entry of all of the 2k ranks up to its own.
Heard ==
    \A p \in Rank, k \in Masks(size), d \in 0 .. size - 1 :
      d < 2 * k => Receives(left[p], mask[p], p \in receiving, k) <= entered[Src(p, d)]

\* The inductive invariant.
IInv == TypeOK /\ MaskOK /\ Accounts /\ NoOthers /\ Heard /\ NobodyLeavesEarly

\* Before the first call of MPI_Barrier the inductive invariant holds.
LEMMA InitIInv == Init => IInv
  <1> SUFFICES ASSUME Init PROVE IInv
    OBVIOUS
  <1> USE SizeAssumption
  <1>1. TypeOK
    BY DEF Init, TypeOK
  <1>2. size \in Nat \ {0}
    BY <1>1 DEF TypeOK
  <1>3. \A p \in Rank : mask[p] = 0 /\ entered[p] = 0 /\ left[p] = 0
    BY DEF Init
  <1>4. \A p \in Rank, k \in Masks(size) : Sends(left[p], mask[p], k) = 0 /\ Receives(left[p], mask[p], p \in receiving, k) = 0
    BY <1>2, <1>3, MasksDouble DEF Sends, Receives
  <1>5. MaskOK
    BY <1>3 DEF MaskOK, Init
  <1>6. \A p \in Rank, k \in Masks(size) : Dst(p, k) \in Rank /\ Src(p, k) \in Rank
    BY <1>2, Ring, MasksDouble
  <1>7. Accounts
    BY <1>4, <1>6 DEF Accounts, Init
  <1>8. NoOthers
    BY DEF NoOthers, Init
  <1>9. Heard
    <2>1. \A p \in Rank, d \in 0 .. size - 1 : entered[Src(p, d)] = 0
      BY <1>2, <1>3, Ring
    <2>2. QED
      BY <2>1, <1>4 DEF Heard
  <1>10. NobodyLeavesEarly
    BY <1>3 DEF NobodyLeavesEarly
  <1>11. QED
    BY <1>1, <1>5, <1>7, <1>8, <1>9, <1>10 DEF IInv

\* The types that the arithmetic of the proofs below needs.
LEMMA Numbers ==
  ASSUME IInv
  PROVE  /\ size \in Nat \ {0} /\ size <= MaxSize
         /\ Masks(size) \subseteq 1 .. size - 1
         /\ \A p \in Rank : /\ left[p] \in Nat /\ entered[p] \in Nat /\ mask[p] \in Nat
                            /\ left[p] <= entered[p] /\ entered[p] <= left[p] + 1
         /\ \A p \in Rank, k \in Masks(size) :
              /\ Dst(p, k) \in Rank /\ Src(p, k) \in Rank
              /\ Sends(left[p], mask[p], k) \in Nat /\ Receives(left[p], mask[p], p \in receiving, k) \in Nat
              /\ left[p] <= Receives(left[p], mask[p], p \in receiving, k)
         /\ \A p, q \in Rank : flight[<<p, q>>] \in 0 .. 2
  <1> USE SizeAssumption
  <1>1. size \in Nat \ {0} /\ size <= MaxSize
    BY DEF IInv, TypeOK
  <1>2. Masks(size) \subseteq 1 .. size - 1
    BY <1>1, MasksDouble
  <1>3. \A p \in Rank : /\ left[p] \in Nat /\ entered[p] \in Nat /\ mask[p] \in Nat
                        /\ left[p] <= entered[p] /\ entered[p] <= left[p] + 1
    BY DEF IInv, TypeOK, MaskOK
  <1>4. \A p \in Rank, k \in Masks(size) : Dst(p, k) \in Rank /\ Src(p, k) \in Rank
    BY <1>1, <1>2, Ring
  <1>5. \A p \in Rank, k \in Masks(size) :
           Sends(left[p], mask[p], k) \in Nat /\ Receives(left[p], mask[p], p \in receiving, k) \in Nat /\ left[p] <= Receives(left[p], mask[p], p \in receiving, k)
    BY <1>3 DEF Sends, Receives
  <1>6. \A p, q \in Rank : flight[<<p, q>>] \in 0 .. 2
    BY DEF IInv, TypeOK
  <1>7. QED
    BY <1>1, <1>2, <1>3, <1>4, <1>5, <1>6

\* MPIC_Sendrecv of the round with mask k, from outside the barrier or from the
\* round before, keeps the inductive invariant: one more message is sent.  There
\* are never more than two in one queue, since the sender can be at most one
\* barrier ahead of the receiver.
LEMMA StartInv ==
  ASSUME IInv, NEW p \in Rank, NEW k \in Masks(size),
         MPIC_Sendrecv(p, k), UNCHANGED <<size, width, left>>,
         entered' \in [Rank -> 0 .. MaxRounds], entered'[p] = left[p] + 1,
         \A q \in Rank \ {p} : entered'[q] = entered[q],
         mask[p] < k, p \notin receiving,
         \A j \in Masks(size) : j < k => j <= mask[p]
  PROVE  IInv'
  <1> DEFINE q == Dst(p, k)
  <1>1. /\ size \in Nat \ {0} /\ size <= MaxSize /\ MaxSize \in Nat
        /\ k \in 1 .. size - 1 /\ k \in Nat /\ q \in Rank
        /\ \A j \in Masks(size) : j \in Nat
    BY Numbers, SizeAssumption
  <1>2. /\ size' = size /\ Rank' = Rank /\ Masks(size)' = Masks(size) /\ left' = left
        /\ \A x \in Rank, j \in Int : Dst(x, j)' = Dst(x, j) /\ Src(x, j)' = Src(x, j)
    BY DEF Rank, Dst, Src
  <1>3. /\ mask' = [mask EXCEPT ![p] = k] /\ mask \in [Rank -> 0 .. MaxSize]
        /\ receiving' = receiving \cup {p}
        /\ flight' = [flight EXCEPT ![<<p, q>>] = @ + 1]
        /\ flight \in [Rank \X Rank -> 0 .. 2]
    BY DEF MPIC_Sendrecv, IInv, TypeOK
  <1> HIDE DEF q
  <1>a. \A x \in Rank : mask'[x] = IF x = p THEN k ELSE mask[x]
    BY <1>3
  <1>4. \A x \in Rank, j \in Masks(size) :
           Sends(left'[x], mask'[x], j) = IF x = p /\ j = k THEN Sends(left[x], mask[x], j) + 1 ELSE Sends(left[x], mask[x], j)
    <2> SUFFICES ASSUME NEW x \in Rank, NEW j \in Masks(size)
                 PROVE  Sends(left'[x], mask'[x], j)
                          = IF x = p /\ j = k THEN Sends(left[x], mask[x], j) + 1
                            ELSE Sends(left[x], mask[x], j)
      OBVIOUS
    <2>1. j \in Nat /\ left[x] \in Nat /\ mask[x] \in Nat /\ left'[x] = left[x]
      BY <1>1, <1>2, Numbers, Zenon
    <2>2. CASE x = p
      <3>1. mask'[x] = k /\ mask[x] < k /\ (j < k => j <= mask[x])
        BY <1>a, <2>2
      <3>2. QED
        BY <1>1, <2>1, <2>2, <3>1 DEF Sends
    <2>3. CASE x # p
      BY <1>a, <2>1, <2>3
    <2>4. QED
      BY <2>2, <2>3
  <1>5. \A x \in Rank, j \in Masks(size) : Receives(left'[x], mask'[x], x \in receiving', j) = Receives(left[x], mask[x], x \in receiving, j)
    <2> SUFFICES ASSUME NEW x \in Rank, NEW j \in Masks(size)
                 PROVE  Receives(left'[x], mask'[x], x \in receiving', j)
                          = Receives(left[x], mask[x], x \in receiving, j)
      OBVIOUS
    <2>1. j \in Nat /\ left[x] \in Nat /\ mask[x] \in Nat /\ left'[x] = left[x]
      BY <1>1, <1>2, Numbers, Zenon
    <2>2. CASE x = p
      <3>1. mask'[x] = k /\ mask[x] < k /\ (j < k => j <= mask[x])
        BY <1>a, <2>2
      <3>2. x \notin receiving /\ x \in receiving'
        BY <1>3, <2>2
      <3>3. QED
        BY <1>1, <2>1, <3>1, <3>2 DEF Receives
    <2>3. CASE x # p
      <3>1. x \in receiving' <=> x \in receiving
        BY <1>3, <2>3
      <3>2. QED
        BY <1>a, <2>1, <2>3, <3>1 DEF Receives
    <2>4. QED
      BY <2>2, <2>3
  <1>6. \A x, y \in Rank :
           flight'[<<x, y>>] = IF x = p /\ y = q THEN flight[<<x, y>>] + 1
                               ELSE flight[<<x, y>>]
    BY <1>1, <1>3
  <1>7. flight[<<p, q>>] + 1 \in 0 .. 2
    <2>1. flight[<<p, q>>] = Sends(left[p], mask[p], k) - Receives(left[q], mask[q], q \in receiving, k)
      BY DEF IInv, Accounts, q
    <2>2. Sends(left[p], mask[p], k) = left[p]
      BY <1>1, Numbers DEF Sends
    <2>3. left[p] <= left[q] + 1
      BY <1>1, Numbers DEF IInv, NobodyLeavesEarly
    <2>4. left[q] <= Receives(left[q], mask[q], q \in receiving, k) /\ left[q] \in Nat /\ left[p] \in Nat /\ Receives(left[q], mask[q], q \in receiving, k) \in Nat
      BY <1>1, Numbers
    <2>5. flight[<<p, q>>] \in 0 .. 2
      BY <1>1, Numbers
    <2>6. QED
      BY <2>1, <2>2, <2>3, <2>4, <2>5
  <1>8. TypeOK'
    <2>1. size' \in 1 .. MaxSize /\ width' \in 1 .. MaxSize
      BY DEF IInv, TypeOK
    <2>2. mask' \in [Rank -> 0 .. MaxSize]
      BY <1>1, <1>3
    <2>3. receiving' \subseteq Rank /\ sending' \subseteq Rank
      BY DEF IInv, TypeOK, MPIC_Sendrecv
    <2>4. flight' \in [Rank \X Rank -> 0 .. 2]
      BY <1>1, <1>3, <1>7
    <2>5. left' \in [Rank -> 0 .. MaxRounds]
      BY DEF IInv, TypeOK
    <2>6. QED
      BY <1>2, <2>1, <2>2, <2>3, <2>4, <2>5 DEF TypeOK
  <1>9. MaskOK'
    <2>1. \A x \in Rank : mask'[x] = IF x = p THEN k ELSE mask[x]
      BY <1>3
    <2>2. QED
      BY <1>1, <1>2, <1>3, <2>1 DEF IInv, MaskOK
  <1>10. Accounts'
    <2> SUFFICES ASSUME NEW x \in Rank, NEW j \in Masks(size)
                 PROVE  flight'[<<x, Dst(x, j)>>] = Sends(left'[x], mask'[x], j) - Receives(left'[Dst(x, j)], mask'[Dst(x, j)], Dst(x, j) \in receiving', j)
      BY <1>2 DEF Accounts, Dst
    <2>1. Dst(x, j) \in Rank /\ j \in 0 .. size - 1 /\ k \in 0 .. size - 1
      BY Numbers, <1>1
    <2>2. x = p /\ Dst(x, j) = q => j = k
      BY <1>1, <2>1, Ring DEF q
    <2>3. flight[<<x, Dst(x, j)>>] = Sends(left[x], mask[x], j) - Receives(left[Dst(x, j)], mask[Dst(x, j)], Dst(x, j) \in receiving, j)
      BY DEF IInv, Accounts
    <2>4. Receives(left'[Dst(x, j)], mask'[Dst(x, j)], Dst(x, j) \in receiving', j) = Receives(left[Dst(x, j)], mask[Dst(x, j)], Dst(x, j) \in receiving, j)
      BY <2>1, <1>5
    <2>5. Sends(left[x], mask[x], j) \in Nat /\ Receives(left[Dst(x, j)], mask[Dst(x, j)], Dst(x, j) \in receiving, j) \in Nat
      BY <2>1, Numbers
    <2>6. QED
      BY <1>4, <1>6, <2>1, <2>2, <2>3, <2>4, <2>5 DEF q
  <1>11. NoOthers'
    <2> SUFFICES ASSUME NEW x \in Rank, NEW y \in Rank, \A j \in Masks(size) : y # Dst(x, j)
                 PROVE  flight'[<<x, y>>] = 0
      BY <1>1, <1>2 DEF NoOthers
    <2>1. ~(x = p /\ y = q)
      BY DEF q
    <2>2. QED
      BY <1>6, <2>1 DEF IInv, NoOthers
  <1>12. \A x \in Rank : entered[x] <= entered'[x]
    <2>1. \A x \in Rank : entered[x] \in Nat /\ left[x] \in Nat /\ entered[x] <= left[x] + 1
      BY Numbers
    <2>2. QED
      BY <2>1
  <1>13. Heard'
    <2> SUFFICES ASSUME NEW x \in Rank, NEW j \in Masks(size), NEW d \in 0 .. size - 1,
                        d < 2 * j
                 PROVE  Receives(left'[x], mask'[x], x \in receiving', j) <= entered'[Src(x, d)]
      BY <1>2 DEF Heard, Src
    <2>1. Receives(left[x], mask[x], x \in receiving, j) <= entered[Src(x, d)]
      BY DEF IInv, Heard
    <2>2. Src(x, d) \in Rank
      BY <1>1, Ring
    <2>3. Receives(left[x], mask[x], x \in receiving, j) \in Nat /\ entered[Src(x, d)] \in Nat /\ entered'[Src(x, d)] \in Nat
      BY <2>2, Numbers, SizeAssumption
    <2>4. QED
      BY <1>5, <1>12, <2>1, <2>2, <2>3
  <1>14. NobodyLeavesEarly'
    BY <1>2, <1>12, Numbers, SizeAssumption DEF IInv, NobodyLeavesEarly
  <1>15. QED
    BY <1>8, <1>9, <1>10, <1>11, <1>13, <1>14 DEF IInv

\* The completion of the receive of a round keeps it: the sender had heard of the
\* k ranks up to its own, the receiver of its own k, and the sender is k behind.
LEMMA MatchInv ==
  ASSUME IInv, NEW p \in Rank, Match(p)
  PROVE  IInv'
  <1> DEFINE k == mask[p]
             s == Src(p, k)
             r == left[p] + 1
  <1>1. /\ k \in Masks(size) /\ p \in receiving
        /\ flight[<<s, p>>] > 0
        /\ receiving' = receiving \ {p}
        /\ flight' = [flight EXCEPT ![<<s, p>>] = @ - 1]
        /\ flight \in [Rank \X Rank -> 0 .. 2]
        /\ UNCHANGED <<size, width, mask, entered, left>>
    BY DEF Match, IInv, MaskOK, TypeOK
  <1>2. /\ size \in Nat \ {0} /\ k \in 1 .. size - 1 /\ k \in 0 .. size - 1 /\ k \in Nat
        /\ s \in Rank /\ \A j \in Masks(size) : j \in Nat
        /\ left[p] \in Nat /\ r \in Nat
    <2>1. k \in 1 .. size - 1 /\ size \in Nat \ {0} /\ left[p] \in Nat
      BY <1>1, Numbers
    <2>2. s \in Rank
      BY <1>1, Numbers
    <2>3. \A j \in Masks(size) : j \in Nat
      BY <2>1, Numbers
    <2>4. QED
      BY <2>1, <2>2, <2>3
  <1>3. /\ size' = size /\ Rank' = Rank /\ Masks(size)' = Masks(size)
        /\ \A x \in Rank, j \in Int : Dst(x, j)' = Dst(x, j) /\ Src(x, j)' = Src(x, j)
    BY <1>1 DEF Rank, Dst, Src
  <1> HIDE DEF k, r
  <1>4. Dst(s, k) = p /\ \A x \in Rank : Dst(x, k) = p => x = s
    <2>1. Dst(s, k) = p
      BY <1>2, Ring
    <2>2. \A x \in Rank : Dst(x, k) = p => x = s
      BY <1>2, Ring
    <2>3. QED
      BY <2>1, <2>2
  <1> HIDE DEF s
  <1>5. \A x \in Rank, j \in Masks(size) :
           Receives(left'[x], mask'[x], x \in receiving', j)
             = IF x = p /\ j = k THEN Receives(left[x], mask[x], x \in receiving, j) + 1
               ELSE Receives(left[x], mask[x], x \in receiving, j)
    <2> SUFFICES ASSUME NEW x \in Rank, NEW j \in Masks(size)
                 PROVE  Receives(left[x], mask[x], x \in receiving', j)
                          = IF x = p /\ j = k
                            THEN Receives(left[x], mask[x], x \in receiving, j) + 1
                            ELSE Receives(left[x], mask[x], x \in receiving, j)
      BY <1>1
    <2>1. j \in Nat /\ left[x] \in Nat /\ mask[x] \in Nat
      BY <1>2, Numbers
    <2>2. CASE x = p
      <3>1. mask[x] = k /\ x \in receiving /\ x \notin receiving'
        BY <1>1, <2>2 DEF k
      <3>2. QED
        BY <1>2, <2>1, <2>2, <3>1 DEF Receives
    <2>3. CASE x # p
      <3>1. x \in receiving' <=> x \in receiving
        BY <1>1, <2>3
      <3>2. QED
        BY <2>1, <2>3, <3>1 DEF Receives
    <2>4. QED
      BY <2>2, <2>3
  <1>6. \A x, y \in Rank :
           flight'[<<x, y>>] = IF x = s /\ y = p THEN flight[<<x, y>>] - 1
                               ELSE flight[<<x, y>>]
    BY <1>1, <1>2
  <1>7. TypeOK'
    <2>1. size' \in 1 .. MaxSize /\ width' \in 1 .. MaxSize
      BY <1>1 DEF IInv, TypeOK
    <2>2. receiving' \subseteq Rank /\ sending' \subseteq Rank
      BY <1>1 DEF IInv, TypeOK, Match
    <2>3. flight' \in [Rank \X Rank -> 0 .. 2]
      BY <1>1, <1>2
    <2>4. /\ mask' \in [Rank -> 0 .. MaxSize] /\ left' \in [Rank -> 0 .. MaxRounds]
          /\ entered' \in [Rank -> 0 .. MaxRounds]
      BY <1>1 DEF IInv, TypeOK
    <2>5. QED
      BY <1>3, <2>1, <2>2, <2>3, <2>4 DEF TypeOK
  <1>8. MaskOK'
    BY <1>1, <1>3 DEF IInv, MaskOK
  <1>9. Accounts'
    <2> SUFFICES ASSUME NEW x \in Rank, NEW j \in Masks(size), NEW y,
                        y = Dst(x, j)
                 PROVE  flight'[<<x, y>>]
                          = Sends(left[x], mask[x], j)
                              - Receives(left'[y], mask'[y], y \in receiving', j)
      BY <1>1, <1>3 DEF Accounts, Dst
    <2>a. y \in Rank
      BY Numbers
    <2>1. flight[<<x, y>>] = Sends(left[x], mask[x], j)
                               - Receives(left[y], mask[y], y \in receiving, j)
      BY DEF IInv, Accounts
    <2>2. /\ Sends(left[x], mask[x], j) \in Nat
          /\ Receives(left[y], mask[y], y \in receiving, j) \in Nat
      BY <2>a, Numbers
    <2>3. (x = s /\ y = p) <=> (y = p /\ j = k)
      <3>1. ASSUME x = s, y = p PROVE j = k
        <4>1. Dst(s, j) = Dst(s, k) /\ j \in 0 .. size - 1
          BY <3>1, <1>4, Numbers
        <4>2. QED
          BY <4>1, <1>2, Ring
      <3>2. QED
        BY <3>1, <1>4
    <2>4. QED
      BY <1>5, <1>6, <2>a, <2>1, <2>2, <2>3
  <1>10. NoOthers'
    <2> SUFFICES ASSUME NEW x \in Rank, NEW y \in Rank, \A j \in Masks(size) : y # Dst(x, j)
                 PROVE  flight'[<<x, y>>] = 0
      BY <1>2, <1>3 DEF NoOthers
    <2>1. ~(x = s /\ y = p)
      BY <1>1, <1>4
    <2>2. QED
      BY <1>6, <2>1 DEF IInv, NoOthers
  <1>11. r <= Sends(left[s], mask[s], k)
    <2>1. Receives(left[p], mask[p], p \in receiving, k) = left[p]
      BY <1>1, <1>2 DEF Receives, k
    <2>2. flight[<<s, p>>] = Sends(left[s], mask[s], k) - left[p]
      BY <1>1, <1>2, <1>4, <2>1 DEF IInv, Accounts
    <2>3. Sends(left[s], mask[s], k) \in Nat
      BY <1>1, <1>2, Numbers
    <2>4. QED
      BY <1>1, <1>2, <2>2, <2>3 DEF r
  <1>12. ASSUME NEW d \in 0 .. size - 1, d < k
         PROVE  r <= entered[Src(p, d)] /\ r <= entered[Src(s, d)]
    <2>1. /\ left[s] \in Nat /\ mask[s] \in Nat /\ entered[s] \in Nat
          /\ entered[s] = left[s] + (IF mask[s] = 0 THEN 0 ELSE 1)
          /\ entered[p] = left[p] + 1
      BY <1>1, <1>2, Numbers DEF IInv, MaskOK, k
    <2>2. CASE k = 1
      <3>1. d = 0 /\ Src(p, d) = p /\ Src(s, d) = s
        BY <2>2, <1>2, <1>12, Ring
      <3>2. r <= entered[s]
        BY <1>2, <1>11, <2>1, <2>2 DEF Sends
      <3>3. QED
        BY <1>2, <2>1, <3>1, <3>2 DEF r
    <2>3. ASSUME NEW j \in Masks(size), k = 2 * j
          PROVE  r <= entered[Src(p, d)] /\ r <= entered[Src(s, d)]
      <3>1. j \in Nat /\ d < 2 * j /\ j < k
        BY <1>2, <1>12, <2>3, Numbers
      <3>2. Receives(left[p], mask[p], p \in receiving, j) = r
        BY <1>2, <3>1 DEF Receives, k, r
      <3>3. r <= Receives(left[s], mask[s], s \in receiving, j)
        BY <1>2, <1>11, <2>1, <3>1 DEF Sends, Receives
      <3>4. /\ r <= entered[Src(p, d)]
            /\ Receives(left[s], mask[s], s \in receiving, j) <= entered[Src(s, d)]
        BY <1>2, <3>1, <3>2 DEF IInv, Heard
      <3>5. Src(s, d) \in Rank
        BY <1>2, Ring
      <3>6. /\ Receives(left[s], mask[s], s \in receiving, j) \in Nat
            /\ entered[Src(s, d)] \in Nat
        BY <1>2, <3>5, Numbers
      <3>7. QED
        BY <1>2, <3>3, <3>4, <3>6
    <2>4. QED
      BY <1>1, <1>2, <2>2, <2>3, MaskHalf
  <1>13. Heard'
    <2> SUFFICES ASSUME NEW x \in Rank, NEW j \in Masks(size), NEW d \in 0 .. size - 1,
                        d < 2 * j
                 PROVE  Receives(left'[x], mask'[x], x \in receiving', j) <= entered[Src(x, d)]
      BY <1>1, <1>3 DEF Heard, Src
    <2>1. CASE ~(x = p /\ j = k)
      BY <1>5, <2>1 DEF IInv, Heard
    <2>2. CASE x = p /\ j = k
      <3>1. Receives(left'[x], mask'[x], x \in receiving', j) = r
        <4>1. Receives(left[p], mask[p], p \in receiving, k) = left[p]
          BY <1>1, <1>2 DEF Receives, k
        <4>2. QED
          BY <1>5, <2>2, <4>1 DEF r
      <3>2. CASE d < k
        BY <1>12, <2>2, <3>1, <3>2
      <3>3. CASE ~(d < k)
        <4>1. d - k \in 0 .. size - 1 /\ d - k < k /\ k + (d - k) = d /\ k + (d - k) < size
          BY <1>2, <2>2, <3>3
        <4>2. Src(s, d - k) = Src(p, d)
          BY <1>2, <4>1, Ring DEF s
        <4>3. QED
          BY <1>12, <2>2, <3>1, <4>1, <4>2
      <3>4. QED
        BY <3>2, <3>3
    <2>3. QED
      BY <2>1, <2>2
  <1>14. NobodyLeavesEarly'
    BY <1>1, <1>3 DEF IInv, NobodyLeavesEarly
  <1>15. QED
    BY <1>7, <1>8, <1>9, <1>10, <1>13, <1>14 DEF IInv

\* The end of the loop of MPIR_Barrier_intra keeps it: twice the last mask is at
\* least the size, so the process has heard of everybody.
LEMMA LeaveInv ==
  ASSUME IInv, NEW p \in Rank, mask[p] # 0, p \notin receiving, ~Again(p),
         mask' = [mask EXCEPT ![p] = 0], left' = [left EXCEPT ![p] = @ + 1],
         UNCHANGED <<size, width, sending, receiving, flight, entered>>
  PROVE  IInv'
  <1> DEFINE k == mask[p]
  <1>1. /\ k \in Masks(size) /\ size \in Nat \ {0} /\ k \in Nat /\ size <= 2 * k
        /\ \A j \in Masks(size) : j \in Nat /\ j < size
        /\ mask \in [Rank -> 0 .. MaxSize] /\ left \in [Rank -> 0 .. MaxRounds]
        /\ left[p] \in Nat /\ entered[p] = left[p] + 1
        /\ \A x \in Rank : left[x] \in Nat /\ mask[x] \in Nat
    BY Numbers DEF IInv, TypeOK, MaskOK, Again
  <1>2. \A j \in Masks(size) : j <= k
    BY <1>1, MaskGap
  <1>3. /\ size' = size /\ Rank' = Rank /\ Masks(size)' = Masks(size)
        /\ \A x \in Rank, j \in Int : Dst(x, j)' = Dst(x, j) /\ Src(x, j)' = Src(x, j)
    BY DEF Rank, Dst, Src
  <1>4. \A x \in Rank : /\ mask'[x] = IF x = p THEN 0 ELSE mask[x]
                        /\ left'[x] = IF x = p THEN left[x] + 1 ELSE left[x]
    BY <1>1
  <1>5. \A x \in Rank, j \in Masks(size) :
           /\ Sends(left'[x], mask'[x], j) = Sends(left[x], mask[x], j)
           /\ Receives(left'[x], mask'[x], x \in receiving', j)
                = Receives(left[x], mask[x], x \in receiving, j)
    <2> SUFFICES ASSUME NEW x \in Rank, NEW j \in Masks(size)
                 PROVE  /\ Sends(left'[x], mask'[x], j) = Sends(left[x], mask[x], j)
                        /\ Receives(left'[x], mask'[x], x \in receiving, j)
                             = Receives(left[x], mask[x], x \in receiving, j)
      OBVIOUS
    <2>1. j \in Nat /\ 0 < j /\ j <= k /\ left[x] \in Nat /\ mask[x] \in Nat
      BY <1>1, <1>2, Numbers
    <2>2. CASE x = p
      <3>1. mask'[x] = 0 /\ left'[x] = left[x] + 1 /\ mask[x] = k /\ x \notin receiving
        BY <1>4, <2>2
      <3> HIDE DEF k
      <3>2. QED
        BY <1>1, <2>1, <3>1 DEF Sends, Receives
    <2>3. CASE x # p
      BY <1>4, <2>3
    <2>4. QED
      BY <2>2, <2>3
  <1>6. \A x \in Rank : left[p] + 1 <= entered[x]
    <2> SUFFICES ASSUME NEW x \in Rank PROVE left[p] + 1 <= entered[x]
      OBVIOUS
    <2>1. PICK d \in 0 .. size - 1 : x = Src(p, d)
      BY <1>1, Ring
    <2>2. d < 2 * k
      BY <1>1
    <2>3. Receives(left[p], mask[p], p \in receiving, k) <= entered[x]
      BY <1>1, <2>1, <2>2 DEF IInv, Heard
    <2>4. Receives(left[p], mask[p], p \in receiving, k) = left[p] + 1
      BY <1>1 DEF Receives
    <2>5. QED
      BY <2>3, <2>4
  <1> HIDE DEF k
  <1>7. NobodyLeavesEarly'
    BY <1>1, <1>3, <1>4, <1>6 DEF IInv, NobodyLeavesEarly
  <1>8. TypeOK'
    <2>1. left[p] + 1 \in 0 .. MaxRounds
      BY <1>1, SizeAssumption DEF IInv, TypeOK
    <2>2. left' \in [Rank -> 0 .. MaxRounds] /\ mask' \in [Rank -> 0 .. MaxSize]
      BY <1>1, <2>1, SizeAssumption
    <2>3. /\ entered' \in [Rank -> 0 .. MaxRounds] /\ flight' \in [Rank \X Rank -> 0 .. 2]
          /\ sending' \subseteq Rank /\ receiving' \subseteq Rank
          /\ size' \in 1 .. MaxSize /\ width' \in 1 .. MaxSize
      BY DEF IInv, TypeOK
    <2>4. QED
      BY <1>3, <2>2, <2>3 DEF TypeOK
  <1>9. MaskOK'
    <2> SUFFICES ASSUME NEW x \in Rank
                 PROVE  /\ mask'[x] # 0 => mask'[x] \in Masks(size)
                        /\ mask'[x] = 0 => x \notin receiving
                        /\ entered[x] = left'[x] + (IF mask'[x] = 0 THEN 0 ELSE 1)
      BY <1>3 DEF MaskOK
    <2>1. CASE x = p
      BY <1>1, <1>4, <2>1
    <2>2. CASE x # p
      BY <1>4, <2>2 DEF IInv, MaskOK
    <2>3. QED
      BY <2>1, <2>2
  <1>10. Accounts'
    <2> SUFFICES ASSUME NEW x \in Rank, NEW j \in Masks(size), NEW y, y = Dst(x, j)
                 PROVE  flight[<<x, y>>]
                          = Sends(left'[x], mask'[x], j)
                              - Receives(left'[y], mask'[y], y \in receiving', j)
      BY <1>3 DEF Accounts, Dst
    <2>1. y \in Rank
      BY Numbers
    <2>2. QED
      BY <1>5, <2>1 DEF IInv, Accounts
  <1>11. NoOthers'
    BY <1>1, <1>3 DEF IInv, NoOthers
  <1>12. Heard'
    <2> SUFFICES ASSUME NEW x \in Rank, NEW j \in Masks(size), NEW d \in 0 .. size - 1,
                        d < 2 * j
                 PROVE  Receives(left'[x], mask'[x], x \in receiving', j) <= entered[Src(x, d)]
      BY <1>3 DEF Heard, Src
    <2>1. QED
      BY <1>5 DEF IInv, Heard
  <1>13. QED
    BY <1>7, <1>8, <1>9, <1>10, <1>11, <1>12 DEF IInv

\* The trivial barrier of a single process keeps it.
LEMMA AloneInv ==
  ASSUME IInv, NEW p \in Rank, size = 1, mask[p] = 0, entered[p] < MaxRounds,
         entered' = [entered EXCEPT ![p] = @ + 1], left' = [left EXCEPT ![p] = @ + 1],
         UNCHANGED <<size, width, mask, sending, receiving, flight>>
  PROVE  IInv'
  <1>1. Rank = {p} /\ Rank' = {p} /\ Masks(size) = {} /\ Masks(size)' = {}
    BY MasksDouble DEF Rank
  <1>2. entered[p] \in Nat /\ left[p] \in Nat /\ entered[p] = left[p]
    BY Numbers DEF IInv, MaskOK
  <1>3. entered \in [Rank -> 0 .. MaxRounds] /\ left \in [Rank -> 0 .. MaxRounds]
    BY DEF IInv, TypeOK
  <1>4. entered' \in [Rank -> 0 .. MaxRounds] /\ left' \in [Rank -> 0 .. MaxRounds]
    BY <1>2, <1>3, SizeAssumption
  <1>5. entered'[p] = entered[p] + 1 /\ left'[p] = left[p] + 1
    BY <1>3
  <1>6. TypeOK'
    BY <1>1, <1>4 DEF IInv, TypeOK
  <1>7. MaskOK'
    BY <1>1, <1>2, <1>5 DEF IInv, MaskOK
  <1>8. Accounts' /\ Heard'
    BY <1>1 DEF Accounts, Heard
  <1>9. NoOthers'
    BY <1>1 DEF IInv, NoOthers
  <1>10. NobodyLeavesEarly'
    BY <1>1, <1>2, <1>5 DEF NobodyLeavesEarly
  <1>11. QED
    BY <1>6, <1>7, <1>8, <1>9, <1>10 DEF IInv

\* Every step of every process keeps the inductive invariant.
LEMMA NextIInv == IInv /\ [Next]_vars => IInv'
  <1> SUFFICES ASSUME IInv, [Next]_vars PROVE IInv'
    OBVIOUS
  <1>1. ASSUME NEW p \in Rank, Enter(p) PROVE IInv'
    <2>1. CASE size = 1
      <3>1. /\ mask[p] = 0 /\ entered[p] < MaxRounds
            /\ entered' = [entered EXCEPT ![p] = @ + 1]
            /\ left' = [left EXCEPT ![p] = @ + 1]
            /\ UNCHANGED <<size, width, mask, sending, receiving, flight>>
        BY <1>1, <2>1 DEF Enter
      <3>2. QED
        BY <2>1, <3>1, AloneInv, Zenon
    <2>2. CASE size > 1
      <3>1. 1 \in Masks(size) /\ \A j \in Masks(size) : ~(j < 1)
        BY <2>2, Numbers, MasksDouble
      <3>2. entered \in [Rank -> 0 .. MaxRounds] /\ entered[p] = left[p] /\ mask[p] < 1
            /\ p \notin receiving
        BY <1>1, Numbers DEF IInv, TypeOK, MaskOK, Enter
      <3>3. entered' \in [Rank -> 0 .. MaxRounds]
        BY <1>1, <3>2, SizeAssumption DEF Enter
      <3>4. entered'[p] = left[p] + 1 /\ \A q \in Rank \ {p} : entered'[q] = entered[q]
        BY <1>1, <3>2 DEF Enter
      <3>5. MPIC_Sendrecv(p, 1) /\ UNCHANGED <<size, width, left>>
        BY <1>1, <2>2 DEF Enter
      <3>6. QED
        BY <3>1, <3>2, <3>3, <3>4, <3>5, StartInv
    <2>3. QED
      BY <2>1, <2>2, <1>1 DEF Enter
  <1>2. ASSUME NEW p \in Rank, Match(p) PROVE IInv'
    BY <1>2, MatchInv
  <1>3. ASSUME NEW p \in Rank, Advance(p) PROVE IInv'
    <2>1. /\ mask[p] \in Masks(size) /\ mask[p] \in Nat /\ mask[p] # 0
          /\ entered[p] = left[p] + 1 /\ p \notin receiving /\ size \in Nat
      BY <1>3, Numbers DEF Advance, IInv, MaskOK
    <2>2. CASE Again(p)
      <3>1. mask[p] * 2 \in Masks(size) /\ mask[p] * 2 = 2 * mask[p]
        BY <2>1, <2>2, MasksDouble DEF Again
      <3>2. \A j \in Masks(size) : j < mask[p] * 2 => j <= mask[p]
        BY <2>1, <3>1, MaskGap, Numbers
      <3>3. MPIC_Sendrecv(p, mask[p] * 2) /\ UNCHANGED <<size, width, left, entered>>
        BY <1>3, <2>2 DEF Advance
      <3>4. entered' \in [Rank -> 0 .. MaxRounds]
        BY <3>3 DEF IInv, TypeOK
      <3>5. mask[p] < mask[p] * 2
        BY <2>1
      <3>6. QED
        BY <2>1, <3>1, <3>2, <3>3, <3>4, <3>5, StartInv
    <2>3. CASE ~Again(p)
      <3>1. QED
        BY <1>3, <2>1, <2>3, LeaveInv DEF Advance
    <2>4. QED
      BY <2>2, <2>3
  <1>4. CASE UNCHANGED vars
    <2>1. TypeOK' /\ NobodyLeavesEarly'
      BY <1>4 DEF vars, IInv, TypeOK, NobodyLeavesEarly, Rank
    <2>2. MaskOK'
      <3>1. Rank' = Rank /\ mask' = mask /\ receiving' = receiving
            /\ entered' = entered /\ left' = left /\ size' = size
        BY <1>4 DEF vars, Rank
      <3>2. QED
        BY <3>1 DEF IInv, MaskOK
    <2>3. Accounts' /\ NoOthers'
      BY <1>4 DEF vars, IInv, Accounts, NoOthers, Rank, Dst
    <2>4. Heard'
      BY <1>4 DEF vars, IInv, Heard, Rank, Src
    <2>5. QED
      BY <2>1, <2>2, <2>3, <2>4 DEF IInv
  <1>5. QED
    BY <1>1, <1>2, <1>3, <1>4 DEF Next

\* The inductive invariant holds for every size of the communicator, every layout
\* of the processes and any number of successive barriers.
THEOREM InductiveInvariant == Spec => []IInv
  <1>1. QED
    BY InitIInv, NextIInv, PTL DEF Spec

\* MPIR_Barrier_intra is a barrier: nobody leaves it before everybody has entered
\* it, also when the size of the communicator is no power of two.
THEOREM NobodyEarly == Spec => []NobodyLeavesEarly
  <1>1. IInv => NobodyLeavesEarly
    BY DEF IInv
  <1>2. QED
    BY <1>1, InductiveInvariant, PTL

\* When everybody is out of the same barrier of MPIR_Barrier_intra none of its
\* messages is left over for the next one, which uses the same tag.
THEOREM NothingQueued == Spec => []NoneLeftOver
  <1>1. IInv => NoneLeftOver
    <2> SUFFICES ASSUME IInv, NEW p \in Rank, NEW q \in Rank,
                        \A x \in Rank : left[x] = entered[x] /\ left[x] = left[0]
                 PROVE  flight[<<p, q>>] = 0
      BY DEF NoneLeftOver
    <2>1. \A x \in Rank : left[x] \in Nat /\ mask[x] = 0 /\ x \notin receiving
      BY Numbers DEF IInv, MaskOK
    <2>2. CASE \E k \in Masks(size) : q = Dst(p, k)
      <3>1. PICK k \in Masks(size) : q = Dst(p, k)
        BY <2>2
      <3>2. flight[<<p, q>>] = Sends(left[p], mask[p], k)
                                 - Receives(left[q], mask[q], q \in receiving, k)
        BY <3>1 DEF IInv, Accounts
      <3>3. k \in Nat /\ 0 < k
        BY Numbers
      <3>4. Sends(left[p], mask[p], k) = left[p]
        BY <2>1, <3>3 DEF Sends
      <3>5. Receives(left[q], mask[q], q \in receiving, k) = left[q]
        BY <2>1, <3>3 DEF Receives
      <3>6. QED
        BY <2>1, <3>2, <3>4, <3>5
    <2>3. CASE \A k \in Masks(size) : q # Dst(p, k)
      BY <2>3 DEF IInv, NoOthers
    <2>4. QED
      BY <2>2, <2>3
  <1>2. QED
    BY <1>1, InductiveInvariant, PTL
==============================================================================
