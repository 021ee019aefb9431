-------------------------- MODULE SleepQueueProofs --------------------------
(***************************************************************************)
(* Proofs about SleepQueue: what appending, inserting, removing and        *)
(* checking do to the time every sleeper has left, that the entries always *)
(* add up, who is told of a time-out, which assertions can fail, and that  *)
(* the queue implements Timers.                                            *)
(*                                                                         *)
(* The entries are differences, so the argument goes through the wake      *)
(* times: a queue is well timed if and only if its entries are the         *)
(* differences of a sequence f of wake times in order (ByWakeTime).  For   *)
(* each operation the lemma named ...Times gives the f of the new queue.   *)
(***************************************************************************)
EXTENDS SleepQueue, WellFoundedInduction, TLAPS

\* Every nonempty set of numbers has a least element: the induction principle
\* of this module, in the form the provers can instantiate.
LEMMA Least ==
  ASSUME NEW K \in SUBSET Nat, K # {}
  PROVE  \E i \in K : \A j \in K : i <= j
  <1> DEFINE R == {a \in Nat \X Nat : a[1] < a[2]}
  <1>1. IsWellFoundedOn(R, Nat)
    BY NatLessThanWellFounded, Zenon DEF OpToRel
  <1>2. \A i, j \in Nat : j < i => <<j, i>> \in R
    <2> SUFFICES ASSUME NEW i \in Nat, NEW j \in Nat, j < i PROVE <<j, i>> \in R
      OBVIOUS
    <2>1. <<j, i>> \in Nat \X Nat /\ <<j, i>>[1] = j /\ <<j, i>>[2] = i
      OBVIOUS
    <2>2. QED
      BY <2>1
  <1> HIDE DEF R
  <1>3. PICK i \in K : \A j \in K : ~(<<j, i>> \in R)
    BY <1>1, WFMin, Zenon
  <1>4. ASSUME NEW j \in K PROVE i <= j
    <2>1. ~(j < i)
      BY <1>2, <1>3, Zenon
    <2>2. QED
      BY <2>1
  <1>5. QED
    BY <1>4

\* Induction up to n, on a set: the loops of the sleep queue visit its entries
\* one after the other.
LEMMA UpTo ==
  ASSUME NEW n \in Nat, NEW K, 0 \in K, \A k \in 0 .. n : k < n /\ k \in K => k + 1 \in K
  PROVE  \A k \in 0 .. n : k \in K
  <1> SUFFICES ASSUME NEW m \in 0 .. n, m \notin K PROVE FALSE
    OBVIOUS
  <1> DEFINE B == {k \in 0 .. n : k \notin K}
  <1>1. PICK k \in B : \A j \in B : k <= j
    <2>1. B \in SUBSET Nat /\ B # {}
      OBVIOUS
    <2> HIDE DEF B
    <2>2. QED
      BY <2>1, Least
  <1>2. k # 0 /\ k - 1 \in 0 .. n /\ k - 1 < n /\ (k - 1) + 1 = k
    OBVIOUS
  <1>3. k - 1 \in K
    BY <1>1, <1>2
  <1>4. QED
    BY <1>2, <1>3

\* f holds the sums of the first k entries of q.
Sums(q, w, f) == /\ f \in [0 .. Len(q) -> Int] /\ f[0] = 0
                 /\ \A k \in 1 .. Len(q) : f[k] = f[k - 1] + w[q[k]]

\* The recursive definition of the sums has a solution for every queue.
LEMMA SumsExist ==
  ASSUME NEW q, Len(q) \in Nat, NEW w, \A k \in 1 .. Len(q) : w[q[k]] \in Int
  PROVE  \E f : Sums(q, w, f)
  <1> DEFINE Part(n, f) == /\ f \in [0 .. n -> Int] /\ f[0] = 0
                           /\ \A k \in 1 .. n : f[k] = f[k - 1] + w[q[k]]
             K == {n \in 0 .. Len(q) : \E f : Part(n, f)}
  <1>1. 0 \in K
    <2>1. Part(0, [k \in 0 .. 0 |-> 0])
      OBVIOUS
    <2>2. 0 \in 0 .. Len(q)
      OBVIOUS
    <2> HIDE DEF Part
    <2>3. QED
      BY <2>1, <2>2
  <1>2. ASSUME NEW n \in 0 .. Len(q), n < Len(q), n \in K PROVE n + 1 \in K
    <2>1. PICK f : Part(n, f)
      BY <1>2
    <2> DEFINE g == [k \in 0 .. n + 1 |-> IF k = n + 1 THEN f[n] + w[q[n + 1]] ELSE f[k]]
    <2>2. n + 1 \in 1 .. Len(q) /\ w[q[n + 1]] \in Int /\ f[n] \in Int
      BY <1>2, <2>1
    <2>3. g \in [0 .. n + 1 -> Int] /\ g[0] = 0
      BY <2>1, <2>2
    <2>4. ASSUME NEW k \in 1 .. n + 1 PROVE g[k] = g[k - 1] + w[q[k]]
      <3>1. CASE k = n + 1
        BY <3>1
      <3>2. CASE k # n + 1
        <4>1. k \in 1 .. n /\ k - 1 \in 0 .. n /\ k - 1 # n + 1
          BY <3>2
        <4>2. QED
          BY <2>1, <4>1
      <3>3. QED
        BY <3>1, <3>2
    <2>5. Part(n + 1, g)
      BY <2>3, <2>4, Zenon
    <2>6. n + 1 \in 0 .. Len(q)
      BY <2>2
    <2> HIDE DEF Part, g
    <2>7. QED
      BY <2>5, <2>6
  <1>3. \A n \in 0 .. Len(q) : n \in K
    <2> HIDE DEF K
    <2>1. QED
      BY <1>1, <1>2, UpTo, Zenon
  <1>4. PICK f : Part(Len(q), f)
    <2>1. Len(q) \in 0 .. Len(q)
      OBVIOUS
    <2> HIDE DEF Part
    <2>2. QED
      BY <1>3, <2>1
  <1>5. QED
    BY <1>4 DEF Sums

\* TotalTo, which adds up the entries from the head as fgmpi_sleepq_check and
\* print_sleep_queue do, obeys its recursion.
LEMMA Totals ==
  ASSUME NEW q, Len(q) \in Nat, NEW w, \A k \in 1 .. Len(q) : w[q[k]] \in Int
  PROVE  /\ TotalTo(q, w, 0) = 0
         /\ \A k \in 0 .. Len(q) : TotalTo(q, w, k) \in Int
         /\ \A k \in 1 .. Len(q) : TotalTo(q, w, k) = TotalTo(q, w, k - 1) + w[q[k]]
  <1> DEFINE Is(f) == f = [k \in 0 .. Len(q) |-> IF k = 0 THEN 0 ELSE f[k - 1] + w[q[k]]]
             total == CHOOSE f : Is(f)
             K == {k \in 0 .. Len(q) : total[k] \in Int}
  <1>1. PICK f : Sums(q, w, f)
    BY SumsExist
  <1>2. Is(f)
    BY <1>1 DEF Sums
  <1>3. Is(total)
    <2> HIDE DEF Is
    <2>1. QED
      BY <1>2
  <1>4. \A i : TotalTo(q, w, i) = total[i]
    BY DEF TotalTo
  <1> HIDE DEF total
  <1>5. total[0] = 0
    BY <1>3
  <1>6. \A k \in 1 .. Len(q) : total[k] = total[k - 1] + w[q[k]]
    BY <1>3
  <1>7. \A k \in 0 .. Len(q) : k \in K
    <2>1. 0 \in K
      BY <1>5
    <2>2. ASSUME NEW k \in 0 .. Len(q), k < Len(q), k \in K PROVE k + 1 \in K
      <3>1. k + 1 \in 1 .. Len(q) /\ (k + 1) - 1 = k
        BY <2>2
      <3>2. total[k + 1] = total[k] + w[q[k + 1]] /\ w[q[k + 1]] \in Int /\ total[k] \in Int
        BY <1>6, <2>2, <3>1
      <3>3. QED
        BY <3>1, <3>2
    <2> HIDE DEF K
    <2>3. QED
      BY <2>1, <2>2, UpTo, Zenon
  <1>8. QED
    BY <1>4, <1>5, <1>6, <1>7, Zenon

\* The entries of q are the differences of f.
AddUp(q, w, f) == /\ Len(q) \in Nat /\ f[0] = 0
                  /\ \A k \in 1 .. Len(q) : w[q[k]] \in Int /\ f[k] = f[k - 1] + w[q[k]]

\* Whatever the entries are the differences of is what they add up to.
LEMMA TotalsAre ==
  ASSUME NEW q, NEW w, NEW f, AddUp(q, w, f)
  PROVE  \A k \in 0 .. Len(q) : TotalTo(q, w, k) = f[k]
  <1> DEFINE K == {k \in 0 .. Len(q) : TotalTo(q, w, k) = f[k]}
  <1>a. /\ Len(q) \in Nat /\ f[0] = 0 /\ \A k \in 1 .. Len(q) : w[q[k]] \in Int
        /\ \A k \in 1 .. Len(q) : f[k] = f[k - 1] + w[q[k]]
    BY DEF AddUp
  <1>b. /\ TotalTo(q, w, 0) = 0
        /\ \A k \in 1 .. Len(q) : TotalTo(q, w, k) = TotalTo(q, w, k - 1) + w[q[k]]
    BY ONLY <1>a, Totals
  <1>1. 0 \in K
    BY <1>a, <1>b
  <1>2. ASSUME NEW k \in 0 .. Len(q), k < Len(q), k \in K PROVE k + 1 \in K
    <2>1. k + 1 \in 1 .. Len(q) /\ (k + 1) - 1 = k
      BY <1>a, <1>2
    <2>2. TotalTo(q, w, k + 1) = TotalTo(q, w, k) + w[q[k + 1]] /\ f[k + 1] = f[k] + w[q[k + 1]]
      <3>1. /\ TotalTo(q, w, k + 1) = TotalTo(q, w, (k + 1) - 1) + w[q[k + 1]]
            /\ f[k + 1] = f[(k + 1) - 1] + w[q[k + 1]]
        BY ONLY <1>a, <1>b, <2>1
      <3>2. QED
        BY ONLY <2>1, <3>1
    <2>3. QED
      BY <1>a, <1>2, <2>1, <2>2
  <1> HIDE DEF K
  <1>3. \A k \in 0 .. Len(q) : k \in K
    BY <1>a, <1>1, <1>2, UpTo, Zenon
  <1>4. QED
    BY <1>3 DEF K

\* The sums of entries that are not negative do not decrease along the queue.
LEMMA TotalsGrow ==
  ASSUME NEW q, Len(q) \in Nat, NEW w, \A k \in 1 .. Len(q) : w[q[k]] \in Nat,
         NEW i \in 0 .. Len(q), NEW j \in i .. Len(q)
  PROVE  TotalTo(q, w, i) <= TotalTo(q, w, j) /\ TotalTo(q, w, i) \in Nat
  <1> DEFINE K == {k \in 0 .. Len(q) : \A m \in 0 .. k :
                     TotalTo(q, w, m) \in Nat /\ TotalTo(q, w, m) <= TotalTo(q, w, k)}
  <1>0. /\ TotalTo(q, w, 0) = 0
        /\ \A k \in 0 .. Len(q) : TotalTo(q, w, k) \in Int
        /\ \A k \in 1 .. Len(q) : TotalTo(q, w, k) = TotalTo(q, w, k - 1) + w[q[k]]
    <2>1. Len(q) \in Nat /\ \A k \in 1 .. Len(q) : w[q[k]] \in Int
      OBVIOUS
    <2>2. QED
      BY ONLY <2>1, Totals
  <1>1. 0 \in K
    BY <1>0
  <1>2. ASSUME NEW k \in 0 .. Len(q), k < Len(q), k \in K PROVE k + 1 \in K
    <2>1. k + 1 \in 1 .. Len(q) /\ (k + 1) - 1 = k
      BY <1>2
    <2>2. TotalTo(q, w, k + 1) = TotalTo(q, w, k) + w[q[k + 1]] /\ w[q[k + 1]] \in Nat
      BY <1>0, <2>1
    <2>3. TotalTo(q, w, k) \in Nat
      BY <1>2
    <2>4. ASSUME NEW m \in 0 .. k + 1
          PROVE  TotalTo(q, w, m) \in Nat /\ TotalTo(q, w, m) <= TotalTo(q, w, k + 1)
      <3>1. CASE m = k + 1
        BY <2>2, <2>3, <3>1
      <3>2. CASE m \in 0 .. k
        <4>1. TotalTo(q, w, m) \in Nat /\ TotalTo(q, w, m) <= TotalTo(q, w, k)
          BY <1>2, <3>2
        <4>2. QED
          BY <2>2, <2>3, <4>1
      <3>3. QED
        BY <3>1, <3>2
    <2>5. QED
      BY <2>1, <2>4
  <1>3. \A k \in 0 .. Len(q) : k \in K
    <2> HIDE DEF K
    <2>1. Len(q) \in Nat /\ \A k \in 0 .. Len(q) : k < Len(q) /\ k \in K => k + 1 \in K
      BY <1>2
    <2>2. QED
      BY ONLY <1>1, <2>1, UpTo, Zenon
  <1>4. j \in 0 .. Len(q) /\ i \in 0 .. j
    OBVIOUS
  <1>5. QED
    BY <1>3, <1>4
-----------------------------------------------------------------------------
\* No thread is in the queue twice, t->sleep is set for exactly the threads in
\* the queue, and no entry is negative.
WellTimed(q, w) ==
    /\ q \in Seq(Thread) /\ w \in [Thread -> Int] /\ IsInjective(q)
    /\ \A t \in Thread : w[t] >= NotQueued /\ (w[t] # NotQueued <=> t \in Range(q))

\* How long t still sleeps: its own entry and all those before it.
TimeLeft(q, w, t) ==
    IF t \in Range(q) THEN TotalTo(q, w, CHOOSE i \in DOMAIN q : q[i] = t) ELSE NotQueued

\* The facts about the entries of a well-timed queue, by position.
LEMMA Entries ==
  ASSUME NEW q, NEW w, WellTimed(q, w)
  PROVE  /\ Len(q) \in Nat /\ DOMAIN q = 1 .. Len(q)
         /\ \A k \in 1 .. Len(q) : /\ q[k] \in Thread /\ q[k] \in Range(q) /\ w[q[k]] \in Nat
                                   /\ TimeLeft(q, w, q[k]) = TotalTo(q, w, k)
         /\ \A k, j \in 1 .. Len(q) : q[k] = q[j] => k = j
         /\ \A t \in Range(q) : \E k \in 1 .. Len(q) : q[k] = t
         /\ \A t : t \notin Range(q) => TimeLeft(q, w, t) = NotQueued
  <1>1. /\ Len(q) \in Nat /\ DOMAIN q = 1 .. Len(q)
        /\ \A k \in 1 .. Len(q) : q[k] \in Thread
    BY DEF WellTimed
  <1>2. /\ \A t \in Range(q) : \E k \in 1 .. Len(q) : q[k] = t
        /\ \A k \in 1 .. Len(q) : q[k] \in Range(q)
    BY <1>1 DEF Range
  <1>3. \A k, j \in 1 .. Len(q) : q[k] = q[j] => k = j
    BY <1>1 DEF WellTimed, IsInjective
  <1>4. ASSUME NEW k \in 1 .. Len(q) PROVE w[q[k]] \in Nat
    BY <1>1, <1>2 DEF WellTimed, NotQueued
  <1>5. ASSUME NEW k \in 1 .. Len(q) PROVE TimeLeft(q, w, q[k]) = TotalTo(q, w, k)
    <2>1. (CHOOSE i \in DOMAIN q : q[i] = q[k]) = k
      BY <1>1, <1>3
    <2>2. QED
      BY <1>2, <2>1, Zenon DEF TimeLeft
  <1>6. QED
    BY <1>1, <1>2, <1>3, <1>4, <1>5 DEF TimeLeft

\* A queue whose k-th thread wakes at f[k], in the order of their waking.
WakesAt(q, w, f) ==
    /\ q \in Seq(Thread) /\ IsInjective(q) /\ w \in [Thread -> Int]
    /\ \A t \in Thread \ Range(q) : w[t] = NotQueued
    /\ f[0] = 0 /\ \A k \in 0 .. Len(q) : f[k] \in Int
    /\ \A k \in 1 .. Len(q) : f[k - 1] <= f[k] /\ w[q[k]] = f[k] - f[k - 1]

\* Such a queue is well timed and the wake times can be read off it: the way
\* each change of the queue is shown right.
LEMMA ByWakeTime ==
  ASSUME NEW q, NEW w, NEW f, WakesAt(q, w, f)
  PROVE  /\ WellTimed(q, w)
         /\ \A k \in 0 .. Len(q) : TotalTo(q, w, k) = f[k]
         /\ \A k \in 1 .. Len(q) : TimeLeft(q, w, q[k]) = f[k]
  <1> USE DEF WakesAt
  <1>1. Len(q) \in Nat /\ DOMAIN q = 1 .. Len(q)
    OBVIOUS
  <1>2. \A k \in 1 .. Len(q) : k - 1 \in 0 .. Len(q) /\ k \in 0 .. Len(q)
    BY <1>1
  <1>3. ASSUME NEW k \in 1 .. Len(q) PROVE w[q[k]] \in Nat /\ f[k] = f[k - 1] + w[q[k]]
    <2>1. f[k] \in Int /\ f[k - 1] \in Int /\ f[k - 1] <= f[k] /\ w[q[k]] = f[k] - f[k - 1]
      BY <1>2
    <2>2. QED
      BY ONLY <2>1
  <1>4. AddUp(q, w, f)
    BY <1>1, <1>3 DEF AddUp
  <1>5. \A t \in Range(q) : w[t] \in Nat
    BY <1>1, <1>3 DEF Range
  <1>6. WellTimed(q, w)
    BY <1>5 DEF WellTimed, NotQueued
  <1> HIDE DEF WakesAt
  <1>7. QED
    BY <1>2, <1>4, <1>6, TotalsAre, Entries

\* Along a well-timed queue the wake times are natural numbers in order.
LEMMA TimesGrow ==
  ASSUME NEW q, NEW w, WellTimed(q, w)
  PROVE  /\ TotalTo(q, w, 0) = 0
         /\ \A k \in 0 .. Len(q) : TotalTo(q, w, k) \in Nat
         /\ \A k \in 1 .. Len(q) : TotalTo(q, w, k) = TotalTo(q, w, k - 1) + w[q[k]]
         /\ \A i, j \in 0 .. Len(q) : i <= j => TotalTo(q, w, i) <= TotalTo(q, w, j)
  <1>1. Len(q) \in Nat /\ \A k \in 1 .. Len(q) : w[q[k]] \in Nat
    BY Entries
  <1>2. \A k \in 1 .. Len(q) : w[q[k]] \in Int
    BY <1>1
  <1>3. /\ TotalTo(q, w, 0) = 0
        /\ \A k \in 1 .. Len(q) : TotalTo(q, w, k) = TotalTo(q, w, k - 1) + w[q[k]]
    BY ONLY <1>1, <1>2, Totals
  <1>4. ASSUME NEW i \in 0 .. Len(q), NEW j \in 0 .. Len(q), i <= j
        PROVE  TotalTo(q, w, i) <= TotalTo(q, w, j) /\ TotalTo(q, w, i) \in Nat
    <2>1. j \in i .. Len(q)
      BY <1>1, <1>4
    <2>2. QED
      BY ONLY <1>1, <2>1, i \in 0 .. Len(q), TotalsGrow
  <1>5. \A k \in 0 .. Len(q) : k <= k
    BY <1>1
  <1>6. QED
    BY <1>3, <1>4, <1>5

\* The entry that fgmpi_sleepq_add_thread writes behind the last one.
AppendingTo(r, v, q, w, t, d) ==
    /\ r = Append(q, t) /\ v = [w EXCEPT ![t] = d - TotalTo(q, w, Len(q))]
    /\ TotalTo(q, w, Len(q)) <= d

\* Appending: t sleeps d, the new maximum, and nobody else's time changes.
LEMMA AppendTimes ==
  ASSUME NEW q, NEW w, WellTimed(q, w), NEW t \in Thread, t \notin Range(q), NEW d \in Nat,
         NEW v, NEW r, AppendingTo(r, v, q, w, t, d)
  PROVE  /\ WellTimed(r, v) /\ TotalTo(r, v, Len(r)) = d
         /\ Range(r) = Range(q) \cup {t} /\ TimeLeft(r, v, t) = d
         /\ \A u \in Thread \ {t} : TimeLeft(r, v, u) = TimeLeft(q, w, u)
  <1> SUFFICES ASSUME r = Append(q, t), v = [w EXCEPT ![t] = d - TotalTo(q, w, Len(q))],
                      TotalTo(q, w, Len(q)) <= d
               PROVE  /\ WellTimed(r, v) /\ TotalTo(r, v, Len(r)) = d
                      /\ Range(r) = Range(q) \cup {t} /\ TimeLeft(r, v, t) = d
                      /\ \A u \in Thread \ {t} : TimeLeft(r, v, u) = TimeLeft(q, w, u)
    BY Zenon DEF AppendingTo
  <1> DEFINE n == Len(q)
             P(k) == TotalTo(q, w, k)
             f == [k \in 0 .. n + 1 |-> IF k = n + 1 THEN d ELSE P(k)]
  <1>1. /\ n \in Nat /\ DOMAIN q = 1 .. n
        /\ \A k \in 1 .. n : q[k] \in Thread /\ q[k] \in Range(q) /\ w[q[k]] \in Nat
        /\ \A k, j \in 1 .. n : q[k] = q[j] => k = j
        /\ \A k \in 1 .. n : TimeLeft(q, w, q[k]) = P(k)
    BY Entries
  <1>2. /\ P(0) = 0 /\ \A k \in 0 .. n : P(k) \in Nat
        /\ \A k \in 1 .. n : P(k) = P(k - 1) + w[q[k]]
    BY TimesGrow
  <1>3. /\ r \in Seq(Thread) /\ Len(r) = n + 1 /\ DOMAIN r = 1 .. n + 1 /\ r[n + 1] = t
        /\ \A k \in 1 .. n : r[k] = q[k]
    <2>1. q \in Seq(Thread)
      BY DEF WellTimed
    <2>2. QED
      BY ONLY <2>1, r = Append(q, t), t \in Thread
  <1>4. v \in [Thread -> Int] /\ v[t] = d - P(n) /\ \A u \in Thread \ {t} : v[u] = w[u]
    <2>1. w \in [Thread -> Int]
      BY DEF WellTimed
    <2>2. P(n) \in Nat
      <3>1. n \in 0 .. n
        BY <1>1
      <3>2. QED
        BY ONLY <1>2, <3>1
    <2>3. v = [w EXCEPT ![t] = d - P(n)]
      OBVIOUS
    <2> HIDE DEF P
    <2>4. QED
      BY ONLY <2>1, <2>2, <2>3, d \in Nat, t \in Thread
  <1> HIDE DEF P
  <1>5. Range(r) = Range(q) \cup {t}
    BY <1>1, <1>3 DEF Range
  <1>6. IsInjective(r)
    BY <1>1, <1>3 DEF IsInjective
  <1>7. \A u \in Thread \ Range(r) : v[u] = NotQueued
    BY <1>4, <1>5 DEF WellTimed
  <1>8. f[0] = 0 /\ f[n + 1] = d /\ \A k \in 0 .. n : f[k] = P(k)
    BY <1>1, <1>2
  <1> HIDE DEF f
  <1>9. \A k \in 0 .. Len(r) : f[k] \in Int
    BY <1>1, <1>2, <1>3, <1>8
  <1>10. ASSUME NEW k \in 1 .. Len(r) PROVE f[k - 1] <= f[k] /\ v[r[k]] = f[k] - f[k - 1]
    <2>1. CASE k = n + 1
      BY <1>1, <1>3, <1>4, <1>8, <2>1 DEF P
    <2>2. CASE k \in 1 .. n
      <3>1. k - 1 \in 0 .. n /\ k \in 0 .. n
        BY <1>1, <2>2
      <3>2. f[k] = P(k) /\ f[k - 1] = P(k - 1) /\ P(k) = P(k - 1) + w[q[k]]
        BY <1>2, <1>8, <2>2, <3>1
      <3>3. r[k] = q[k] /\ v[q[k]] = w[q[k]] /\ w[q[k]] \in Nat
        BY <1>1, <1>3, <1>4, <2>2
      <3>4. P(k - 1) \in Int
        BY <1>2, <3>1
      <3>5. QED
        BY <3>2, <3>3, <3>4
    <2>3. QED
      BY <1>1, <1>3, <2>1, <2>2
  <1>11. WakesAt(r, v, f)
    BY ONLY <1>3, <1>4, <1>6, <1>7, <1>8, <1>9, <1>10 DEF WakesAt
  <1>12. /\ WellTimed(r, v) /\ \A k \in 0 .. Len(r) : TotalTo(r, v, k) = f[k]
         /\ \A k \in 1 .. Len(r) : TimeLeft(r, v, r[k]) = f[k]
    BY ONLY <1>11, ByWakeTime
  <1>13. TotalTo(r, v, Len(r)) = d /\ TimeLeft(r, v, t) = d
    <2>1. n + 1 \in 0 .. Len(r) /\ n + 1 \in 1 .. Len(r)
      BY <1>1, <1>3
    <2>2. QED
      BY ONLY <1>3, <1>8, <1>12, <2>1
  <1>14. ASSUME NEW u \in Thread \ {t} PROVE TimeLeft(r, v, u) = TimeLeft(q, w, u)
    <2>1. CASE u \in Range(q)
      <3>1. PICK k \in 1 .. n : q[k] = u
        BY <1>1, <2>1 DEF Range
      <3>2. k \in 1 .. n + 1 /\ k \in 0 .. n
        BY <1>1
      <3>3. r[k] = u /\ f[k] = P(k) /\ TimeLeft(q, w, q[k]) = P(k)
        BY ONLY <1>1, <1>3, <1>8, <3>1, <3>2, k \in 1 .. n
      <3>4. TimeLeft(r, v, r[k]) = f[k]
        BY ONLY <1>3, <1>12, <3>2
      <3>5. QED
        BY ONLY <3>1, <3>3, <3>4
    <2>2. CASE u \notin Range(q)
      BY <1>5, <2>2 DEF TimeLeft
    <2>3. QED
      BY <2>1, <2>2
  <1>15. QED
    BY <1>5, <1>12, <1>13, <1>14, Zenon

\* The elements of a concatenation.
LEMMA Concatenated ==
  ASSUME NEW S, NEW a \in Seq(S), NEW b \in Seq(S)
  PROVE  /\ a \o b \in Seq(S) /\ Len(a \o b) = Len(a) + Len(b)
         /\ \A k \in 1 .. Len(a) : (a \o b)[k] = a[k]
         /\ \A k \in 1 .. Len(b) : (a \o b)[Len(a) + k] = b[k]
  <1>1. Len(a) \in Nat /\ Len(b) \in Nat
    OBVIOUS
  <1>2. /\ a \o b \in Seq(S) /\ Len(a \o b) = Len(a) + Len(b)
        /\ \A k \in 1 .. Len(a) : (a \o b)[k] = a[k]
    OBVIOUS
  <1>3. ASSUME NEW k \in 1 .. Len(b) PROVE (a \o b)[Len(a) + k] = b[k]
    <2>1. /\ Len(a) + k \in 1 .. Len(a) + Len(b) /\ ~(Len(a) + k <= Len(a))
          /\ Len(a) + k - Len(a) = k
      BY <1>1
    <2>2. QED
      BY <2>1
  <1>4. QED
    BY <1>2, <1>3

\* r is q with t inserted at i (ll_insert_before).
InsertedAs(r, q, i, t) ==
    /\ r \in Seq(Thread) /\ Len(r) = Len(q) + 1 /\ r[i] = t
    /\ \A k \in 1 .. Len(q) : k < i => r[k] = q[k]
    /\ \A k \in 1 .. Len(q) : k >= i => r[k + 1] = q[k]

\* r is q without its i-th entry (ll_remove_entry).
RemovedAs(r, q, i) ==
    /\ r \in Seq(Thread) /\ Len(r) = Len(q) - 1
    /\ \A k \in 1 .. Len(q) : k < i => r[k] = q[k]
    /\ \A k \in 1 .. Len(q) : k > i => r[k - 1] = q[k]

\* What ll_insert_before does to the positions.
LEMMA InsertedEntries ==
  ASSUME NEW q \in Seq(Thread), NEW t \in Thread, NEW i \in 1 .. Len(q)
  PROVE  InsertedAs(ll_insert_before(q, i, t), q, i, t)
  <1> DEFINE r == ll_insert_before(q, i, t)
  <1> DEFINE n == Len(q)
             a == SubSeq(q, 1, i - 1)
             b == SubSeq(q, i, n)
  <1>1. n \in Nat /\ i \in Nat /\ i >= 1 /\ i <= n
    OBVIOUS
  <1>2. a \in Seq(Thread) /\ Len(a) = i - 1 /\ \A k \in 1 .. i - 1 : a[k] = q[k]
    BY <1>1
  <1>3. b \in Seq(Thread) /\ Len(b) = n - i + 1 /\ \A k \in 1 .. n - i + 1 : b[k] = q[k + i - 1]
    BY <1>1
  <1>4. r = (a \o <<t>>) \o b
    BY DEF ll_insert_before
  <1> HIDE DEF a, b, r
  <1> DEFINE c == a \o <<t>>
  <1>5. c \in Seq(Thread) /\ Len(c) = i /\ c[i] = t /\ \A k \in 1 .. i - 1 : c[k] = q[k]
    BY <1>1, <1>2
  <1> HIDE DEF c
  <1>6. /\ r \in Seq(Thread) /\ Len(r) = n + 1
        /\ \A k \in 1 .. i : r[k] = c[k]
        /\ \A k \in 1 .. n - i + 1 : r[i + k] = b[k]
    <2>1. r = c \o b
      BY <1>4 DEF c
    <2>2. c \in Seq(Thread) /\ b \in Seq(Thread)
      BY <1>3, <1>5
    <2>3. /\ c \o b \in Seq(Thread) /\ Len(c \o b) = Len(c) + Len(b)
          /\ \A k \in 1 .. Len(c) : (c \o b)[k] = c[k]
          /\ \A k \in 1 .. Len(b) : (c \o b)[Len(c) + k] = b[k]
      BY ONLY <2>2, Concatenated
    <2>4. QED
      BY ONLY <1>1, <1>3, <1>5, <2>1, <2>3
  <1>7. ASSUME NEW k \in 1 .. n, k >= i PROVE r[k + 1] = q[k]
    <2>1. /\ k - i + 1 \in 1 .. n - i + 1
          /\ i + (k - i + 1) = k + 1 /\ (k - i + 1) + i - 1 = k
      BY <1>1, <1>7
    <2>2. r[k + 1] = b[k - i + 1]
      BY <1>6, <2>1
    <2>3. QED
      BY <1>3, <2>1, <2>2
  <1>8. ASSUME NEW k \in 1 .. n, k < i PROVE r[k] = q[k]
    BY <1>1, <1>5, <1>6, <1>8
  <1>9. r[i] = t
    BY <1>1, <1>5, <1>6
  <1>10. QED
    BY <1>6, <1>7, <1>8, <1>9 DEF r, InsertedAs

\* What ll_remove_entry does to the positions.
LEMMA RemovedEntries ==
  ASSUME NEW q \in Seq(Thread), NEW i \in 1 .. Len(q)
  PROVE  RemovedAs(ll_remove_entry(q, i), q, i)
  <1> DEFINE r == ll_remove_entry(q, i)
  <1> DEFINE n == Len(q)
             a == SubSeq(q, 1, i - 1)
             b == SubSeq(q, i + 1, n)
  <1>1. n \in Nat /\ i \in Nat /\ i >= 1 /\ i <= n
    OBVIOUS
  <1>2. a \in Seq(Thread) /\ Len(a) = i - 1 /\ \A k \in 1 .. i - 1 : a[k] = q[k]
    BY <1>1
  <1>3. b \in Seq(Thread) /\ Len(b) = n - i /\ \A k \in 1 .. n - i : b[k] = q[k + i]
    BY <1>1
  <1>4. r = a \o b
    BY DEF ll_remove_entry
  <1> HIDE DEF a, b, r
  <1>5. /\ r \in Seq(Thread) /\ Len(r) = n - 1
        /\ \A k \in 1 .. i - 1 : r[k] = a[k]
        /\ \A k \in 1 .. n - i : r[i - 1 + k] = b[k]
    <2>1. a \in Seq(Thread) /\ b \in Seq(Thread)
      BY <1>2, <1>3
    <2>2. /\ a \o b \in Seq(Thread) /\ Len(a \o b) = Len(a) + Len(b)
          /\ \A k \in 1 .. Len(a) : (a \o b)[k] = a[k]
          /\ \A k \in 1 .. Len(b) : (a \o b)[Len(a) + k] = b[k]
      BY ONLY <2>1, Concatenated
    <2>3. Len(a) = i - 1 /\ Len(b) = n - i /\ (i - 1) + (n - i) = n - 1
      <3> HIDE DEF n
      <3>1. QED
        BY ONLY <1>1, <1>2, <1>3
    <2>4. QED
      BY ONLY <1>4, <2>2, <2>3
  <1>6. ASSUME NEW k \in 1 .. n, k > i PROVE r[k - 1] = q[k]
    <2>1. k - i \in 1 .. n - i /\ i - 1 + (k - i) = k - 1 /\ (k - i) + i = k
      BY <1>1, <1>6
    <2>2. r[k - 1] = b[k - i]
      BY <1>5, <2>1
    <2>3. QED
      BY <1>3, <2>1, <2>2
  <1>7. ASSUME NEW k \in 1 .. n, k < i PROVE r[k] = q[k]
    BY <1>1, <1>2, <1>5, <1>7
  <1>8. QED
    BY <1>5, <1>6, <1>7 DEF r, RemovedAs

\* The two entries that fgmpi_sleepq_add_thread writes when it inserts t
\* before the i-th entry: that of t, and what remains of its successor's.
InsertingAt(v, q, w, i, t, d) ==
    /\ i \in 1 .. Len(q) /\ TotalTo(q, w, i - 1) <= d /\ d < TotalTo(q, w, i)
    /\ v \in [Thread -> Int] /\ v[t] = d - TotalTo(q, w, i - 1)
    /\ v[q[i]] = w[q[i]] - (d - TotalTo(q, w, i - 1))
    /\ \A u \in Thread \ {t, q[i]} : v[u] = w[u]

\* Inserting: t sleeps d, nobody else's time changes, neither does the maximum,
\* and the successor's entry stays positive.
LEMMA InsertTimes ==
  ASSUME NEW q, NEW w, WellTimed(q, w), NEW t \in Thread, t \notin Range(q), NEW d \in Nat,
         NEW i, NEW v, InsertingAt(v, q, w, i, t, d), NEW r, r = ll_insert_before(q, i, t)
  PROVE  /\ WellTimed(r, v) /\ TotalTo(r, v, Len(r)) = TotalTo(q, w, Len(q))
         /\ Range(r) = Range(q) \cup {t} /\ TimeLeft(r, v, t) = d
         /\ \A u \in Thread \ {t} : TimeLeft(r, v, u) = TimeLeft(q, w, u)
         /\ v[q[i]] > 0
  <1> SUFFICES ASSUME i \in 1 .. Len(q), TotalTo(q, w, i - 1) <= d, d < TotalTo(q, w, i),
                      v \in [Thread -> Int], v[t] = d - TotalTo(q, w, i - 1),
                      v[q[i]] = w[q[i]] - (d - TotalTo(q, w, i - 1)),
                      \A u \in Thread \ {t, q[i]} : v[u] = w[u]
               PROVE  /\ WellTimed(r, v) /\ TotalTo(r, v, Len(r)) = TotalTo(q, w, Len(q))
                      /\ Range(r) = Range(q) \cup {t} /\ TimeLeft(r, v, t) = d
                      /\ \A u \in Thread \ {t} : TimeLeft(r, v, u) = TimeLeft(q, w, u)
                      /\ v[q[i]] > 0
    BY Zenon DEF InsertingAt
  <1> DEFINE n == Len(q)
             P(k) == TotalTo(q, w, k)
             f == [k \in 0 .. n + 1 |-> IF k < i THEN P(k) ELSE IF k = i THEN d ELSE P(k - 1)]
  <1>1. /\ n \in Nat /\ DOMAIN q = 1 .. n /\ i \in Nat /\ i >= 1 /\ i <= n
        /\ \A k \in 1 .. n : q[k] \in Thread /\ q[k] \in Range(q) /\ w[q[k]] \in Nat
        /\ \A k, j \in 1 .. n : q[k] = q[j] => k = j
        /\ \A k \in 1 .. n : TimeLeft(q, w, q[k]) = P(k)
        /\ \A u \in Range(q) : \E k \in 1 .. n : q[k] = u
    BY Entries
  <1>0. n \in Nat /\ i \in Nat /\ i >= 1 /\ i <= n /\ i \in 1 .. n
    BY <1>1
  <1>2. /\ P(0) = 0 /\ \A k \in 0 .. n : P(k) \in Nat
        /\ \A k \in 1 .. n : P(k) = P(k - 1) + w[q[k]]
    BY TimesGrow
  <1>3. /\ r \in Seq(Thread) /\ Len(r) = n + 1 /\ r[i] = t
        /\ \A k \in 1 .. n : k < i => r[k] = q[k]
        /\ \A k \in 1 .. n : k >= i => r[k + 1] = q[k]
    <2>1. q \in Seq(Thread)
      BY DEF WellTimed
    <2>2. InsertedAs(r, q, i, t)
      BY <2>1, InsertedEntries
    <2>3. QED
      BY ONLY <2>2 DEF InsertedAs
  <1>4. P(i - 1) <= d /\ d < P(i) /\ v[t] = d - P(i - 1) /\ v[q[i]] = w[q[i]] - (d - P(i - 1))
    OBVIOUS
  <1>5. DOMAIN r = 1 .. n + 1
    BY <1>3
  <1> HIDE DEF P
  <1>6. ASSUME NEW k \in 1 .. n + 1, k # i
        PROVE  \E m \in 1 .. n : r[k] = q[m] /\ IF m < i THEN k = m ELSE k = m + 1
    <2>1. CASE k < i
      <3>1. k \in 1 .. n
        BY ONLY <1>0, <2>1, k \in 1 .. n + 1
      <3>2. r[k] = q[k]
        BY ONLY <1>3, <2>1, <3>1
      <3>3. QED
        BY ONLY <2>1, <3>1, <3>2
    <2>2. CASE k > i
      <3>1. k - 1 \in 1 .. n /\ k - 1 >= i /\ (k - 1) + 1 = k /\ ~(k - 1 < i)
        BY ONLY <1>0, <2>2, k \in 1 .. n + 1
      <3>2. r[(k - 1) + 1] = q[k - 1]
        BY ONLY <1>3, <3>1
      <3>3. QED
        BY ONLY <3>1, <3>2
    <2>3. k < i \/ k > i
      BY ONLY <1>0, <1>6, k \in 1 .. n + 1
    <2>4. QED
      BY ONLY <2>1, <2>2, <2>3
  <1>7. Range(r) = Range(q) \cup {t}
    <2>1. ASSUME NEW k \in 1 .. n + 1 PROVE r[k] \in Range(q) \cup {t}
      BY <1>1, <1>3, <1>6
    <2>2. ASSUME NEW k \in 1 .. n PROVE q[k] \in Range(r)
      <3>1. k \in 1 .. n + 1 /\ k + 1 \in 1 .. n + 1 /\ (k < i \/ k >= i)
        BY <1>1
      <3>2. QED
        BY <1>3, <1>5, <3>1, Zenon DEF Range
    <2>3. t \in Range(r)
      <3>1. i \in 1 .. n + 1
        BY <1>1
      <3>2. QED
        BY <1>3, <1>5, <3>1 DEF Range
    <2>4. QED
      BY <1>1, <1>5, <2>1, <2>2, <2>3 DEF Range
  <1>8. IsInjective(r)
    <2> SUFFICES ASSUME NEW j \in 1 .. n + 1, NEW k \in 1 .. n + 1, r[j] = r[k] PROVE j = k
      BY <1>5 DEF IsInjective
    <2>0. ASSUME NEW m \in 1 .. n + 1, m # i PROVE r[m] # t
      <3>1. PICK a \in 1 .. n : r[m] = q[a]
        BY <1>6, <2>0
      <3>2. q[a] \in Range(q)
        BY ONLY <1>1, a \in 1 .. n
      <3>3. QED
        BY <3>1, <3>2
    <2>1. CASE j = i \/ k = i
      BY <1>3, <2>0, <2>1
    <2>2. CASE j # i /\ k # i
      <3>1. PICK a \in 1 .. n : r[j] = q[a] /\ IF a < i THEN j = a ELSE j = a + 1
        BY <1>6, <2>2
      <3>2. PICK b \in 1 .. n : r[k] = q[b] /\ IF b < i THEN k = b ELSE k = b + 1
        BY <1>6, <2>2
      <3>3. a = b
        <4>1. q[a] = q[b]
          BY <3>1, <3>2, Zenon
        <4>2. QED
          BY ONLY <1>1, <4>1, a \in 1 .. n, b \in 1 .. n
      <3>4. QED
        BY <3>1, <3>2, <3>3
    <2>3. QED
      BY <2>1, <2>2
  <1>9. \A u \in Thread \ Range(r) : v[u] = NotQueued
    BY <1>1, <1>7 DEF WellTimed
  <1>10. /\ f[0] = 0 /\ f[i] = d
         /\ \A k \in 0 .. n : k < i => f[k] = P(k)
         /\ \A k \in 0 .. n : k >= i => f[k + 1] = P(k)
    BY <1>1, <1>2
  <1> HIDE DEF f
  <1>11. \A k \in 0 .. Len(r) : f[k] \in Int
    <2> SUFFICES ASSUME NEW k \in 0 .. n + 1 PROVE f[k] \in Int
      BY <1>3
    <2>1. CASE k < i
      <3>1. k \in 0 .. n
        BY ONLY <1>0, <2>1, k \in 0 .. n + 1
      <3>2. f[k] = P(k) /\ P(k) \in Nat
        BY ONLY <1>2, <1>10, <2>1, <3>1
      <3>3. QED
        BY ONLY <3>2
    <2>2. CASE k > i
      <3>1. k - 1 \in 0 .. n /\ k - 1 >= i /\ (k - 1) + 1 = k
        BY ONLY <1>0, <2>2, k \in 0 .. n + 1
      <3>2. f[(k - 1) + 1] = P(k - 1) /\ P(k - 1) \in Nat
        BY ONLY <1>2, <1>10, <3>1
      <3>3. QED
        BY ONLY <3>1, <3>2
    <2>3. QED
      BY <1>1, <1>10, <2>1, <2>2
  <1>12. ASSUME NEW k \in 1 .. Len(r) PROVE f[k - 1] <= f[k] /\ v[r[k]] = f[k] - f[k - 1]
    <2>0. k \in 1 .. n + 1 /\ k \in Nat
      BY <1>3
    <2>1. CASE k = i
      <3>1. i - 1 \in 0 .. n /\ i - 1 < i
        BY <1>1
      <3>2. f[i - 1] = P(i - 1) /\ f[i] = d
        BY <1>10, <3>1
      <3>3. QED
        BY <1>3, <1>4, <2>1, <3>2
    <2>2. CASE k < i
      <3>1. k - 1 \in 0 .. n /\ k \in 0 .. n /\ k \in 1 .. n /\ k - 1 < i
        BY <1>1, <2>0, <2>2
      <3>2. f[k] = P(k) /\ f[k - 1] = P(k - 1) /\ P(k) = P(k - 1) + w[q[k]]
        BY <1>2, <1>10, <2>2, <3>1
      <3>3. r[k] = q[k] /\ q[k] # t /\ q[k] # q[i] /\ q[k] \in Thread /\ w[q[k]] \in Nat
        <4>1. k # i /\ i \in 1 .. n
          BY <1>1, <2>2
        <4>2. r[k] = q[k] /\ q[k] \in Thread /\ w[q[k]] \in Nat /\ q[k] \in Range(q)
          BY ONLY <1>1, <1>3, <2>2, <3>1
        <4>3. q[k] # q[i]
          BY ONLY <1>1, <3>1, <4>1
        <4>4. QED
          BY <4>2, <4>3
      <3>4. P(k - 1) \in Nat /\ v[q[k]] = w[q[k]]
        BY <1>2, <3>1, <3>3
      <3>5. QED
        BY <3>2, <3>3, <3>4
    <2>3. CASE k = i + 1
      <3>1. i \in 0 .. n /\ (i + 1) - 1 = i
        BY <1>1
      <3>2. f[k] = P(i) /\ f[k - 1] = d /\ r[k] = q[i]
        BY <1>1, <1>3, <1>10, <2>3, <3>1
      <3>3. P(i) = P(i - 1) + w[q[i]] /\ P(i - 1) \in Nat /\ w[q[i]] \in Nat
        <4>1. i - 1 \in 0 .. n
          BY ONLY <1>0
        <4>2. QED
          BY ONLY <1>0, <1>1, <1>2, <4>1
      <3>4. QED
        BY ONLY <1>4, <3>2, <3>3, d \in Nat
    <2>4. CASE k > i + 1
      <3>1. /\ k - 1 \in 1 .. n /\ k - 1 > i /\ (k - 1) + 1 = k
            /\ k - 2 \in 0 .. n /\ k - 2 >= i /\ (k - 2) + 1 = k - 1 /\ (k - 1) - 1 = k - 2
        BY ONLY <1>0, <2>0, <2>4
      <3>2. f[k] = P(k - 1) /\ f[k - 1] = P(k - 2) /\ P(k - 1) = P(k - 2) + w[q[k - 1]]
        <4>0. n \in Nat /\ i \in Nat /\ k - 1 \in 1 .. n /\ k - 1 > i
          BY ONLY <1>0, <3>1
        <4>1. k - 1 \in 0 .. n /\ k - 1 >= i
          BY ONLY <4>0
        <4>2. f[(k - 1) + 1] = P(k - 1) /\ f[(k - 2) + 1] = P(k - 2)
          BY ONLY <1>10, <3>1, <4>1
        <4>3. P(k - 1) = P((k - 1) - 1) + w[q[k - 1]]
          BY ONLY <1>2, <3>1
        <4>4. QED
          BY ONLY <3>1, <4>2, <4>3
      <3>3. /\ r[k] = q[k - 1] /\ q[k - 1] # t /\ q[k - 1] # q[i] /\ q[k - 1] \in Thread
            /\ w[q[k - 1]] \in Nat
        <4>1. k - 1 # i /\ i \in 1 .. n /\ k - 1 >= i
          BY ONLY <1>0, <3>1
        <4>2. r[(k - 1) + 1] = q[k - 1]
          BY ONLY <1>3, <3>1, <4>1
        <4>3. q[k - 1] \in Range(q) /\ q[k - 1] # q[i] /\ q[k - 1] \in Thread /\ w[q[k - 1]] \in Nat
          BY ONLY <1>1, <3>1, <4>1
        <4>4. q[k - 1] # t
          BY <4>3
        <4>5. QED
          BY ONLY <3>1, <4>2, <4>3, <4>4
      <3>4. v[q[k - 1]] = w[q[k - 1]]
        BY <3>3
      <3>5. P(k - 2) \in Nat
        BY ONLY <1>2, <3>1
      <3>6. QED
        BY ONLY <3>2, <3>3, <3>4, <3>5
    <2>5. QED
      BY <1>1, <2>0, <2>1, <2>2, <2>3, <2>4
  <1>13. WakesAt(r, v, f)
    BY ONLY <1>3, <1>8, <1>9, <1>10, <1>11, <1>12, v \in [Thread -> Int] DEF WakesAt
  <1>14. /\ WellTimed(r, v) /\ \A k \in 0 .. Len(r) : TotalTo(r, v, k) = f[k]
         /\ \A k \in 1 .. Len(r) : TimeLeft(r, v, r[k]) = f[k]
    BY ONLY <1>13, ByWakeTime
  <1>15. TotalTo(r, v, Len(r)) = P(n) /\ TimeLeft(r, v, t) = d
    <2>1. n + 1 \in 0 .. Len(r) /\ i \in 1 .. Len(r) /\ n \in 0 .. n /\ n >= i
      BY <1>1, <1>3
    <2>2. QED
      BY ONLY <1>3, <1>10, <1>14, <2>1
  <1>16. ASSUME NEW u \in Thread \ {t} PROVE TimeLeft(r, v, u) = TimeLeft(q, w, u)
    <2>1. CASE u \in Range(q)
      <3>1. PICK k \in 1 .. n : q[k] = u
        BY <1>1, <2>1
      <3>2. CASE k < i
        <4>1. k \in 1 .. Len(r) /\ r[k] = u /\ f[k] = P(k)
          BY <1>1, <1>3, <1>10, <3>1, <3>2
        <4>2. QED
          BY <1>1, <1>14, <3>1, <4>1
      <3>3. CASE k >= i
        <4>1. k + 1 \in 1 .. Len(r) /\ r[k + 1] = u /\ f[k + 1] = P(k)
          BY <1>1, <1>3, <1>10, <3>1, <3>3
        <4>2. QED
          BY <1>1, <1>14, <3>1, <4>1
      <3>4. QED
        BY <1>1, <3>2, <3>3
    <2>2. CASE u \notin Range(q)
      BY <1>7, <2>2 DEF TimeLeft
    <2>3. QED
      BY <2>1, <2>2
  <1>17. v[q[i]] > 0
    <2>1. i - 1 \in 0 .. n
      BY <1>1
    <2>2. P(i) = P(i - 1) + w[q[i]] /\ P(i - 1) \in Nat /\ w[q[i]] \in Nat
      BY <1>1, <1>2, <2>1
    <2>3. QED
      BY <1>4, <2>2
  <1>18. QED
    BY <1>7, <1>14, <1>15, <1>16, <1>17 DEF P

\* The entry that fgmpi_sleepq_remove_thread changes: the one after the i-th
\* takes over its time.
RemovingAt(v, q, w, i) ==
    /\ i \in 1 .. Len(q) /\ v \in [Thread -> Int] /\ v[q[i]] = NotQueued
    /\ i < Len(q) => v[q[i + 1]] = w[q[i + 1]] + w[q[i]]
    /\ \A u \in Thread : u # q[i] /\ (i < Len(q) => u # q[i + 1]) => v[u] = w[u]

\* Removing: nobody else's time changes, and the maximum drops only if the
\* last entry was removed.
LEMMA RemoveTimes ==
  ASSUME NEW q, NEW w, WellTimed(q, w), NEW i, NEW v, RemovingAt(v, q, w, i),
         NEW r, r = ll_remove_entry(q, i)
  PROVE  /\ WellTimed(r, v) /\ Range(r) = Range(q) \ {q[i]}
         /\ TotalTo(r, v, Len(r)) = TotalTo(q, w, Len(q)) - (IF i = Len(q) THEN w[q[i]] ELSE 0)
         /\ \A u \in Thread \ {q[i]} : TimeLeft(r, v, u) = TimeLeft(q, w, u)
  <1> SUFFICES
        ASSUME i \in 1 .. Len(q), v \in [Thread -> Int], v[q[i]] = NotQueued,
               i < Len(q) => v[q[i + 1]] = w[q[i + 1]] + w[q[i]],
               \A u \in Thread : u # q[i] /\ (i < Len(q) => u # q[i + 1]) => v[u] = w[u]
        PROVE  /\ WellTimed(r, v) /\ Range(r) = Range(q) \ {q[i]}
               /\ TotalTo(r, v, Len(r)) =
                     TotalTo(q, w, Len(q)) - (IF i = Len(q) THEN w[q[i]] ELSE 0)
               /\ \A u \in Thread \ {q[i]} : TimeLeft(r, v, u) = TimeLeft(q, w, u)
    BY Zenon DEF RemovingAt
  <1> DEFINE n == Len(q)
             P(k) == TotalTo(q, w, k)
             f == [k \in 0 .. n - 1 |-> IF k < i THEN P(k) ELSE P(k + 1)]
  <1>1. /\ n \in Nat /\ DOMAIN q = 1 .. n /\ i \in Nat /\ i >= 1 /\ i <= n
        /\ \A k \in 1 .. n : q[k] \in Thread /\ q[k] \in Range(q) /\ w[q[k]] \in Nat
        /\ \A k, j \in 1 .. n : q[k] = q[j] => k = j
        /\ \A k \in 1 .. n : TimeLeft(q, w, q[k]) = P(k)
        /\ \A u \in Range(q) : \E k \in 1 .. n : q[k] = u
    BY Entries
  <1>2. /\ P(0) = 0 /\ \A k \in 0 .. n : P(k) \in Nat
        /\ \A k \in 1 .. n : P(k) = P(k - 1) + w[q[k]]
    BY TimesGrow
  <1>3. /\ r \in Seq(Thread) /\ Len(r) = n - 1
        /\ \A k \in 1 .. n : k < i => r[k] = q[k]
        /\ \A k \in 1 .. n : k > i => r[k - 1] = q[k]
    <2>1. q \in Seq(Thread)
      BY DEF WellTimed
    <2>2. RemovedAs(r, q, i)
      BY <2>1, RemovedEntries
    <2>3. QED
      BY ONLY <2>2 DEF RemovedAs
  <1>4. DOMAIN r = 1 .. n - 1
    BY <1>3
  <1> HIDE DEF P
  <1>5. ASSUME NEW k \in 1 .. n - 1
        PROVE  \E m \in 1 .. n : m # i /\ r[k] = q[m] /\ IF m < i THEN k = m ELSE k = m - 1
    <2>1. CASE k < i
      <3>1. k \in 1 .. n /\ k # i
        BY <1>1, <2>1
      <3>2. r[k] = q[k]
        BY <1>3, <2>1, <3>1, Zenon
      <3>3. QED
        BY ONLY <2>1, <3>1, <3>2
    <2>2. CASE k >= i
      <3>1. k + 1 \in 1 .. n /\ k + 1 > i /\ (k + 1) - 1 = k /\ ~(k + 1 < i) /\ k + 1 # i
        BY <1>1, <2>2
      <3>2. r[k] = q[k + 1]
        BY ONLY <1>3, <3>1
      <3>3. QED
        BY ONLY <3>1, <3>2
    <2>3. QED
      BY <1>1, <2>1, <2>2
  <1>6. Range(r) = Range(q) \ {q[i]}
    <2>1. ASSUME NEW k \in 1 .. n - 1 PROVE r[k] \in Range(q) /\ r[k] # q[i]
      <3>1. PICK m \in 1 .. n : m # i /\ r[k] = q[m]
        BY <1>5
      <3>2. QED
        BY ONLY <1>1, <3>1, i \in 1 .. n, m \in 1 .. n
    <2>2. ASSUME NEW k \in 1 .. n, k # i PROVE q[k] \in Range(r)
      <3>1. CASE k < i
        <4>1. k \in 1 .. n - 1
          BY <1>1, <3>1
        <4>2. QED
          BY <1>3, <1>4, <3>1, <4>1, Zenon DEF Range
      <3>2. CASE k > i
        <4>1. k - 1 \in 1 .. n - 1
          BY <1>1, <3>2
        <4>2. QED
          BY <1>3, <1>4, <3>2, <4>1, Zenon DEF Range
      <3>3. QED
        BY <1>1, <2>2, <3>1, <3>2
    <2>3. \A u : u \in Range(r) => \E k \in 1 .. n - 1 : r[k] = u
      BY <1>4 DEF Range
    <2>4. QED
      BY <1>1, <2>1, <2>2, <2>3
  <1>7. IsInjective(r)
    <2> SUFFICES ASSUME NEW j \in 1 .. n - 1, NEW k \in 1 .. n - 1, r[j] = r[k] PROVE j = k
      BY <1>4 DEF IsInjective
    <2>1. PICK a \in 1 .. n : a # i /\ r[j] = q[a] /\ IF a < i THEN j = a ELSE j = a - 1
      BY <1>5, Zenon
    <2>2. PICK b \in 1 .. n : b # i /\ r[k] = q[b] /\ IF b < i THEN k = b ELSE k = b - 1
      BY <1>5
    <2>3. a = b
      <3>1. q[a] = q[b]
        BY <2>1, <2>2, Zenon
      <3>2. QED
        BY ONLY <1>1, <3>1, a \in 1 .. n, b \in 1 .. n
    <2>4. QED
      BY <2>1, <2>2, <2>3
  <1>8. \A u \in Thread \ Range(r) : v[u] = NotQueued
    <2> SUFFICES ASSUME NEW u \in Thread, u \notin Range(q) PROVE v[u] = NotQueued
      BY <1>6
    <2>1. w[u] = NotQueued
      BY DEF WellTimed
    <2>2. u # q[i] /\ (i < n => u # q[i + 1])
      <3>1. i < n => i + 1 \in 1 .. n
        BY <1>1
      <3>2. QED
        BY <1>1, <3>1
    <2>3. QED
      BY <2>1, <2>2
  <1>9. /\ f[0] = 0
        /\ \A k \in 0 .. n - 1 : k < i => f[k] = P(k)
        /\ \A k \in 0 .. n - 1 : k >= i => f[k] = P(k + 1)
    BY <1>1, <1>2
  <1> HIDE DEF f
  <1>10. \A k \in 0 .. Len(r) : f[k] \in Int
    <2> SUFFICES ASSUME NEW k \in 0 .. n - 1 PROVE f[k] \in Int
      BY <1>3
    <2>1. k \in 0 .. n /\ k + 1 \in 0 .. n /\ (k < i \/ k >= i)
      BY <1>1
    <2>2. QED
      BY <1>2, <1>9, <2>1
  <1>11. ASSUME NEW k \in 1 .. Len(r) PROVE f[k - 1] <= f[k] /\ v[r[k]] = f[k] - f[k - 1]
    <2>0. k \in 1 .. n - 1 /\ k \in Nat /\ k \in 0 .. n - 1 /\ k - 1 \in 0 .. n - 1
      BY <1>1, <1>3
    <2>1. CASE k < i
      <3>1. k - 1 \in 0 .. n /\ k \in 1 .. n /\ k - 1 < i /\ k # i /\ i \in 1 .. n
        BY <1>1, <2>0, <2>1
      <3>2. f[k] = P(k) /\ f[k - 1] = P(k - 1) /\ P(k) = P(k - 1) + w[q[k]] /\ P(k - 1) \in Nat
        BY ONLY <1>2, <1>9, <2>0, <2>1, <3>1
      <3>3. r[k] = q[k] /\ q[k] \in Thread /\ w[q[k]] \in Nat /\ q[k] # q[i]
        BY ONLY <1>1, <1>3, <2>1, <3>1
      <3>4. i < n => q[k] # q[i + 1]
        <4>1. i < n => i + 1 \in 1 .. n /\ k # i + 1
          BY <1>1, <2>1
        <4>2. QED
          BY ONLY <1>1, <3>1, <4>1
      <3>5. v[q[k]] = w[q[k]]
        BY <3>3, <3>4
      <3>6. QED
        BY ONLY <3>2, <3>3, <3>5
    <2>2. CASE k = i
      <3>1. i < n /\ i + 1 \in 1 .. n /\ i + 1 > i /\ (i + 1) - 1 = i /\ i - 1 < i /\ i - 1 \in 0 .. n
        BY <1>1, <2>0, <2>2
      <3>2. f[k] = P(i + 1) /\ f[k - 1] = P(i - 1) /\ r[k] = q[i + 1]
        BY ONLY <1>1, <1>3, <1>9, <2>0, <2>2, <3>1
      <3>3. /\ P(i) = P(i - 1) + w[q[i]] /\ P(i + 1) = P(i) + w[q[i + 1]] /\ P(i - 1) \in Nat
            /\ w[q[i]] \in Nat /\ w[q[i + 1]] \in Nat
        <4>1. P(i + 1) = P((i + 1) - 1) + w[q[i + 1]]
          BY ONLY <1>2, <3>1
        <4>2. QED
          BY <1>1, <1>2, <3>1, <4>1
      <3>4. v[q[i + 1]] = w[q[i + 1]] + w[q[i]]
        BY <3>1
      <3>5. QED
        BY ONLY <3>2, <3>3, <3>4
    <2>3. CASE k > i
      <3>1. /\ k + 1 \in 1 .. n /\ k + 1 > i /\ (k + 1) - 1 = k /\ k \in 0 .. n /\ k + 1 # i
            /\ k + 1 # i + 1 /\ k - 1 >= i /\ (k - 1) + 1 = k /\ i \in 1 .. n
            /\ (i < n => i + 1 \in 1 .. n) /\ k >= i
        BY <1>1, <2>0, <2>3
      <3>2. f[k] = P(k + 1) /\ f[k - 1] = P(k)
        <4>1. f[k] = P(k + 1) /\ f[k - 1] = P((k - 1) + 1)
          BY ONLY <1>9, <2>0, <3>1
        <4>2. QED
          BY <3>1, <4>1
      <3>3. P(k + 1) = P(k) + w[q[k + 1]] /\ P(k) \in Nat
        <4>1. P(k + 1) = P((k + 1) - 1) + w[q[k + 1]]
          BY ONLY <1>2, <3>1, Zenon
        <4>2. QED
          BY <1>2, <3>1, <4>1
      <3>4. r[k] = q[k + 1]
        BY ONLY <1>3, <3>1
      <3>5. q[k + 1] \in Thread /\ w[q[k + 1]] \in Nat /\ q[k + 1] # q[i] /\ (i < n => q[k + 1] # q[i + 1])
        BY ONLY <1>1, <3>1
      <3>6. v[q[k + 1]] = w[q[k + 1]]
        BY <3>5
      <3>7. QED
        BY ONLY <3>2, <3>3, <3>4, <3>5, <3>6
    <2>4. QED
      BY <1>1, <2>0, <2>1, <2>2, <2>3
  <1>12. WakesAt(r, v, f)
    BY ONLY <1>3, <1>7, <1>8, <1>9, <1>10, <1>11, v \in [Thread -> Int], Zenon DEF WakesAt
  <1>13. /\ WellTimed(r, v) /\ \A k \in 0 .. Len(r) : TotalTo(r, v, k) = f[k]
         /\ \A k \in 1 .. Len(r) : TimeLeft(r, v, r[k]) = f[k]
    BY ONLY <1>12, ByWakeTime
  <1>14. TotalTo(r, v, Len(r)) = P(n) - (IF i = n THEN w[q[i]] ELSE 0)
    <2>1. /\ n - 1 \in 0 .. Len(r) /\ n - 1 \in 0 .. n - 1 /\ n \in 1 .. n /\ n \in 0 .. n
          /\ n - 1 \in 0 .. n /\ (n - 1) + 1 = n
      BY <1>1, <1>3
    <2>2. TotalTo(r, v, Len(r)) = f[n - 1]
      BY ONLY <1>3, <1>13, <2>1
    <2>3. P(n) = P(n - 1) + w[q[n]] /\ P(n) \in Nat /\ P(n - 1) \in Nat /\ w[q[n]] \in Nat
      BY ONLY <1>1, <1>2, <2>1
    <2>4. CASE i = n
      BY ONLY <1>1, <1>9, <2>1, <2>2, <2>3, <2>4
    <2>5. CASE i # n
      <3>0. n \in Nat /\ i \in Nat /\ i <= n
        BY <1>1
      <3>1. n - 1 >= i
        BY ONLY <2>5, <3>0
      <3>2. f[n - 1] = P((n - 1) + 1) /\ P((n - 1) + 1) = P(n)
        BY ONLY <1>9, <2>1, <3>1
      <3>3. QED
        BY ONLY <2>2, <2>3, <2>5, <3>2
    <2>6. QED
      BY <2>4, <2>5
  <1>15. ASSUME NEW u \in Thread \ {q[i]} PROVE TimeLeft(r, v, u) = TimeLeft(q, w, u)
    <2>1. CASE u \in Range(q)
      <3>1. PICK k \in 1 .. n : q[k] = u
        BY <1>1, <2>1
      <3>2. CASE k < i
        <4>1. k \in 1 .. Len(r) /\ k \in 0 .. n - 1
          BY <1>1, <1>3, <3>2
        <4>2. r[k] = u /\ f[k] = P(k)
          BY ONLY <1>3, <1>9, <3>1, <3>2, <4>1
        <4>3. QED
          BY <1>1, <1>13, <3>1, <4>1, <4>2
      <3>3. CASE k > i
        <4>1. k - 1 \in 1 .. Len(r) /\ k - 1 \in 0 .. n - 1 /\ k - 1 >= i /\ (k - 1) + 1 = k
          BY <1>1, <1>3, <3>3
        <4>2. r[k - 1] = u /\ f[k - 1] = P((k - 1) + 1) /\ P((k - 1) + 1) = P(k)
          BY ONLY <1>3, <1>9, <3>1, <3>3, <4>1
        <4>3. TimeLeft(r, v, r[k - 1]) = f[k - 1] /\ TimeLeft(q, w, q[k]) = P(k)
          BY ONLY <1>1, <1>13, <4>1, k \in 1 .. n
        <4>4. QED
          BY ONLY <3>1, <4>2, <4>3
      <3>4. QED
        BY <1>1, <3>1, <3>2, <3>3
    <2>2. CASE u \notin Range(q)
      BY <1>6, <2>2 DEF TimeLeft
    <2>3. QED
      BY <2>1, <2>2
  <1>16. QED
    BY <1>6, <1>13, <1>14, <1>15 DEF P

\* The two parts into which fgmpi_sleepq_check cuts the queue.
LEMMA Parts ==
  ASSUME NEW q \in Seq(Thread), NEW g \in 0 .. Len(q)
  PROVE  /\ SubSeq(q, 1, g) \in Seq(Thread) /\ Len(SubSeq(q, 1, g)) = g
         /\ \A k \in 1 .. g : SubSeq(q, 1, g)[k] = q[k]
         /\ SubSeq(q, g + 1, Len(q)) \in Seq(Thread) /\ Len(SubSeq(q, g + 1, Len(q))) = Len(q) - g
         /\ \A k \in 1 .. Len(q) - g : SubSeq(q, g + 1, Len(q))[k] = q[g + k]
  <1> DEFINE n == Len(q)
  <1>1. n \in Nat /\ g \in Nat /\ g <= n /\ \A i \in 1 .. n : q[i] \in Thread
    OBVIOUS
  <1>2. SubSeq(q, 1, g) \in Seq(Thread) /\ Len(SubSeq(q, 1, g)) = g /\ \A k \in 1 .. g : SubSeq(q, 1, g)[k] = q[k]
    BY <1>1
  <1>3. SubSeq(q, g + 1, n) \in Seq(Thread) /\ Len(SubSeq(q, g + 1, n)) = n - g
    BY <1>1
  <1>4. \A k \in 1 .. n - g : SubSeq(q, g + 1, n)[k] = q[g + k]
    BY <1>1
  <1>5. QED
    BY <1>2, <1>3, <1>4

\* What fgmpi_sleepq_check does with the interval I: the first g entries go, and
\* the one that is then first gives what is left of I.
CheckedAs(r, v, q, w, I, g) ==
    /\ r = SubSeq(q, g + 1, Len(q)) /\ I \in Nat /\ g \in 0 .. Len(q)
    /\ \A k \in 1 .. g : TotalTo(q, w, k) <= I
    /\ g < Len(q) => ~(TotalTo(q, w, g) < I /\ TotalTo(q, w, g + 1) <= I)
    /\ v \in [Thread -> Int] /\ \A k \in 1 .. g : v[q[k]] = NotQueued
    /\ g < Len(q) => v[q[g + 1]] = w[q[g + 1]] - (I - TotalTo(q, w, g))
    /\ \A u \in Thread : (\A k \in 1 .. Len(q) : k <= g + 1 => u # q[k]) => v[u] = w[u]

\* Checking: whoever stays had at least I left and has now exactly I less, and
\* so has the maximum.
LEMMA CheckTimes ==
  ASSUME NEW q, NEW w, NEW I, NEW g, NEW v, NEW r, WellTimed(q, w), CheckedAs(r, v, q, w, I, g)
  PROVE  /\ WellTimed(r, v)
         /\ Range(r) = {q[k] : k \in g + 1 .. Len(q)}
         /\ TotalTo(r, v, Len(r)) = (IF TotalTo(q, w, Len(q)) < I THEN 0
                                     ELSE TotalTo(q, w, Len(q)) - I)
         /\ \A k \in g + 1 .. Len(q) : /\ TotalTo(q, w, k) >= I
                                       /\ TimeLeft(r, v, q[k]) = TotalTo(q, w, k) - I
  <1> SUFFICES
        ASSUME r = SubSeq(q, g + 1, Len(q)), I \in Nat, g \in 0 .. Len(q),
               \A k \in 1 .. g : TotalTo(q, w, k) <= I,
               g < Len(q) => ~(TotalTo(q, w, g) < I /\ TotalTo(q, w, g + 1) <= I),
               v \in [Thread -> Int], \A k \in 1 .. g : v[q[k]] = NotQueued,
               g < Len(q) => v[q[g + 1]] = w[q[g + 1]] - (I - TotalTo(q, w, g)),
               \A u \in Thread : (\A k \in 1 .. Len(q) : k <= g + 1 => u # q[k]) => v[u] = w[u]
        PROVE  /\ WellTimed(r, v)
               /\ Range(r) = {q[k] : k \in g + 1 .. Len(q)}
               /\ TotalTo(r, v, Len(r)) = (IF TotalTo(q, w, Len(q)) < I THEN 0
                                           ELSE TotalTo(q, w, Len(q)) - I)
               /\ \A k \in g + 1 .. Len(q) : /\ TotalTo(q, w, k) >= I
                                             /\ TimeLeft(r, v, q[k]) = TotalTo(q, w, k) - I
    BY Zenon DEF CheckedAs
  <1> DEFINE n == Len(q)
             P(k) == TotalTo(q, w, k)
             f == [k \in 0 .. n - g |-> IF k = 0 THEN 0 ELSE P(g + k) - I]
  <1>1. /\ n \in Nat /\ DOMAIN q = 1 .. n /\ g \in Nat /\ g <= n
        /\ \A k \in 1 .. n : q[k] \in Thread /\ q[k] \in Range(q) /\ w[q[k]] \in Nat
        /\ \A k, j \in 1 .. n : q[k] = q[j] => k = j
        /\ \A u \in Range(q) : \E k \in 1 .. n : q[k] = u
    BY Entries
  <1>2. /\ P(0) = 0 /\ \A k \in 0 .. n : P(k) \in Nat
        /\ \A k \in 1 .. n : P(k) = P(k - 1) + w[q[k]]
        /\ \A i, j \in 0 .. n : i <= j => P(i) <= P(j)
    BY TimesGrow
  <1>3. r \in Seq(Thread) /\ Len(r) = n - g /\ \A k \in 1 .. n - g : r[k] = q[g + k]
    <2>1. q \in Seq(Thread)
      BY DEF WellTimed
    <2>2. QED
      BY ONLY <2>1, Parts, g \in 0 .. n, r = SubSeq(q, g + 1, n)
  <1>4. DOMAIN r = 1 .. n - g
    BY <1>3
  <1>5. P(g) <= I
    <2>1. g = 0 \/ g \in 1 .. g
      BY <1>1
    <2>2. QED
      BY <1>2, <2>1
  <1>6. ASSUME NEW k \in g + 1 .. n PROVE P(k) >= I
    <2>1. g < n /\ g + 1 \in 0 .. n /\ k \in 0 .. n /\ g \in 0 .. n /\ g <= k /\ g + 1 <= k
      BY <1>1
    <2>2. ~(P(g) < I) \/ ~(P(g + 1) <= I)
      BY <2>1
    <2>3. P(g) <= P(k) /\ P(g + 1) <= P(k) /\ P(g) \in Nat /\ P(g + 1) \in Nat /\ P(k) \in Nat
      BY ONLY <1>2, <2>1
    <2>4. QED
      BY <2>2, <2>3
  <1>7. g < n => v[q[g + 1]] = w[q[g + 1]] - (I - P(g))
    OBVIOUS
  <1> HIDE DEF P
  <1>8. Range(r) = {q[k] : k \in g + 1 .. n}
    <2>1. ASSUME NEW k \in 1 .. n - g PROVE r[k] \in {q[j] : j \in g + 1 .. n}
      <3>1. g + k \in g + 1 .. n
        BY <1>1
      <3>2. QED
        BY <1>3, <3>1
    <2>2. ASSUME NEW k \in g + 1 .. n PROVE q[k] \in Range(r)
      <3>1. k - g \in 1 .. n - g /\ g + (k - g) = k
        BY <1>1
      <3>2. r[k - g] = q[k]
        BY ONLY <1>3, <3>1
      <3>3. QED
        BY <1>4, <3>1, <3>2 DEF Range
    <2>3. \A u : u \in Range(r) => \E k \in 1 .. n - g : r[k] = u
      BY <1>4 DEF Range
    <2>4. QED
      BY ONLY <2>1, <2>2, <2>3
  <1>9. IsInjective(r)
    <2> SUFFICES ASSUME NEW j \in 1 .. n - g, NEW k \in 1 .. n - g, r[j] = r[k] PROVE j = k
      BY <1>4, Zenon DEF IsInjective
    <2>1. g + j \in 1 .. n /\ g + k \in 1 .. n
      BY <1>1
    <2>2. q[g + j] = q[g + k]
      BY <1>3
    <2>3. g + j = g + k
      BY ONLY <1>1, <2>1, <2>2
    <2>4. QED
      BY <1>1, <2>3
  <1>10. \A u \in Thread \ Range(r) : v[u] = NotQueued
    <2> SUFFICES ASSUME NEW u \in Thread, u \notin Range(r) PROVE v[u] = NotQueued
      OBVIOUS
    <2>1. CASE u \in Range(q)
      <3>1. PICK k \in 1 .. n : q[k] = u
        BY <1>1, <2>1
      <3>2. k \in 1 .. g
        <4>1. k \notin g + 1 .. n
          BY <1>8, <3>1
        <4>2. QED
          BY <1>1, <4>1
      <3>3. QED
        BY <3>1, <3>2
    <2>2. CASE u \notin Range(q)
      <3>1. w[u] = NotQueued
        BY <2>2 DEF WellTimed
      <3>2. \A k \in 1 .. n : u # q[k]
        BY <1>1, <2>2
      <3>3. QED
        BY <3>1, <3>2
    <2>3. QED
      BY <2>1, <2>2
  <1>11. f[0] = 0 /\ \A k \in 1 .. n - g : f[k] = P(g + k) - I
    BY <1>1
  <1> HIDE DEF f
  <1>12. \A k \in 0 .. Len(r) : f[k] \in Int
    <2> SUFFICES ASSUME NEW k \in 0 .. n - g PROVE f[k] \in Int
      BY <1>3
    <2>1. k = 0 \/ (k \in 1 .. n - g /\ g + k \in 0 .. n)
      BY <1>1
    <2>2. QED
      BY <1>2, <1>11, <2>1
  <1>13. ASSUME NEW k \in 1 .. Len(r) PROVE f[k - 1] <= f[k] /\ v[r[k]] = f[k] - f[k - 1]
    <2>0. k \in 1 .. n - g /\ k \in Nat
      BY <1>3
    <2>1. r[k] = q[g + k] /\ f[k] = P(g + k) - I
      BY <1>3, <1>11, <2>0
    <2>2. CASE k = 1
      <3>1. g < n /\ g + 1 \in 1 .. n /\ g + 1 \in g + 1 .. n /\ (g + 1) - 1 = g /\ g \in 0 .. n
        BY <1>1, <2>0, <2>2
      <3>2. f[k - 1] = 0 /\ r[k] = q[g + 1] /\ f[k] = P(g + 1) - I
        BY <1>11, <2>1, <2>2
      <3>3. P(g + 1) = P(g) + w[q[g + 1]] /\ P(g) \in Nat /\ w[q[g + 1]] \in Nat
        <4>1. P(g + 1) = P((g + 1) - 1) + w[q[g + 1]]
          BY ONLY <1>2, <3>1
        <4>2. QED
          BY <1>1, <1>2, <3>1, <4>1
      <3>4. P(g + 1) >= I /\ v[q[g + 1]] = w[q[g + 1]] - (I - P(g))
        BY <1>6, <1>7, <3>1
      <3>5. QED
        BY ONLY <3>2, <3>3, <3>4, I \in Nat
    <2>3. CASE k > 1
      <3>1. /\ k - 1 \in 1 .. n - g /\ g + k \in 1 .. n /\ g + (k - 1) \in 0 .. n
            /\ (g + k) - 1 = g + (k - 1) /\ g + k > g + 1
        BY <1>1, <2>0, <2>3
      <3>2. f[k - 1] = P(g + (k - 1)) - I
        BY ONLY <1>11, <3>1
      <3>3. P(g + k) = P(g + (k - 1)) + w[q[g + k]] /\ P(g + (k - 1)) \in Nat
        <4>1. P(g + k) = P((g + k) - 1) + w[q[g + k]]
          BY ONLY <1>2, <3>1
        <4>2. QED
          BY ONLY <1>2, <3>1, <4>1
      <3>4. q[g + k] \in Thread /\ w[q[g + k]] \in Nat /\ \A j \in 1 .. n : j <= g + 1 => q[g + k] # q[j]
        <4>1. \A j \in 1 .. n : j <= g + 1 => j # g + k
          BY <1>1, <2>0, <3>1
        <4>2. QED
          BY ONLY <1>1, <3>1, <4>1
      <3>5. v[q[g + k]] = w[q[g + k]]
        BY <3>4, Zenon
      <3>6. w[q[g + k]] \in Nat
        BY ONLY <3>4
      <3>7. QED
        BY ONLY <2>1, <3>2, <3>3, <3>5, <3>6, I \in Nat
    <2>4. QED
      BY <2>0, <2>2, <2>3
  <1>14. WakesAt(r, v, f)
    BY ONLY <1>3, <1>9, <1>10, <1>11, <1>12, <1>13, v \in [Thread -> Int], Zenon DEF WakesAt
  <1>15. /\ WellTimed(r, v) /\ \A k \in 0 .. Len(r) : TotalTo(r, v, k) = f[k]
         /\ \A k \in 1 .. Len(r) : TimeLeft(r, v, r[k]) = f[k]
    BY ONLY <1>14, ByWakeTime
  <1>16. TotalTo(r, v, Len(r)) = IF P(n) < I THEN 0 ELSE P(n) - I
    <2>0. n \in Nat /\ g \in Nat /\ g <= n
      BY <1>1
    <2>1. n - g \in 0 .. n - g /\ n \in 0 .. n
      BY ONLY <2>0
    <2>2. TotalTo(r, v, Len(r)) = f[n - g] /\ P(n) \in Nat
      BY ONLY <1>2, <1>3, <1>15, <2>1
    <2>3. CASE g = n
      <3>1. n - g = 0
        BY <1>1, <2>3
      <3>2. QED
        BY <1>5, <1>11, <2>2, <2>3, <3>1
    <2>4. CASE g # n
      <3>1. n - g \in 1 .. n - g /\ g + (n - g) = n /\ n \in g + 1 .. n
        BY ONLY <2>0, <2>4
      <3>2. f[n - g] = P(g + (n - g)) - I /\ P(g + (n - g)) = P(n)
        BY ONLY <1>11, <3>1
      <3>3. P(n) >= I
        BY <1>6, <3>1
      <3>4. QED
        BY ONLY <2>2, <3>2, <3>3, I \in Nat
    <2>5. QED
      BY <2>3, <2>4
  <1>17. ASSUME NEW k \in g + 1 .. n PROVE P(k) >= I /\ TimeLeft(r, v, q[k]) = P(k) - I
    <2>1. k - g \in 1 .. n - g /\ k - g \in 1 .. Len(r) /\ g + (k - g) = k
      BY <1>1, <1>3
    <2>2. r[k - g] = q[k] /\ f[k - g] = P(k) - I
      BY ONLY <1>3, <1>11, <2>1
    <2>3. QED
      BY <1>6, <1>15, <2>1, <2>2
  <1>18. QED
    BY <1>8, <1>15, <1>16, <1>17 DEF P

\* The types of the static variables of the sleep queue.
QueueType ==
    [sleepq : Seq(Thread), sleep : [Thread -> Int], timeout : [Thread -> BOOLEAN],
     max_sleep_time : Nat, last_check_time : 0 .. MaxClock, first_wake_usecs : Nat]

\* A sound sleep queue: well timed, and its entries add up to max_sleep_time.
Queue(s) == /\ s \in QueueType /\ WellTimed(s.sleepq, s.sleep)
            /\ TotalTo(s.sleepq, s.sleep, Len(s.sleepq)) = s.max_sleep_time

\* How long t still sleeps in the queue s.
Left(s, t) == TimeLeft(s.sleepq, s.sleep, t)

\* The loop of fgmpi_sleepq_check stops somewhere: a number of entries to
\* remove exists that all time out and whose next one does not.
LEMMA GoneFound ==
  ASSUME NEW s, Len(s.sleepq) \in Nat
  PROVE  /\ Gone(s) \in 0 .. Len(s.sleepq) /\ \A i \in 1 .. Gone(s) : TimesOut(s, i)
         /\ Gone(s) < Len(s.sleepq) => ~TimesOut(s, Gone(s) + 1)
  <1> DEFINE n == Len(s.sleepq)
             K == {k \in 0 .. n : k = n \/ ~TimesOut(s, k + 1)}
  <1>0. n \in Nat
    OBVIOUS
  <1>1. K \in SUBSET Nat /\ n \in K
    BY <1>0
  <1>2. PICK m \in K : \A j \in K : m <= j
    <2>1. K # {}
      BY <1>1
    <2>2. QED
      BY ONLY <1>1, <2>1, Least, Zenon
  <1>3. m \in 0 .. n /\ m \in Nat /\ (m < n => ~TimesOut(s, m + 1))
    BY <1>0, <1>2
  <1>4. ASSUME NEW i \in 1 .. m PROVE TimesOut(s, i)
    <2>1. i - 1 \in 0 .. n /\ i - 1 # n /\ ~(m <= i - 1) /\ (i - 1) + 1 = i
      BY <1>0, <1>3
    <2>2. i - 1 \notin K
      BY <1>2, <2>1, Zenon
    <2>3. QED
      BY <2>1, <2>2
  <1>5. QED
    BY <1>3, <1>4, Zenon DEF Gone

\* The facts that make a queue sound, one by one.
LEMMA QueueParts ==
  ASSUME NEW s, Queue(s)
  PROVE  /\ s \in QueueType /\ WellTimed(s.sleepq, s.sleep)
         /\ TotalTo(s.sleepq, s.sleep, Len(s.sleepq)) = s.max_sleep_time
         /\ s.last_check_time \in Nat /\ s.max_sleep_time \in Nat
         /\ s.first_wake_usecs \in Nat /\ s.sleepq \in Seq(Thread) /\ s.sleep \in [Thread -> Int]
         /\ s.timeout \in [Thread -> BOOLEAN]
  BY SleepAssumption DEF Queue, QueueType

\* fgmpi_sleepq_check keeps the queue sound, wakes nobody early and takes the
\* time that has passed from everybody else.
LEMMA CheckedQueue ==
  ASSUME NEW s, Queue(s), clock \in 0 .. MaxClock
  PROVE  /\ Queue(Checked(s)) /\ Checked(s).last_check_time = clock /\ Interval(s) \in Nat
         /\ TimedOut(s) \subseteq Range(s.sleepq)
         /\ Range(Checked(s).sleepq) = Range(s.sleepq) \ TimedOut(s)
         /\ \A t \in Thread : Checked(s).timeout[t] <=> s.timeout[t] \/ t \in TimedOut(s)
         /\ \A t \in TimedOut(s) : Left(s, t) <= Interval(s)
         /\ \A t \in Range(s.sleepq) \ TimedOut(s) :
               Left(s, t) >= Interval(s) /\ Left(Checked(s), t) = Left(s, t) - Interval(s)
  <1> DEFINE q == s.sleepq
             w == s.sleep
             n == Len(q)
             g == Gone(s)
             I == Interval(s)
             c == Checked(s)
             r == SubSeq(q, g + 1, n)
             left == I - TotalTo(q, w, g)
             runs == r # <<>> /\ left > 0
             v == [t \in Thread |-> IF t \in TimedOut(s) THEN NotQueued
                                    ELSE IF runs /\ t = Head(r) THEN w[t] - left ELSE w[t]]
  <1>1. /\ s \in QueueType /\ WellTimed(q, w) /\ TotalTo(q, w, n) = s.max_sleep_time
        /\ s.last_check_time \in Nat /\ clock \in Nat /\ s.max_sleep_time \in Nat
        /\ s.first_wake_usecs \in Nat /\ q \in Seq(Thread) /\ w \in [Thread -> Int]
        /\ s.timeout \in [Thread -> BOOLEAN]
    <2>1. clock \in Nat
      BY ONLY SleepAssumption, clock \in 0 .. MaxClock DEF SleepAssumption
    <2>2. QED
      BY ONLY <2>1, Queue(s), QueueParts
  <1>w. WellTimed(q, w)
    BY ONLY <1>1
  <1>2. I \in Nat
    <2>1. s.last_check_time \in Nat /\ clock \in Nat
      BY ONLY <1>1
    <2>2. QED
      BY ONLY <2>1 DEF Interval
  <1>3. /\ c.sleepq = r /\ c.sleep = v /\ c.last_check_time = clock
        /\ c.timeout = [t \in Thread |-> s.timeout[t] \/ t \in TimedOut(s)]
        /\ c.max_sleep_time = IF s.max_sleep_time < I THEN 0 ELSE s.max_sleep_time - I
        /\ c.first_wake_usecs = IF r = <<>> THEN 0
                                ELSE IF runs THEN clock + (w[Head(r)] - left) ELSE s.first_wake_usecs
    <2>1. c.sleepq = r /\ c.last_check_time = clock
      BY Zenon DEF Checked
    <2>2. c.sleep = v
      BY DEF Checked
    <2>3. c.timeout = [t \in Thread |-> s.timeout[t] \/ t \in TimedOut(s)]
      BY DEF Checked
    <2>4. c.max_sleep_time = IF s.max_sleep_time < I THEN 0 ELSE s.max_sleep_time - I
      BY DEF Checked
    <2>5. c.first_wake_usecs = IF r = <<>> THEN 0
                               ELSE IF runs THEN clock + (w[Head(r)] - left) ELSE s.first_wake_usecs
      BY Zenon DEF Checked
    <2> HIDE DEF c, v, r, runs, I, left
    <2>6. QED
      BY ONLY <2>1, <2>2, <2>3, <2>4, <2>5
  <1>4. c = [sleepq |-> c.sleepq, sleep |-> c.sleep, timeout |-> c.timeout,
             max_sleep_time |-> c.max_sleep_time, last_check_time |-> c.last_check_time,
             first_wake_usecs |-> c.first_wake_usecs]
    BY Zenon DEF Checked
  <1>5. /\ n \in Nat /\ \A k \in 1 .. n : q[k] \in Thread /\ q[k] \in Range(q) /\ w[q[k]] \in Nat
        /\ \A k \in 1 .. n : Left(s, q[k]) = TotalTo(q, w, k)
        /\ \A k, j \in 1 .. n : q[k] = q[j] => k = j
        /\ \A u \in Range(q) : \E k \in 1 .. n : q[k] = u
    <2>1. \A t : Left(s, t) = TimeLeft(q, w, t)
      BY DEF Left
    <2> HIDE DEF q, w
    <2>2. /\ n \in Nat /\ \A k \in 1 .. n : q[k] \in Thread /\ q[k] \in Range(q) /\ w[q[k]] \in Nat
          /\ \A k \in 1 .. n : TimeLeft(q, w, q[k]) = TotalTo(q, w, k)
          /\ \A k, j \in 1 .. n : q[k] = q[j] => k = j
          /\ \A u \in Range(q) : \E k \in 1 .. n : q[k] = u
      BY ONLY <1>w, Entries
    <2>3. QED
      BY ONLY <2>1, <2>2, Zenon
  <1>6. \A k \in 0 .. n : TotalTo(q, w, k) \in Nat
    BY ONLY <1>w, TimesGrow
  <1>7. /\ g \in 0 .. n /\ g \in Nat /\ g <= n /\ \A i \in 1 .. g : TimesOut(s, i)
        /\ g < n => ~TimesOut(s, g + 1)
    BY <1>5, GoneFound
  <1> HIDE DEF c, g, I
  <1>8. \A k \in 1 .. g : TotalTo(q, w, k) <= I
    BY <1>7 DEF TimesOut, I
  <1>9. g < n => ~(TotalTo(q, w, g) < I /\ TotalTo(q, w, g + 1) <= I)
    <2>1. (g + 1) - 1 = g
      BY <1>7
    <2>2. TimesOut(s, g + 1) <=> TotalTo(q, w, (g + 1) - 1) < I /\ TotalTo(q, w, g + 1) <= I
      BY DEF TimesOut, I
    <2>3. QED
      BY ONLY <1>7, <2>1, <2>2
  <1>10. TotalTo(q, w, g) \in Nat /\ TotalTo(q, w, g) <= I /\ left \in Nat
    <2>1. TotalTo(q, w, 0) = 0
      BY ONLY <1>1, TimesGrow
    <2>2. g = 0 \/ g \in 1 .. g
      BY <1>7
    <2>3. QED
      BY <1>2, <1>6, <1>7, <1>8, <2>1, <2>2
  <1>11. /\ r \in Seq(Thread) /\ Len(r) = n - g /\ \A k \in 1 .. n - g : r[k] = q[g + k]
         /\ SubSeq(q, 1, g) \in Seq(Thread) /\ Len(SubSeq(q, 1, g)) = g
         /\ \A k \in 1 .. g : SubSeq(q, 1, g)[k] = q[k]
    BY ONLY <1>1, <1>7, Parts
  <1>12. TimedOut(s) = {q[k] : k \in 1 .. g}
    <2>1. DOMAIN SubSeq(q, 1, g) = 1 .. g
      BY <1>11
    <2>2. TimedOut(s) = {SubSeq(q, 1, g)[k] : k \in 1 .. g}
      BY <2>1, Zenon DEF TimedOut, Range, g
    <2>3. QED
      BY ONLY <1>11, <2>2
  <1>13. g < n => r # <<>> /\ Head(r) = q[g + 1]
    <2>1. g < n => 1 \in 1 .. n - g
      BY <1>5, <1>7
    <2>2. g < n => r[1] = q[g + 1] /\ Len(r) > 0
      BY ONLY <1>5, <1>7, <1>11, <2>1
    <2>3. \A z \in Seq(Thread) : Len(z) > 0 => z # <<>> /\ Head(z) = z[1]
      OBVIOUS
    <2>4. QED
      BY ONLY <1>11, <2>2, <2>3
  <1>14. g = n => r = <<>>
    BY <1>5, <1>11
  <1> HIDE DEF r
  <1>15. v \in [Thread -> Int]
    BY <1>1, <1>10 DEF NotQueued
  <1>16. \A k \in 1 .. g : v[q[k]] = NotQueued
    <2>1. \A k \in 1 .. g : k \in 1 .. n
      BY <1>5, <1>7
    <2>2. \A k \in 1 .. g : q[k] \in Thread /\ q[k] \in TimedOut(s)
      BY ONLY <1>5, <1>12, <2>1
    <2>3. QED
      BY <2>2
  <1>17. g < n => v[q[g + 1]] = w[q[g + 1]] - (I - TotalTo(q, w, g))
    <2> SUFFICES ASSUME g < n PROVE v[q[g + 1]] = w[q[g + 1]] - left
      OBVIOUS
    <2>1. g + 1 \in 1 .. n /\ \A k \in 1 .. g : k \in 1 .. n /\ k # g + 1
      BY <1>5, <1>7
    <2>2. q[g + 1] \in Thread /\ q[g + 1] \notin TimedOut(s) /\ w[q[g + 1]] \in Nat
      BY <1>5, <1>12, <2>1
    <2>3. v[q[g + 1]] = IF left > 0 THEN w[q[g + 1]] - left ELSE w[q[g + 1]]
      BY <1>13, <2>2
    <2>4. QED
      BY ONLY <1>10, <2>2, <2>3
  <1>18. ASSUME NEW u \in Thread, \A k \in 1 .. n : k <= g + 1 => u # q[k] PROVE v[u] = w[u]
    <2>1. u \notin TimedOut(s)
      <3>1. \A k \in 1 .. g : k \in 1 .. n /\ k <= g + 1
        BY <1>5, <1>7
      <3>2. QED
        BY <1>12, <1>18, <3>1
    <2>2. ~(runs /\ u = Head(r))
      <3>1. CASE g < n
        <4>1. g + 1 \in 1 .. n /\ g + 1 <= g + 1
          BY <1>5, <1>7, <3>1
        <4>2. QED
          BY <1>13, <1>18, <3>1, <4>1
      <3>2. CASE g = n
        BY <1>14, <3>2
      <3>3. QED
        BY <1>5, <1>7, <3>1, <3>2
    <2>3. QED
      BY <2>1, <2>2
  <1> HIDE DEF v
  <1>19. /\ WellTimed(r, v)
         /\ Range(r) = {q[k] : k \in g + 1 .. n}
         /\ TotalTo(r, v, Len(r)) = (IF TotalTo(q, w, n) < I THEN 0 ELSE TotalTo(q, w, n) - I)
         /\ \A k \in g + 1 .. n : /\ TotalTo(q, w, k) >= I
                                  /\ TimeLeft(r, v, q[k]) = TotalTo(q, w, k) - I
    <2>1. r = SubSeq(q, g + 1, n)
      BY DEF r
    <2> HIDE DEF q, w
    <2>2. \A u \in Thread : (\A k \in 1 .. n : k <= g + 1 => u # q[k]) => v[u] = w[u]
      BY ONLY <1>18
    <2>3. CheckedAs(r, v, q, w, I, g)
      BY ONLY <1>2, <1>7, <1>8, <1>9, <1>15, <1>16, <1>17, <2>1, <2>2 DEF CheckedAs
    <2>4. QED
      BY ONLY <1>w, <2>3, CheckTimes
  <1>20. c.first_wake_usecs \in Nat
    <2>1. CASE r # <<>> /\ left > 0
      <3>1. g < n
        BY <1>5, <1>7, <1>14, <2>1
      <3>2. g + 1 \in 1 .. n /\ 1 \in 1 .. n - g
        BY <1>5, <1>7, <3>1
      <3>3. Head(r) = q[g + 1] /\ q[g + 1] = r[1]
        BY <1>11, <1>13, <3>1, <3>2
      <3>4. v[r[1]] \in Nat
        BY ONLY <1>11, <1>19, <3>2, Entries
      <3>5. v[r[1]] = w[Head(r)] - left
        BY <1>17, <3>1, <3>3
      <3>6. w[Head(r)] \in Nat /\ c.first_wake_usecs = clock + (w[Head(r)] - left)
        BY <1>3, <1>5, <2>1, <3>2, <3>3
      <3>7. QED
        BY ONLY <1>1, <1>10, <3>4, <3>5, <3>6
    <2>2. CASE ~(r # <<>> /\ left > 0)
      BY <1>1, <1>3, <2>2
    <2>3. QED
      BY <2>1, <2>2
  <1>21. Queue(c)
    <2>1. c.max_sleep_time \in Nat
      BY ONLY <1>1, <1>2, <1>3
    <2>2. c.timeout \in [Thread -> BOOLEAN] /\ c.last_check_time \in 0 .. MaxClock
      BY <1>3
    <2>3. c.sleepq \in Seq(Thread) /\ c.sleep \in [Thread -> Int]
      BY <1>3, <1>11, <1>15
    <2>4. c \in QueueType
      BY ONLY <1>4, <1>20, <2>1, <2>2, <2>3 DEF QueueType
    <2>5. WellTimed(c.sleepq, c.sleep) /\ TotalTo(c.sleepq, c.sleep, Len(c.sleepq)) = c.max_sleep_time
      BY ONLY <1>1, <1>3, <1>19
    <2>6. QED
      BY ONLY <2>4, <2>5 DEF Queue
  <1>22. TimedOut(s) \subseteq Range(q) /\ \A t \in TimedOut(s) : Left(s, t) <= I
    <2>1. \A k \in 1 .. g : k \in 1 .. n
      BY <1>5, <1>7
    <2>2. QED
      BY ONLY <1>5, <1>8, <1>12, <2>1
  <1>23. \A t \in Range(q) \ TimedOut(s) : \E k \in g + 1 .. n : t = q[k]
    <2>1. \A k \in 1 .. n : k \in 1 .. g \/ k \in g + 1 .. n
      BY <1>5, <1>7
    <2>2. QED
      BY ONLY <1>5, <1>12, <2>1
  <1>24. Range(r) = Range(q) \ TimedOut(s)
    <2>1. \A k \in g + 1 .. n : k \in 1 .. n /\ k \notin 1 .. g
      BY <1>5, <1>7
    <2>2. \A j \in 1 .. g : j \in 1 .. n
      BY <1>5, <1>7
    <2>3. \A k \in g + 1 .. n : q[k] \in Range(q) /\ q[k] \notin TimedOut(s)
      <3> SUFFICES ASSUME NEW k \in g + 1 .. n PROVE q[k] \in Range(q) /\ q[k] \notin TimedOut(s)
        OBVIOUS
      <3>1. k \in 1 .. n /\ \A j \in 1 .. g : j \in 1 .. n /\ k # j
        BY ONLY <2>1, <2>2, k \in g + 1 .. n
      <3>2. q[k] \in Range(q) /\ \A j \in 1 .. g : q[k] # q[j]
        BY ONLY <1>5, <3>1, Zenon
      <3>3. QED
        BY ONLY <1>12, <3>2
    <2>4. QED
      BY ONLY <1>19, <1>23, <2>3
  <1>25. ASSUME NEW t \in Range(q) \ TimedOut(s) PROVE Left(s, t) >= I /\ Left(c, t) = Left(s, t) - I
    <2>1. PICK k \in g + 1 .. n : t = q[k]
      BY <1>23
    <2>2. k \in 1 .. n
      BY <1>7
    <2>3. Left(c, t) = TimeLeft(r, v, q[k]) /\ Left(s, t) = TotalTo(q, w, k)
      BY <1>3, <1>5, <2>1, <2>2 DEF Left
    <2>4. QED
      BY ONLY <1>19, <2>3, k \in g + 1 .. n
  <1>26. QED
    BY <1>2, <1>3, <1>21, <1>22, <1>24, <1>25, Zenon DEF c, I

\* n is the queue s after t went to sleep for d.
Joins(n, s, t, d) ==
    /\ Queue(n) /\ n.last_check_time = s.last_check_time /\ n.timeout = s.timeout
    /\ Range(n.sleepq) = Range(s.sleepq) \cup {t} /\ Left(n, t) = d
    /\ \A u \in Thread \ {t} : Left(n, u) = Left(s, u)

\* fgmpi_sleepq_add_thread, when d is not below the maximum; its assertion
\* `t->sleep >= 0' holds.
LEMMA AppendedQueue ==
  ASSUME NEW s, Queue(s), NEW t \in Thread, t \notin Range(s.sleepq), NEW d \in Nat,
         d >= s.max_sleep_time
  PROVE  Joins(Appended(s, t, d), s, t, d) /\ Appended(s, t, d).sleep[t] >= 0
  <1> DEFINE q == s.sleepq
             w == s.sleep
             a == Appended(s, t, d)
             r == Append(q, t)
             v == [w EXCEPT ![t] = d - TotalTo(q, w, Len(q))]
  <1>1. /\ s \in QueueType /\ WellTimed(q, w) /\ TotalTo(q, w, Len(q)) = s.max_sleep_time
        /\ s.max_sleep_time \in Nat /\ w \in [Thread -> Int]
    BY DEF Queue, QueueType
  <1>2. a.sleepq = r /\ a.max_sleep_time = d
    BY <1>1 DEF Appended, QueueType
  <1>3. a.sleep = v
    BY <1>1 DEF Appended, QueueType
  <1>4. a.last_check_time = s.last_check_time /\ a.timeout = s.timeout
    BY <1>1 DEF Appended, QueueType
  <1>5. /\ WellTimed(r, v) /\ TotalTo(r, v, Len(r)) = d
        /\ Range(r) = Range(q) \cup {t} /\ TimeLeft(r, v, t) = d
        /\ \A u \in Thread \ {t} : TimeLeft(r, v, u) = TimeLeft(q, w, u)
    <2>1. t \notin Range(q) /\ TotalTo(q, w, Len(q)) <= d
      BY <1>1
    <2>2. AppendingTo(r, v, q, w, t, d)
      BY <2>1 DEF AppendingTo
    <2> HIDE DEF q, w, r, v
    <2>3. QED
      BY ONLY <1>1, <2>1, <2>2, AppendTimes, t \in Thread, d \in Nat
  <1>6. a \in QueueType
    <2>1. v \in [Thread -> Int] /\ r \in Seq(Thread)
      BY ONLY <1>5 DEF WellTimed
    <2>2. a = [s EXCEPT !.sleepq = r, !.sleep = v, !.max_sleep_time = d]
      BY <1>1 DEF Appended, QueueType
    <2> HIDE DEF r, v, a
    <2>3. QED
      BY ONLY <1>1, <2>1, <2>2, d \in Nat, Zenon DEF QueueType
  <1>7. v[t] >= 0
    BY <1>1
  <1> HIDE DEF a, v, r
  <1>8. \A u : Left(a, u) = TimeLeft(r, v, u) /\ Left(s, u) = TimeLeft(q, w, u)
    BY <1>2, <1>3 DEF Left
  <1>9. Queue(a)
    BY ONLY <1>2, <1>3, <1>5, <1>6 DEF Queue
  <1>10. Joins(a, s, t, d)
    BY ONLY <1>2, <1>4, <1>5, <1>8, <1>9 DEF Joins
  <1>11. QED
    BY <1>3, <1>7, <1>10 DEF a

\* The walk from the tail finds a place: an entry whose predecessors add up to no
\* more than d and that itself wakes after d.
LEMMA BeforeFound ==
  ASSUME NEW s, Queue(s), NEW d \in Nat, d < s.max_sleep_time
  PROVE  /\ Before(s, d) \in 1 .. Len(s.sleepq)
         /\ TotalTo(s.sleepq, s.sleep, Before(s, d) - 1) <= d
         /\ d < TotalTo(s.sleepq, s.sleep, Before(s, d))
  <1> DEFINE q == s.sleepq
             w == s.sleep
             n == Len(q)
             P(k) == TotalTo(q, w, k)
             K == {k \in 1 .. n : P(k) > d}
             At(i) == P(i - 1) <= d /\ \A k \in 1 .. n : k > i => P(k - 1) > d
             b == Before(s, d)
  <1>1. WellTimed(q, w) /\ P(n) = s.max_sleep_time /\ s.max_sleep_time \in Nat
    BY DEF Queue, QueueType
  <1>2. n \in Nat /\ DOMAIN q = 1 .. n
    BY ONLY <1>1, Entries
  <1>3. /\ P(0) = 0 /\ \A k \in 0 .. n : P(k) \in Nat
        /\ \A i, j \in 0 .. n : i <= j => P(i) <= P(j)
    BY ONLY <1>1, TimesGrow
  <1>4. b = CHOOSE i \in 1 .. n : At(i)
    BY <1>2 DEF Before
  <1> HIDE DEF P, q, w
  <1>5. P(n) > d
    BY <1>1
  <1>6. n # 0
    BY <1>3, <1>5
  <1>7. K \in SUBSET Nat /\ n \in K
    BY <1>2, <1>5, <1>6
  <1>8. PICK m \in K : \A j \in K : m <= j
    <2>1. K # {}
      BY <1>7
    <2> HIDE DEF K
    <2>2. QED
      BY ONLY <1>7, <2>1, Least
  <1>9. m \in 1 .. n /\ m \in Nat /\ m - 1 \in 0 .. n /\ m \in 0 .. n /\ P(m) > d
    BY <1>2, <1>8
  <1>10. At(m)
    <2>1. P(m - 1) <= d
      <3>1. CASE m = 1
        BY <1>3, <3>1
      <3>2. CASE m # 1
        <4>1. m - 1 \in 1 .. n /\ ~(m <= m - 1)
          BY <1>2, <1>9, <3>2
        <4>2. ~(P(m - 1) > d) /\ P(m - 1) \in Nat
          BY <1>3, <1>8, <1>9, <4>1
        <4>3. QED
          BY ONLY <4>2, d \in Nat
      <3>3. QED
        BY <3>1, <3>2
    <2>2. ASSUME NEW k \in 1 .. n, k > m PROVE P(k - 1) > d
      <3>1. k - 1 \in 0 .. n /\ m <= k - 1
        BY <1>2, <1>9, <2>2
      <3>2. P(m) <= P(k - 1) /\ P(m) \in Nat /\ P(k - 1) \in Nat
        BY ONLY <1>3, <1>9, <3>1
      <3>3. QED
        BY ONLY <1>9, <3>2, d \in Nat
    <2>3. QED
      BY <2>1, <2>2
  <1>11. b \in 1 .. n /\ At(b)
    <2> HIDE DEF At, b
    <2>1. QED
      BY ONLY <1>4, <1>9, <1>10, Zenon
  <1> HIDE DEF b
  <1>12. P(b) > d
    <2>1. CASE b = n
      BY <1>5, <2>1
    <2>2. CASE b # n
      <3>0. b \in 1 .. n /\ n \in Nat
        BY <1>2, <1>11
      <3>1. b + 1 \in 1 .. n /\ b + 1 > b /\ (b + 1) - 1 = b
        BY ONLY <2>2, <3>0
      <3>2. P((b + 1) - 1) > d
        BY ONLY <1>11, <3>1
      <3>3. QED
        BY ONLY <3>1, <3>2
    <2>3. QED
      BY <2>1, <2>2
  <1>13. QED
    <2>1. b \in 0 .. n /\ P(b) \in Nat
      BY <1>2, <1>3, <1>11
    <2>2. QED
      BY <1>11, <1>12, <2>1 DEF P, q, w, b

\* fgmpi_sleepq_add_thread, when d is below the maximum; its assertion that the
\* next entry is positive holds.
LEMMA InsertedQueue ==
  ASSUME NEW s, Queue(s), NEW t \in Thread, t \notin Range(s.sleepq), NEW d \in Nat,
         d < s.max_sleep_time, clock \in Nat
  PROVE  Joins(Inserted(s, t, d), s, t, d) /\ Inserted(s, t, d).sleep[s.sleepq[Before(s, d)]] > 0
  <1> DEFINE q == s.sleepq
             w == s.sleep
             i == Before(s, d)
             total == TotalTo(q, w, i - 1)
             a == Inserted(s, t, d)
             r == ll_insert_before(q, i, t)
             v == [w EXCEPT ![t] = d - total, ![q[i]] = @ - (d - total)]
             first == IF total = 0 THEN clock + d ELSE s.first_wake_usecs
  <1>1. /\ s \in QueueType /\ WellTimed(q, w) /\ TotalTo(q, w, Len(q)) = s.max_sleep_time
        /\ s.max_sleep_time \in Nat /\ w \in [Thread -> Int] /\ s.first_wake_usecs \in Nat
    BY DEF Queue, QueueType
  <1>2. i \in 1 .. Len(q) /\ total <= d /\ d < TotalTo(q, w, i)
    BY BeforeFound
  <1>3. q[i] \in Thread /\ q[i] # t /\ w[q[i]] \in Nat
    <2>1. t \notin Range(q)
      OBVIOUS
    <2> HIDE DEF q, w, i
    <2>2. QED
      BY ONLY <1>1, <1>2, <2>1, Entries
  <1>4. total \in Nat
    <2>1. i - 1 \in 0 .. Len(q)
      <3>1. Len(q) \in Nat
        BY ONLY <1>1, Entries
      <3> HIDE DEF q, i
      <3>2. QED
        BY ONLY <1>2, <3>1
    <2> HIDE DEF q, w, i
    <2>2. QED
      BY ONLY <1>1, <2>1, TimesGrow
  <1>5. a = [s EXCEPT !.sleepq = r, !.sleep = v, !.first_wake_usecs = first]
    BY <1>1, Zenon DEF Inserted, QueueType
  <1>6. first \in Nat
    BY <1>1
  <1>7. /\ v \in [Thread -> Int] /\ v[t] = d - total /\ v[q[i]] = w[q[i]] - (d - total)
        /\ \A u \in Thread \ {t, q[i]} : v[u] = w[u]
    <2> HIDE DEF q, w, i, total
    <2>1. QED
      BY ONLY <1>1, <1>3, <1>4, t \in Thread, d \in Nat
  <1>8. t \notin Range(q)
    OBVIOUS
  <1>8a. r = ll_insert_before(q, i, t)
    OBVIOUS
  <1> HIDE DEF v, q, w, i, r, total
  <1>9. /\ WellTimed(r, v) /\ TotalTo(r, v, Len(r)) = TotalTo(q, w, Len(q))
        /\ Range(r) = Range(q) \cup {t} /\ TimeLeft(r, v, t) = d
        /\ \A u \in Thread \ {t} : TimeLeft(r, v, u) = TimeLeft(q, w, u)
        /\ v[q[i]] > 0
    <2>1. TotalTo(q, w, i - 1) = total
      BY DEF total
    <2>2. InsertingAt(v, q, w, i, t, d)
      BY ONLY <1>2, <1>7, <2>1 DEF InsertingAt
    <2>3. QED
      BY ONLY <1>1, <1>8, <1>8a, <2>2, InsertTimes, t \in Thread, d \in Nat
  <1> HIDE DEF a, first
  <1>10. r \in Seq(Thread)
    BY ONLY <1>9 DEF WellTimed
  <1>11. /\ a \in QueueType /\ a.sleepq = r /\ a.sleep = v /\ a.timeout = s.timeout
         /\ a.last_check_time = s.last_check_time /\ a.max_sleep_time = s.max_sleep_time
    BY ONLY <1>1, <1>5, <1>6, <1>7, <1>10, Zenon DEF QueueType
  <1>12. \A u : Left(a, u) = TimeLeft(r, v, u) /\ Left(s, u) = TimeLeft(q, w, u)
    BY <1>11 DEF Left, q, w
  <1>13. Queue(a)
    BY ONLY <1>1, <1>9, <1>11 DEF Queue
  <1>14. Joins(a, s, t, d)
    BY ONLY <1>9, <1>11, <1>12, <1>13 DEF Joins, q
  <1>15. QED
    BY <1>9, <1>11, <1>14 DEF a, q, i

\* n is the queue s after t left it.
Leaves(n, s, t) ==
    /\ Queue(n) /\ n.last_check_time = s.last_check_time /\ n.timeout = s.timeout
    /\ Range(n.sleepq) = Range(s.sleepq) \ {t}
    /\ \A u \in Thread \ {t} : Left(n, u) = Left(s, u)

\* fgmpi_sleepq_remove_thread keeps the queue sound and everybody else's time.
LEMMA RemovedQueue ==
  ASSUME NEW s, Queue(s), NEW t \in Range(s.sleepq)
  PROVE  Leaves(Removed(s, t), s, t)
  <1> DEFINE q == s.sleepq
             w == s.sleep
             n == Len(q)
             i == CHOOSE k \in DOMAIN q : q[k] = t
             a == Removed(s, t)
             r == ll_remove_entry(q, i)
             v == IF i = n THEN [w EXCEPT ![t] = NotQueued]
                  ELSE [w EXCEPT ![t] = NotQueued, ![q[i + 1]] = @ + w[t]]
             m == s.max_sleep_time - (IF i = n THEN w[t] ELSE 0)
  <1>1. /\ s \in QueueType /\ WellTimed(q, w) /\ TotalTo(q, w, n) = s.max_sleep_time
        /\ s.max_sleep_time \in Nat /\ w \in [Thread -> Int]
    BY DEF Queue, QueueType
  <1>2. /\ n \in Nat /\ DOMAIN q = 1 .. n
        /\ \A k \in 1 .. n : q[k] \in Thread /\ w[q[k]] \in Nat
        /\ \A k, j \in 1 .. n : q[k] = q[j] => k = j
        /\ \E k \in 1 .. n : q[k] = t
    <2>1. t \in Range(q)
      OBVIOUS
    <2> HIDE DEF q, w
    <2>2. QED
      BY ONLY <1>1, <2>1, Entries
  <1>3. i \in 1 .. n /\ q[i] = t
    BY <1>2, Zenon
  <1>4. a = IF i = n
            THEN [s EXCEPT !.sleepq = r, !.sleep[t] = NotQueued, !.max_sleep_time = @ - w[t]]
            ELSE [s EXCEPT !.sleepq = r, !.sleep[t] = NotQueued, !.sleep[q[i + 1]] = @ + w[t]]
    BY Zenon DEF Removed
  <1> HIDE DEF i, q, w
  <1>5. RemovingAt(v, q, w, i)
    <2>0. i < n => i + 1 \in 1 .. n /\ q[i + 1] # t /\ q[i + 1] \in Thread /\ w[q[i + 1]] \in Nat
      <3>1. i < n => i + 1 \in 1 .. n /\ i + 1 # i
        BY <1>2, <1>3
      <3>2. QED
        BY ONLY <1>2, <1>3, <3>1
    <2>1. t \in Thread /\ w[t] \in Nat /\ NotQueued \in Int
      BY <1>2, <1>3 DEF NotQueued
    <2>2. i = n \/ (i < n /\ i # n)
      <3>1. n \in Nat /\ i \in 1 .. n
        BY ONLY <1>2, <1>3
      <3> HIDE DEF n
      <3>2. QED
        BY ONLY <3>1
    <2>3. v \in [Thread -> Int] /\ v[t] = NotQueued
      <3>1. CASE i = n
        BY <1>1, <2>1, <3>1
      <3>2. CASE i < n /\ i # n
        BY <1>1, <2>0, <2>1, <3>2
      <3>3. QED
        BY <2>2, <3>1, <3>2
    <2>4. i < n => v[q[i + 1]] = w[q[i + 1]] + w[t]
      BY <1>1, <2>0, <2>1, <2>2
    <2>5. ASSUME NEW u \in Thread, u # t, i < n => u # q[i + 1] PROVE v[u] = w[u]
      BY <1>1, <2>0, <2>2, <2>5
    <2> HIDE DEF v
    <2>6. QED
      BY <1>3, <2>3, <2>4, <2>5 DEF RemovingAt
  <1> HIDE DEF v
  <1>6. /\ WellTimed(r, v) /\ Range(r) = Range(q) \ {t}
        /\ TotalTo(r, v, Len(r)) = m
        /\ \A u \in Thread \ {t} : TimeLeft(r, v, u) = TimeLeft(q, w, u)
    <2>1. r = ll_remove_entry(q, i)
      OBVIOUS
    <2> HIDE DEF r
    <2>2. /\ WellTimed(r, v) /\ Range(r) = Range(q) \ {q[i]}
          /\ TotalTo(r, v, Len(r)) = TotalTo(q, w, Len(q)) - (IF i = Len(q) THEN w[q[i]] ELSE 0)
          /\ \A u \in Thread \ {q[i]} : TimeLeft(r, v, u) = TimeLeft(q, w, u)
      BY ONLY <1>1, <1>5, <2>1, RemoveTimes
    <2>3. QED
      BY ONLY <1>1, <1>3, <2>2
  <1> HIDE DEF r, a, m
  <1>7. m \in Nat
    <2>1. Len(r) \in 0 .. Len(r)
      <3>1. Len(r) \in Nat
        BY ONLY <1>6, Entries
      <3>2. QED
        BY ONLY <3>1
    <2>2. QED
      BY ONLY <1>6, <2>1, TimesGrow
  <1>8. r \in Seq(Thread) /\ v \in [Thread -> Int]
    BY ONLY <1>6 DEF WellTimed
  <1>9. /\ a \in QueueType /\ a.sleepq = r /\ a.sleep = v /\ a.timeout = s.timeout
        /\ a.last_check_time = s.last_check_time /\ a.max_sleep_time = m
    <2>1. CASE i = n
      <3>1. a = [s EXCEPT !.sleepq = r, !.sleep = v, !.max_sleep_time = m]
        BY <1>1, <1>4, <2>1 DEF v, m, w, QueueType
      <3>2. QED
        BY ONLY <1>1, <1>7, <1>8, <3>1, Zenon DEF QueueType
    <2>2. CASE i # n
      <3>1. a = [s EXCEPT !.sleepq = r, !.sleep = v]
        BY <1>1, <1>4, <2>2, Zenon DEF v, QueueType, w
      <3>2. m = s.max_sleep_time
        BY <1>1, <2>2 DEF m
      <3>3. QED
        BY ONLY <1>1, <1>8, <3>1, <3>2, Zenon DEF QueueType
    <2>3. QED
      BY <2>1, <2>2
  <1>10. \A u : Left(a, u) = TimeLeft(r, v, u) /\ Left(s, u) = TimeLeft(q, w, u)
    BY <1>9 DEF Left, q, w
  <1>11. Queue(a)
    BY ONLY <1>6, <1>9 DEF Queue
  <1>12. Leaves(a, s, t)
    BY ONLY <1>6, <1>9, <1>10, <1>11 DEF Leaves, q
  <1>13. QED
    BY <1>12 DEF a

-----------------------------------------------------------------------------
\* The inductive invariant: the queue is sound, holds exactly the threads that
\* are asleep, and t->timeout tells who woke a thread.
IInv ==
    /\ Queue(tq)
    /\ clock \in 0 .. MaxClock
    /\ place \in [Thread -> {"running", "asleep", "runnable"}]
    /\ wokenBy \in [Thread -> {"nobody", "timer", "resume"}]
    /\ failed \in {"none", "sanity", "insert"}
    /\ \A t \in Thread : t \in Range(tq.sleepq) <=> place[t] = "asleep"
    /\ TimeoutTellsWho

\* A step that ends in one of the two assertions that can fail.
Fails == \E broken \in SUBSET {"sanity", "insert"} : broken # {} /\ Abort(broken)

\* A sleeper has some time left; a thread that is not in the queue has none, and
\* its t->sleep is -1.
LEMMA LeftOf ==
  ASSUME NEW s, Queue(s), NEW t \in Thread
  PROVE  /\ Left(s, t) \in Int
         /\ t \in Range(s.sleepq) => Left(s, t) \in Nat
         /\ t \notin Range(s.sleepq) => Left(s, t) = NotQueued /\ s.sleep[t] = NotQueued
  <1> DEFINE q == s.sleepq
             w == s.sleep
  <1>1. WellTimed(q, w)
    BY DEF Queue
  <1>2. Left(s, t) = TimeLeft(q, w, t)
    BY DEF Left
  <1>3. t \notin Range(q) => w[t] = NotQueued
    BY <1>1 DEF WellTimed
  <1> HIDE DEF q, w
  <1>4. /\ Len(q) \in Nat /\ \A k \in 1 .. Len(q) : TimeLeft(q, w, q[k]) = TotalTo(q, w, k)
        /\ \A u \in Range(q) : \E k \in 1 .. Len(q) : q[k] = u
        /\ \A u : u \notin Range(q) => TimeLeft(q, w, u) = NotQueued
    BY ONLY <1>1, Entries
  <1>5. \A k \in 0 .. Len(q) : TotalTo(q, w, k) \in Nat
    BY ONLY <1>1, TimesGrow
  <1>6. ASSUME t \in Range(q) PROVE TimeLeft(q, w, t) \in Nat
    <2>1. PICK k \in 1 .. Len(q) : q[k] = t
      BY <1>4, <1>6
    <2>2. k \in 0 .. Len(q)
      BY <1>4
    <2>3. QED
      BY <1>4, <1>5, <2>1, <2>2
  <1>7. QED
    BY <1>2, <1>3, <1>4, <1>6 DEF NotQueued, q, w

\* The program starts with an empty, sound queue.
LEMMA InitIInv ==
  Init => IInv
  <1> SUFFICES ASSUME Init PROVE IInv
    OBVIOUS
  <1> DEFINE e == <<>>
             w == [t \in Thread |-> NotQueued]
  <1>1. e \in Seq(Thread) /\ Len(e) = 0 /\ Range(e) = {} /\ IsInjective(e)
    BY DEF Range, IsInjective
  <1>2. WellTimed(e, w)
    BY <1>1 DEF WellTimed, NotQueued
  <1>3. TotalTo(e, w, Len(e)) = 0
    <2> HIDE DEF e, w
    <2>1. TotalTo(e, w, 0) = 0
      BY ONLY <1>2, TimesGrow
    <2>2. QED
      BY ONLY <1>1, <2>1
  <1>4. /\ tq.sleepq = e /\ tq.sleep = w /\ tq.max_sleep_time = 0
        /\ tq.timeout = [t \in Thread |-> FALSE]
    BY DEF Init
  <1>5. tq \in QueueType
    <2>1. 0 \in 0 .. MaxClock /\ w \in [Thread -> Int]
      BY SleepAssumption DEF NotQueued
    <2>2. QED
      BY <1>1, <2>1 DEF Init, QueueType
  <1>6. Queue(tq)
    <2> HIDE DEF e, w
    <2>1. QED
      BY <1>2, <1>3, <1>4, <1>5 DEF Queue
  <1>7. \A t \in Thread : t \in Range(tq.sleepq) <=> place[t] = "asleep"
    BY <1>1, <1>4 DEF Init
  <1>8. TimeoutTellsWho
    BY <1>4 DEF Init, TimeoutTellsWho
  <1>9. QED
    BY <1>6, <1>7, <1>8 DEF Init, IInv

\* A failing assertion changes nothing but failed.
LEMMA FailsIInv ==
  ASSUME IInv, Fails
  PROVE  IInv'
  <1>1. PICK broken \in SUBSET {"sanity", "insert"} : broken # {} /\ Abort(broken)
    BY DEF Fails
  <1>2. failed' \in broken /\ tq' = tq /\ clock' = clock /\ place' = place /\ wokenBy' = wokenBy
    BY <1>1 DEF Abort
  <1>3. QED
    BY <1>2 DEF IInv, TimeoutTellsWho

\* The threads that timed out are made runnable and flagged, the caller, if any,
\* goes to sleep: the invariant holds if the new queue is sound.
LEMMA WakeIInv ==
  ASSUME IInv, NEW sleeper \in SUBSET Thread, Queue(tq'),
         TimedOut(tq) \subseteq Range(tq.sleepq),
         Range(tq'.sleepq) = (Range(tq.sleepq) \ TimedOut(tq)) \cup sleeper,
         \A t \in Thread : tq'.timeout[t] <=> tq.timeout[t] \/ t \in TimedOut(tq),
         \A t \in sleeper : place[t] = "running",
         Places(TimedOut(tq), sleeper), UNCHANGED <<clock, failed>>
  PROVE  IInv'
  <1>1. /\ \A t \in Thread : t \in Range(tq.sleepq) <=> place[t] = "asleep"
        /\ \A t \in Thread : tq.timeout[t] <=> place[t] = "runnable" /\ wokenBy[t] = "timer"
    BY DEF IInv, TimeoutTellsWho
  <1>2. /\ place' = [t \in Thread |-> IF t \in sleeper THEN "asleep"
                                      ELSE IF t \in TimedOut(tq) THEN "runnable" ELSE place[t]]
        /\ wokenBy' = [t \in Thread |-> IF t \in sleeper THEN "nobody"
                                        ELSE IF t \in TimedOut(tq) THEN "timer" ELSE wokenBy[t]]
    BY DEF Places
  <1>3. /\ place' \in [Thread -> {"running", "asleep", "runnable"}]
        /\ wokenBy' \in [Thread -> {"nobody", "timer", "resume"}]
    BY <1>2 DEF IInv
  <1>4. \A t \in Thread : t \in Range(tq'.sleepq) <=> place'[t] = "asleep"
    BY <1>1, <1>2
  <1>5. \A t \in Thread : tq'.timeout[t] <=> place'[t] = "runnable" /\ wokenBy'[t] = "timer"
    <2> SUFFICES ASSUME NEW t \in Thread
                 PROVE  tq'.timeout[t] <=> place'[t] = "runnable" /\ wokenBy'[t] = "timer"
      OBVIOUS
    <2>1. CASE t \in sleeper
      <3>1. place[t] = "running" /\ t \notin TimedOut(tq) /\ place'[t] = "asleep"
        BY <1>1, <1>2, <2>1
      <3>2. QED
        BY <1>1, <3>1
    <2>2. CASE t \notin sleeper /\ t \in TimedOut(tq)
      BY <1>2, <2>2
    <2>3. CASE t \notin sleeper /\ t \notin TimedOut(tq)
      BY <1>1, <1>2, <2>3
    <2>4. QED
      BY <2>1, <2>2, <2>3
  <1>6. QED
    BY <1>3, <1>4, <1>5 DEF IInv, TimeoutTellsWho

\* The outcomes of fgmpi_sleepq_check: an assertion, its shortcut or a check.
LEMMA CheckCases ==
  ASSUME IInv, fgmpi_sleepq_check
  PROVE  \/ Fails
         \/ /\ tq' = [tq EXCEPT !.first_wake_usecs = 0]
            /\ UNCHANGED <<clock, place, wokenBy, failed>>
         \/ tq' = Checked(tq) /\ Places(TimedOut(tq), {}) /\ UNCHANGED <<clock, failed>>
  <1> DEFINE broken == Assertion("sanity", Sane(tq) /\ Sane(Checked(tq)))
  <1>1. broken \in SUBSET {"sanity", "insert"}
    BY DEF Assertion
  <1>2. CASE broken # {} /\ Abort(broken)
    BY <1>1, <1>2 DEF Fails
  <1>3. \/ broken # {} /\ Abort(broken)
        \/ /\ tq' = [tq EXCEPT !.first_wake_usecs = 0]
           /\ UNCHANGED <<clock, place, wokenBy, failed>>
        \/ tq' = Checked(tq) /\ Places(TimedOut(tq), {}) /\ UNCHANGED <<clock, failed>>
    BY Zenon DEF fgmpi_sleepq_check
  <1>4. QED
    BY <1>2, <1>3

\* The outcomes of thread_resume: only the sanity check can fail.
LEMMA ResumeCases ==
  ASSUME IInv, NEW t \in Thread, thread_resume(t)
  PROVE  /\ t \in Range(tq.sleepq) /\ place[t] = "asleep"
         /\ \/ Fails
            \/ /\ tq' = Removed(tq, t) /\ Leaves(tq', tq, t)
               /\ place' = [place EXCEPT ![t] = "runnable"]
               /\ wokenBy' = [wokenBy EXCEPT ![t] = "resume"]
               /\ UNCHANGED <<clock, failed>>
  <1> DEFINE broken == Assertion("sanity", Sane(tq) /\ Sane(Removed(tq, t)))
                       \cup Assertion("timeout", ~tq.timeout[t])
  <1>1. place[t] = "asleep" /\ t \in Range(tq.sleepq) /\ ~tq.timeout[t]
    BY DEF thread_resume, IInv, TimeoutTellsWho
  <1>2. broken \in SUBSET {"sanity", "insert"}
    BY <1>1 DEF Assertion
  <1>3. CASE broken # {} /\ Abort(broken)
    BY <1>1, <1>2, <1>3 DEF Fails
  <1>4. Leaves(Removed(tq, t), tq, t)
    BY ONLY <1>1, RemovedQueue, IInv DEF IInv
  <1>5. \/ broken # {} /\ Abort(broken)
        \/ /\ tq' = Removed(tq, t)
           /\ place' = [place EXCEPT ![t] = "runnable"]
           /\ wokenBy' = [wokenBy EXCEPT ![t] = "resume"]
           /\ UNCHANGED <<clock, failed>>
    BY Zenon DEF thread_resume
  <1>6. QED
    BY <1>1, <1>3, <1>4, <1>5

\* The outcomes of thread_usleep: of its assertions only the sanity check and
\* the one after an insertion can fail.
LEMMA UsleepCases ==
  ASSUME IInv, NEW t \in Thread, NEW d \in Timeout, thread_usleep(t, d)
  PROVE  /\ t \notin Range(tq.sleepq) /\ place[t] = "running"
         /\ \/ Fails
            \/ /\ Joins(tq', Checked(tq), t, d)
               /\ Places(TimedOut(tq), {t}) /\ UNCHANGED <<clock, failed>>
  <1> DEFINE s       == Checked(tq)
             appends == d >= s.max_sleep_time
             n       == IF appends THEN Appended(s, t, d) ELSE Inserted(s, t, d)
             next    == s.sleepq[Before(s, d)]
             early   == Assertion("sanity", Sane(tq) /\ Sane(s))
                        \cup Assertion("queued", s.sleep[t] = NotQueued)
             late    == IF appends
                        THEN Assertion("append", n.sleep[t] >= 0)
                        ELSE Assertion("insert", n.sleep[t] > 0)
                             \cup Assertion("next", n.sleep[next] > 0)
             broken  == IF early # {} THEN early ELSE late \cup Assertion("sanity", Sane(n))
  <1>1. place[t] = "running" /\ t \notin Range(tq.sleepq)
    BY Zenon DEF thread_usleep, IInv
  <1>2. \/ broken # {} /\ Abort(broken)
        \/ tq' = n /\ Places(TimedOut(tq), {t}) /\ UNCHANGED <<clock, failed>>
    BY Zenon DEF thread_usleep
  <1>3. Queue(s) /\ t \notin Range(s.sleepq)
    <2>1. Queue(tq) /\ clock \in 0 .. MaxClock
      BY DEF IInv
    <2>2. Queue(s) /\ Range(s.sleepq) = Range(tq.sleepq) \ TimedOut(tq)
      BY ONLY <2>1, CheckedQueue
    <2>3. QED
      BY <1>1, <2>2, Zenon
  <1>4. d \in Nat /\ clock \in Nat /\ s.max_sleep_time \in Nat
    BY <1>3, SleepAssumption DEF IInv, Queue, QueueType
  <1>5. s.sleep[t] = NotQueued
    BY ONLY <1>3, LeftOf, t \in Thread
  <1> HIDE DEF s
  <1>6. CASE appends
    <2>1. Joins(n, s, t, d) /\ n.sleep[t] >= 0
      <3>1. Joins(Appended(s, t, d), s, t, d) /\ Appended(s, t, d).sleep[t] >= 0
        BY ONLY <1>3, <1>4, <1>6, AppendedQueue, t \in Thread
      <3>2. QED
        BY <1>6, <3>1
    <2> HIDE DEF n
    <2>2. broken \in SUBSET {"sanity", "insert"}
      BY <1>5, <1>6, <2>1 DEF Assertion
    <2> HIDE DEF broken
    <2>3. QED
      BY <1>1, <1>2, <2>1, <2>2 DEF Fails, s
  <1>7. CASE ~appends
    <2>1. d < s.max_sleep_time
      BY <1>4, <1>7
    <2>2. Joins(n, s, t, d) /\ n.sleep[next] > 0
      <3>1. Joins(Inserted(s, t, d), s, t, d) /\ Inserted(s, t, d).sleep[next] > 0
        BY ONLY <1>3, <1>4, <2>1, InsertedQueue, t \in Thread
      <3>2. QED
        BY <1>7, <3>1
    <2> HIDE DEF n, next
    <2>3. broken \in SUBSET {"sanity", "insert"}
      BY <1>5, <1>7, <2>2 DEF Assertion
    <2> HIDE DEF broken
    <2>4. QED
      BY <1>1, <1>2, <2>2, <2>3, Zenon DEF Fails, s
  <1>8. QED
    BY <1>6, <1>7

\* CheckedQueue, for the queue of the program.
LEMMA CheckedNow ==
  ASSUME IInv
  PROVE  /\ Queue(Checked(tq)) /\ Checked(tq).last_check_time = clock /\ Interval(tq) \in Nat
         /\ TimedOut(tq) \subseteq Range(tq.sleepq)
         /\ Range(Checked(tq).sleepq) = Range(tq.sleepq) \ TimedOut(tq)
         /\ \A t \in Thread : Checked(tq).timeout[t] <=> tq.timeout[t] \/ t \in TimedOut(tq)
         /\ \A t \in TimedOut(tq) : Left(tq, t) <= Interval(tq)
         /\ \A t \in Range(tq.sleepq) \ TimedOut(tq) :
               Left(tq, t) >= Interval(tq) /\ Left(Checked(tq), t) = Left(tq, t) - Interval(tq)
  <1>1. Queue(tq) /\ clock \in 0 .. MaxClock
    BY DEF IInv
  <1>2. QED
    BY ONLY <1>1, CheckedQueue

\* fgmpi_sleepq_check preserves the invariant.
LEMMA CheckIInv ==
  ASSUME IInv, fgmpi_sleepq_check
  PROVE  IInv'
  <1>1. CASE Fails
    BY <1>1, FailsIInv
  <1>2. CASE tq' = [tq EXCEPT !.first_wake_usecs = 0] /\ UNCHANGED <<clock, place, wokenBy, failed>>
    <2>1. tq \in QueueType
      BY DEF IInv, Queue
    <2>2. /\ tq' \in QueueType /\ tq'.sleepq = tq.sleepq /\ tq'.sleep = tq.sleep
          /\ tq'.timeout = tq.timeout /\ tq'.max_sleep_time = tq.max_sleep_time
      BY <1>2, <2>1, Zenon DEF QueueType
    <2>3. Queue(tq')
      BY <2>2 DEF IInv, Queue
    <2>4. QED
      BY <1>2, <2>2, <2>3 DEF IInv, TimeoutTellsWho
  <1>3. CASE tq' = Checked(tq) /\ Places(TimedOut(tq), {}) /\ UNCHANGED <<clock, failed>>
    <2>1. /\ Queue(tq') /\ TimedOut(tq) \subseteq Range(tq.sleepq)
          /\ Range(tq'.sleepq) = (Range(tq.sleepq) \ TimedOut(tq)) \cup {}
          /\ \A t \in Thread : tq'.timeout[t] <=> tq.timeout[t] \/ t \in TimedOut(tq)
      BY <1>3, CheckedNow
    <2>2. {} \in SUBSET Thread /\ \A t \in {} : place[t] = "running"
      OBVIOUS
    <2>3. QED
      BY ONLY <1>3, <2>1, <2>2, WakeIInv, IInv
  <1>4. QED
    BY <1>1, <1>2, <1>3, CheckCases

\* thread_usleep preserves the invariant.
LEMMA UsleepIInv ==
  ASSUME IInv, NEW t \in Thread, NEW d \in Timeout, thread_usleep(t, d)
  PROVE  IInv'
  <1>1. CASE Fails
    BY <1>1, FailsIInv
  <1>2. CASE /\ Joins(tq', Checked(tq), t, d)
             /\ Places(TimedOut(tq), {t}) /\ UNCHANGED <<clock, failed>>
    <2>1. /\ Queue(tq') /\ TimedOut(tq) \subseteq Range(tq.sleepq)
          /\ Range(tq'.sleepq) = (Range(tq.sleepq) \ TimedOut(tq)) \cup {t}
          /\ \A u \in Thread : tq'.timeout[u] <=> tq.timeout[u] \/ u \in TimedOut(tq)
      BY <1>2, CheckedNow DEF Joins
    <2>2. {t} \in SUBSET Thread /\ \A u \in {t} : place[u] = "running"
      BY UsleepCases, Zenon
    <2>3. QED
      BY ONLY <1>2, <2>1, <2>2, WakeIInv, IInv, Zenon
  <1>3. QED
    BY <1>1, <1>2, UsleepCases

\* thread_resume preserves the invariant.
LEMMA ResumeIInv ==
  ASSUME IInv, NEW t \in Thread, thread_resume(t)
  PROVE  IInv'
  <1>1. CASE Fails
    BY <1>1, FailsIInv
  <1>2. CASE /\ Leaves(tq', tq, t)
             /\ place' = [place EXCEPT ![t] = "runnable"]
             /\ wokenBy' = [wokenBy EXCEPT ![t] = "resume"]
             /\ UNCHANGED <<clock, failed>>
    <2>1. Queue(tq') /\ tq'.timeout = tq.timeout /\ Range(tq'.sleepq) = Range(tq.sleepq) \ {t}
      BY <1>2 DEF Leaves
    <2>2. /\ place' \in [Thread -> {"running", "asleep", "runnable"}]
          /\ wokenBy' \in [Thread -> {"nobody", "timer", "resume"}]
      BY <1>2 DEF IInv
    <2>3. \A u \in Thread : u \in Range(tq'.sleepq) <=> place'[u] = "asleep"
      BY <1>2, <2>1 DEF IInv
    <2>4. \A u \in Thread : tq'.timeout[u] <=> place'[u] = "runnable" /\ wokenBy'[u] = "timer"
      <3>1. place[t] = "asleep"
        BY ResumeCases
      <3>2. QED
        BY <1>2, <2>1, <3>1 DEF IInv, TimeoutTellsWho
    <2>5. QED
      BY <1>2, <2>1, <2>2, <2>3, <2>4 DEF IInv, TimeoutTellsWho
  <1>3. QED
    BY <1>1, <1>2, ResumeCases

\* The return from thread_usleep preserves the invariant.
LEMMA ReturnIInv ==
  ASSUME IInv, NEW t \in Thread, thread_usleep_return(t)
  PROVE  IInv'
  <1>1. tq \in QueueType
    BY DEF IInv, Queue
  <1>2. /\ tq' \in QueueType /\ tq'.sleepq = tq.sleepq /\ tq'.sleep = tq.sleep
        /\ tq'.max_sleep_time = tq.max_sleep_time
        /\ tq'.timeout = [tq.timeout EXCEPT ![t] = FALSE]
    BY <1>1, Zenon DEF thread_usleep_return, QueueType
  <1>3. Queue(tq')
    BY <1>2 DEF IInv, Queue
  <1>4. /\ place' = [place EXCEPT ![t] = "running"] /\ place[t] = "runnable"
        /\ wokenBy' = [wokenBy EXCEPT ![t] = "nobody"] /\ clock' = clock /\ failed' = failed
    BY DEF thread_usleep_return
  <1>5. \A u \in Thread : u \in Range(tq'.sleepq) <=> place'[u] = "asleep"
    BY <1>2, <1>4 DEF IInv
  <1>6. \A u \in Thread : tq'.timeout[u] <=> place'[u] = "runnable" /\ wokenBy'[u] = "timer"
    <2>1. tq.timeout \in [Thread -> BOOLEAN]
      BY <1>1 DEF QueueType
    <2>2. QED
      BY <1>2, <1>4, <2>1 DEF IInv, TimeoutTellsWho
  <1>7. QED
    BY <1>3, <1>4, <1>5, <1>6 DEF IInv, TimeoutTellsWho

\* Every step preserves the invariant.
LEMMA NextIInv ==
  IInv /\ [Next]_vars => IInv'
  <1> SUFFICES ASSUME IInv, [Next]_vars PROVE IInv'
    OBVIOUS
  <1>1. CASE fgmpi_sleepq_check
    BY <1>1, CheckIInv
  <1>2. CASE current_usecs
    BY <1>2 DEF current_usecs, IInv, TimeoutTellsWho
  <1>3. CASE UNCHANGED vars
    BY <1>3 DEF vars, IInv, TimeoutTellsWho
  <1>4. ASSUME NEW t \in Thread, NEW d \in Timeout, thread_usleep(t, d) PROVE IInv'
    BY <1>4, UsleepIInv
  <1>5. ASSUME NEW t \in Thread, thread_resume(t) PROVE IInv'
    BY <1>5, ResumeIInv
  <1>6. ASSUME NEW t \in Thread, thread_usleep_return(t) PROVE IInv'
    BY <1>6, ReturnIInv
  <1>7. QED
    BY <1>1, <1>2, <1>3, <1>4, <1>5, <1>6 DEF Next, Stopped

\* The invariant of the sleep queue holds throughout, for every set of threads,
\* every set of timeouts and a clock that may be set back, with and without
\* assertions compiled in.
THEOREM InductiveInvariant ==
  Spec => []IInv
  BY InitIInv, NextIInv, PTL DEF Spec

\* The invariant contains DeltasAddUp.
LEMMA IInvDeltas ==
  IInv => DeltasAddUp
  BY DEF IInv, Queue, QueueType, WellTimed, DeltasAddUp

\* The invariant contains TypeOK.
LEMMA IInvTypeOK ==
  IInv => TypeOK
  <1> SUFFICES ASSUME IInv PROVE TypeOK
    OBVIOUS
  <1>1. tq \in QueueType
    BY DEF IInv, Queue
  <1>2. QED
    BY <1>1 DEF IInv, QueueType, TypeOK

\* The check that threadlib.c:924-939 keeps disabled would never fail: the
\* entries add up to max_sleep_time, none is negative, and t->sleep is set for
\* exactly the sleepers.
THEOREM EntriesAddUp ==
  Spec => []DeltasAddUp
  BY InductiveInvariant, IInvDeltas, PTL

\* _thread_yield_internal tells a thread that it timed out if and only if the
\* timer ended its sleep.
THEOREM TimeoutIsTold ==
  Spec => []TimeoutTellsWho
  <1>1. IInv => TimeoutTellsWho
    BY DEF IInv
  <1>2. QED
    BY <1>1, InductiveInvariant, PTL

\* Types, and that of the assertions of the sleep queue only two can ever fail:
\* the sanity check and `t->sleep > 0' after an insertion.  Those that a thread
\* is not queued twice, that an appended entry is not negative, that the entry
\* after an inserted one is positive and that a resumed thread has not timed
\* out always hold.
THEOREM TwoAssertions ==
  Spec => []TypeOK
  BY InductiveInvariant, IInvTypeOK, PTL

-----------------------------------------------------------------------------
\* What every thread has left: the timers that the queue stands for.
LeftAll(s) == [t \in Thread |-> Left(s, t)]

\* The refinement mapping is what every thread has left.
LEMMA RemainingIs ==
  Remaining = LeftAll(tq) /\ Remaining' = LeftAll(tq')
  BY DEF Remaining, LeftAll, Left, TimeLeft

\* A step that changes neither the entries nor the clock is no step of the
\* timers.
LEMMA TimersStay ==
  ASSUME IInv, tq'.sleepq = tq.sleepq, tq'.sleep = tq.sleep,
         tq'.last_check_time = tq.last_check_time, clock' = clock
  PROVE  UNCHANGED <<Remaining, clock, tq.last_check_time>>
  BY RemainingIs DEF LeftAll, Left

\* fgmpi_sleepq_check is a look at the timers.
LEMMA TimersLook ==
  ASSUME IInv, NEW t \in Thread
  PROVE  LeftAll(Checked(tq))[t] \in T!TimeLeft(t)
  <1>1. /\ Queue(Checked(tq)) /\ Interval(tq) \in Nat /\ TimedOut(tq) \subseteq Range(tq.sleepq)
        /\ Range(Checked(tq).sleepq) = Range(tq.sleepq) \ TimedOut(tq)
        /\ \A u \in TimedOut(tq) : Left(tq, u) <= Interval(tq)
        /\ \A u \in Range(tq.sleepq) \ TimedOut(tq) :
              Left(tq, u) >= Interval(tq) /\ Left(Checked(tq), u) = Left(tq, u) - Interval(tq)
    BY CheckedNow
  <1>2. Queue(tq)
    BY DEF IInv
  <1>3. /\ LeftAll(Checked(tq))[t] = Left(Checked(tq), t)
        /\ Left(tq, t) \in Int
        /\ t \notin Range(tq.sleepq) => Left(tq, t) = NotQueued
        /\ t \notin Range(Checked(tq).sleepq) => Left(Checked(tq), t) = NotQueued
    <2>1. LeftAll(Checked(tq))[t] = Left(Checked(tq), t)
      BY DEF LeftAll
    <2>2. QED
      BY ONLY <1>1, <1>2, <2>1, LeftOf, t \in Thread
  <1>4. T!Passed = Interval(tq)
    BY DEF T!Passed, Interval
  <1>5. Remaining[t] = Left(tq, t)
    BY RemainingIs DEF LeftAll
  <1>6. T!TimeLeft(t) = IF Left(tq, t) > Interval(tq) THEN {Left(tq, t) - Interval(tq)}
                        ELSE IF Left(tq, t) = Interval(tq) THEN {0, NotQueued} ELSE {NotQueued}
    BY <1>4, <1>5 DEF T!TimeLeft, T!Off, NotQueued
  <1>7. CASE t \in Range(tq.sleepq) \ TimedOut(tq)
    <2>1. Left(tq, t) >= Interval(tq) /\ Left(Checked(tq), t) = Left(tq, t) - Interval(tq)
      BY <1>1, <1>7
    <2>2. QED
      BY ONLY <1>1, <1>3, <1>6, <2>1
  <1>8. CASE t \in TimedOut(tq)
    <2>1. Left(tq, t) <= Interval(tq) /\ Left(Checked(tq), t) = NotQueued
      BY <1>1, <1>3, <1>8
    <2>2. QED
      BY ONLY <1>1, <1>3, <1>6, <2>1
  <1>9. CASE t \notin Range(tq.sleepq)
    <2>1. Left(tq, t) = NotQueued /\ Left(Checked(tq), t) = NotQueued /\ ~(NotQueued >= Interval(tq))
      BY <1>1, <1>3, <1>9 DEF NotQueued
    <2>2. QED
      BY <1>1, <1>3, <1>6, <2>1 DEF NotQueued
  <1>10. QED
    BY <1>7, <1>8, <1>9

\* Nobody has a timer at the start.
LEMMA TimersInit ==
  Init => T!Init
  <1> SUFFICES ASSUME Init PROVE T!Init
    OBVIOUS
  <1>1. Queue(tq) /\ clock \in Nat
    BY InitIInv, SleepAssumption DEF IInv, Init
  <1>2. Range(tq.sleepq) = {} /\ tq.last_check_time = 0
    BY DEF Init, Range
  <1>3. Remaining = [t \in Thread |-> T!Off]
    BY <1>2 DEF Remaining, T!Off, NotQueued
  <1>4. QED
    BY <1>1, <1>2, <1>3 DEF T!Init

\* Every step of the queue is a step of the timers or none.
LEMMA TimersStep ==
  ASSUME IInv, [Next]_vars
  PROVE  [T!Next]_<<Remaining, clock, tq.last_check_time>>
  <1> DEFINE stays == UNCHANGED <<Remaining, clock, tq.last_check_time>>
  <1>0. IInv'
    BY NextIInv
  <1>a. Remaining = LeftAll(tq) /\ Remaining' = LeftAll(tq')
    BY RemainingIs
  <1>b. \A u \in Thread : Left(tq, u) \in Int /\ Left(tq', u) \in Int
    <2>1. Queue(tq) /\ Queue(tq')
      BY <1>0 DEF IInv
    <2>2. QED
      BY ONLY <2>1, LeftOf
  <1>1. CASE tq' = tq /\ clock' = clock
    BY <1>1, TimersStay
  <1>2. ASSUME Fails PROVE stays
    <2>1. tq' = tq /\ clock' = clock
      BY <1>2 DEF Fails, Abort
    <2>2. QED
      BY <2>1, TimersStay
  <1>3. CASE fgmpi_sleepq_check
    <2>1. CASE tq' = [tq EXCEPT !.first_wake_usecs = 0] /\ UNCHANGED <<clock, place, wokenBy, failed>>
      <3>1. tq \in QueueType
        BY DEF IInv, Queue
      <3>2. /\ tq'.sleepq = tq.sleepq /\ tq'.sleep = tq.sleep
            /\ tq'.last_check_time = tq.last_check_time /\ clock' = clock
        BY <2>1, <3>1 DEF QueueType
      <3>3. stays
        BY ONLY <3>2, TimersStay, IInv
      <3>4. QED
        BY <3>3
    <2>2. CASE tq' = Checked(tq) /\ UNCHANGED clock
      <3>1. tq'.last_check_time = clock
        BY <2>2, CheckedNow
      <3>2. Remaining' \in [Thread -> Int]
        BY <1>a, <1>b DEF LeftAll
      <3>3. \A u \in Thread : Remaining'[u] \in T!TimeLeft(u)
        BY <1>a, <2>2, TimersLook
      <3>4. T!Look
        BY <2>2, <3>1, <3>2, <3>3 DEF T!Look
      <3>5. QED
        BY <3>4 DEF T!Next
    <2>3. QED
      BY <1>2, <1>3, <2>1, <2>2, CheckCases
  <1>4. CASE current_usecs
    <2>1. tq' = tq /\ clock' \in Nat
      BY <1>4, SleepAssumption DEF current_usecs
    <2>2. T!SetClock
      BY <1>a, <2>1 DEF T!SetClock
    <2>3. QED
      BY <2>2 DEF T!Next
  <1>5. ASSUME NEW t \in Thread, NEW d \in Timeout, thread_usleep(t, d)
        PROVE  T!Next \/ stays
    <2>1. CASE /\ Joins(tq', Checked(tq), t, d) /\ UNCHANGED clock
      <3>1. tq'.last_check_time = clock
        BY <2>1, CheckedNow DEF Joins
      <3>2. Remaining' \in [Thread -> Int]
        BY <1>a, <1>b DEF LeftAll
      <3>3. Remaining[t] = T!Off
        <4>1. t \notin Range(tq.sleepq)
          BY <1>5, UsleepCases, Zenon
        <4>2. QED
          BY <4>1 DEF Remaining, NotQueued, T!Off
      <3>4. Remaining'[t] = d
        BY <1>a, <2>1 DEF LeftAll, Joins
      <3>5. ASSUME NEW u \in Thread \ {t} PROVE Remaining'[u] \in T!TimeLeft(u)
        <4>1. Remaining'[u] = LeftAll(Checked(tq))[u]
          BY <1>a, <2>1 DEF LeftAll, Joins
        <4>2. QED
          BY <4>1, TimersLook
      <3>6. T!Sleep(t, d)
        BY <2>1, <3>1, <3>2, <3>3, <3>4, <3>5 DEF T!Sleep
      <3>7. QED
        BY <3>6 DEF T!Next
    <2>2. QED
      BY <1>2, <1>5, <2>1, UsleepCases, Zenon
  <1>6. ASSUME NEW t \in Thread, thread_resume(t)
        PROVE  T!Next \/ stays
    <2>1. CASE Leaves(tq', tq, t) /\ UNCHANGED clock
      <3>1. tq'.last_check_time = tq.last_check_time /\ t \notin Range(tq'.sleepq)
        BY <2>1 DEF Leaves
      <3>2. Left(tq', t) = T!Off
        <4>1. Queue(tq')
          BY <1>0 DEF IInv
        <4>2. Left(tq', t) = NotQueued
          BY ONLY <3>1, <4>1, LeftOf, t \in Thread
        <4>3. QED
          BY <4>2 DEF NotQueued, T!Off
      <3>3. Remaining[t] # T!Off
        <4>1. t \in Range(tq.sleepq) /\ Queue(tq)
          BY <1>6, ResumeCases DEF IInv
        <4>2. Left(tq, t) \in Nat
          BY ONLY <4>1, LeftOf, t \in Thread
        <4>3. QED
          BY <1>a, <4>2 DEF LeftAll, T!Off
      <3>4. Remaining' = [Remaining EXCEPT ![t] = T!Off]
        BY <1>a, <2>1, <3>2 DEF LeftAll, Leaves
      <3>5. T!Cancel(t)
        BY <2>1, <3>1, <3>3, <3>4 DEF T!Cancel
      <3>6. QED
        BY <3>5 DEF T!Next
    <2>2. QED
      BY <1>2, <1>6, <2>1, ResumeCases
  <1>7. ASSUME NEW t \in Thread, thread_usleep_return(t) PROVE stays
    <2>1. tq \in QueueType
      BY DEF IInv, Queue
    <2>2. /\ tq'.sleepq = tq.sleepq /\ tq'.sleep = tq.sleep
          /\ tq'.last_check_time = tq.last_check_time /\ clock' = clock
      BY <1>7, <2>1 DEF thread_usleep_return, QueueType
    <2>3. QED
      BY ONLY <2>2, TimersStay, IInv
  <1>8. CASE UNCHANGED vars
    BY <1>1, <1>8 DEF vars
  <1>9. QED
    BY <1>3, <1>4, <1>5, <1>6, <1>7, <1>8 DEF Next, Stopped

\* The queue of differences implements one timer per thread (module Timers):
\* nobody is woken early, and no check that looks at the clock leaves anybody
\* asleep who is overdue, whatever was inserted and removed in between.
THEOREM ImplementsTimers ==
  Spec => RefinesTimers
  <1>1. Init => T!Init
    BY TimersInit
  <1>2. IInv /\ [Next]_vars => [T!Next]_<<Remaining, clock, tq.last_check_time>>
    BY TimersStep
  <1>3. QED
    BY <1>1, <1>2, InductiveInvariant, PTL DEF Spec, RefinesTimers, T!Spec
=============================================================================
