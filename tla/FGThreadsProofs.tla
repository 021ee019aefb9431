--------------------------- MODULE FGThreadsProofs ---------------------------
(***************************************************************************)
(* Proofs about FGThreads, for every finite set of threads: what the list  *)
(* operations of src/fgutil/src/util/linked_list.c do to the set of queued *)
(* threads, and that they queue no thread twice; how the thread counters   *)
(* follow the states; and that every step of the scheduler preserves IInv: *)
(* creating a thread, yielding, suspending, sleeping, resuming, joining    *)
(* and ending one, the reaping of an exited one, and the rest.  The safety *)
(* properties follow from IInv.                                            *)
(***************************************************************************)
EXTENDS FGThreads, TLAPS

\* The elements of a queue, by position.
LEMMA Positions ==
    ASSUME NEW S, NEW s \in Seq(S)
    PROVE  /\ Len(s) \in Nat /\ DOMAIN s = 1..Len(s)
           /\ \A x : x \in Range(s) <=> \E i \in 1..Len(s) : s[i] = x
           /\ Range(s) \subseteq S
           /\ IsInjective(s) <=> \A i, j \in 1..Len(s) : s[i] = s[j] => i = j
<1>1. Len(s) \in Nat /\ DOMAIN s = 1..Len(s) /\ \A i \in 1..Len(s) : s[i] \in S
  OBVIOUS
<1>2. QED
  BY <1>1 DEF Range, IsInjective

\* Concatenation of two queues.
LEMMA ConcatFacts ==
    ASSUME NEW S, NEW s \in Seq(S), NEW r \in Seq(S)
    PROVE  /\ s \o r \in Seq(S)
           /\ Range(s \o r) = Range(s) \cup Range(r)
           /\ IsInjective(s) /\ IsInjective(r) /\ Range(s) \cap Range(r) = {}
              => IsInjective(s \o r)
<1> DEFINE q == s \o r
<1>1. /\ q \in Seq(S) /\ Len(q) = Len(s) + Len(r)
      /\ Len(s) \in Nat /\ Len(r) \in Nat
      /\ \A i \in 1..Len(s) : q[i] = s[i]
      /\ \A i \in Len(s) + 1..Len(s) + Len(r) : q[i] = r[i - Len(s)]
  OBVIOUS
<1>2. \A i \in 1..Len(r) : q[i + Len(s)] = r[i]
  BY <1>1
<1> HIDE DEF q
<1>3. \A x : x \in Range(q) <=> x \in Range(s) \cup Range(r)
  <2>1. ASSUME NEW x \in Range(q) PROVE x \in Range(s) \cup Range(r)
    <3>1. PICK i \in 1..Len(q) : q[i] = x
      BY <1>1, <2>1, Positions
    <3>2. CASE i \in 1..Len(s)
      BY <1>1, <3>1, <3>2, Positions
    <3>3. CASE i \notin 1..Len(s)
      <4>1. i - Len(s) \in 1..Len(r) /\ q[i] = r[i - Len(s)]
        BY <1>1, <3>3
      <4>2. QED
        BY <3>1, <4>1, Positions
    <3>4. QED
      BY <3>2, <3>3
  <2>2. ASSUME NEW x \in Range(s) PROVE x \in Range(q)
    <3>1. PICK i \in 1..Len(s) : s[i] = x
      BY <2>2, Positions
    <3>2. i \in 1..Len(q) /\ q[i] = x
      BY <1>1, <3>1, SMTT(30)
    <3>3. QED
      BY <1>1, <3>2, Positions
  <2>3. ASSUME NEW x \in Range(r) PROVE x \in Range(q)
    <3>1. PICK i \in 1..Len(r) : r[i] = x
      BY <2>3, Positions
    <3>2. i + Len(s) \in 1..Len(q) /\ q[i + Len(s)] = x
      BY <1>1, <1>2, <3>1
    <3>3. QED
      BY <1>1, <3>2, Positions, Zenon
  <2>4. QED
    BY <2>1, <2>2, <2>3
<1>4. ASSUME IsInjective(s), IsInjective(r), Range(s) \cap Range(r) = {}
      PROVE  IsInjective(q)
  <2>1. SUFFICES ASSUME NEW i \in 1..Len(q), NEW j \in 1..Len(q), q[i] = q[j], i <= j
                 PROVE  i = j
    BY <1>1, Positions
  <2>2. CASE j \in 1..Len(s)
    BY <1>1, <1>4, <2>1, <2>2, Positions
  <2>3. CASE i \notin 1..Len(s)
    <3>1. /\ Len(s) \in Nat /\ Len(r) \in Nat /\ Len(q) = Len(s) + Len(r)
          /\ j \notin 1..Len(s)
      BY <1>1, <2>1, <2>3
    <3>2. i - Len(s) \in 1..Len(r) /\ j - Len(s) \in 1..Len(r)
      BY <2>3, <3>1
    <3>3. r[i - Len(s)] = r[j - Len(s)]
      <4>1. i \in Len(s) + 1..Len(s) + Len(r) /\ j \in Len(s) + 1..Len(s) + Len(r)
        BY <2>3, <3>1
      <4>2. q[i] = r[i - Len(s)] /\ q[j] = r[j - Len(s)]
        BY <1>1, <4>1
      <4>3. QED
        BY <2>1, <4>2, Zenon
    <3>4. i - Len(s) = j - Len(s)
      BY <1>4, <3>2, <3>3, Positions
    <3>5. QED
      BY <3>1, <3>4
  <2>4. CASE i \in 1..Len(s) /\ j \notin 1..Len(s)
    <3>1. j - Len(s) \in 1..Len(r) /\ s[i] = r[j - Len(s)]
      BY <1>1, <2>1, <2>4
    <3>2. s[i] \in Range(s) /\ s[i] \in Range(r)
      BY <2>4, <3>1, Positions
    <3>3. QED
      BY <1>4, <3>2
  <2>5. QED
    BY <1>1, <2>1, <2>2, <2>3, <2>4
<1>5. QED
  BY <1>1, <1>3, <1>4 DEF q

\* Splitting a queue after its first n elements.
LEMMA SplitFacts ==
    ASSUME NEW S, NEW s \in Seq(S), NEW n \in 0..Len(s)
    PROVE  LET a == SubSeq(s, 1, n)
               b == SubSeq(s, n + 1, Len(s))
           IN /\ a \in Seq(S) /\ b \in Seq(S)
              /\ Len(a) = n /\ Len(b) = Len(s) - n
              /\ Range(s) = Range(a) \cup Range(b)
              /\ IsInjective(s) =>
                    IsInjective(a) /\ IsInjective(b) /\ Range(a) \cap Range(b) = {}
<1> DEFINE a == SubSeq(s, 1, n)
           b == SubSeq(s, n + 1, Len(s))
<1>1. Len(s) \in Nat /\ n \in Nat /\ n <= Len(s) /\ \A i \in 1..Len(s) : s[i] \in S
  OBVIOUS
<1>2. /\ a \in Seq(S) /\ Len(a) = n
      /\ \A i \in 1..n : a[i] = s[i]
  <2>1. \A i \in 1..n : s[i] \in S
    BY <1>1
  <2>2. /\ a \in Seq(S) /\ Len(a) = IF 1 <= n THEN n - 1 + 1 ELSE 0
        /\ \A i \in 1..n - 1 + 1 : a[i] = s[1 + i - 1]
    BY <1>1, <2>1
  <2>3. QED
    BY <1>1, <2>2
<1>3. /\ b \in Seq(S) /\ Len(b) = Len(s) - n
      /\ \A i \in 1..Len(s) - n : b[i] = s[n + i]
  <2>1. \A i \in n + 1..Len(s) : s[i] \in S
    BY <1>1
  <2>2. /\ b \in Seq(S)
        /\ Len(b) = IF n + 1 <= Len(s) THEN Len(s) - (n + 1) + 1 ELSE 0
        /\ \A i \in 1..Len(s) - (n + 1) + 1 : b[i] = s[n + 1 + i - 1]
    BY <1>1, <2>1
  <2>3. QED
    BY <1>1, <2>2
<1> HIDE DEF a, b
<1>4. \A x : x \in Range(s) <=> x \in Range(a) \cup Range(b)
  <2>1. ASSUME NEW x \in Range(s) PROVE x \in Range(a) \cup Range(b)
    <3>1. PICK i \in 1..Len(s) : s[i] = x
      BY <2>1, Positions
    <3>2. CASE i \in 1..n
      BY <1>2, <3>1, <3>2, Positions
    <3>3. CASE i \notin 1..n
      <4>1. i - n \in 1..Len(b) /\ b[i - n] = x
        BY <1>1, <1>3, <3>1, <3>3
      <4>2. QED
        BY <1>3, <4>1, Positions
    <3>4. QED
      BY <3>2, <3>3
  <2>2. ASSUME NEW x \in Range(a) PROVE x \in Range(s)
    <3>1. PICK i \in 1..Len(a) : a[i] = x
      BY <1>2, <2>2, Positions
    <3>2. i \in 1..Len(s) /\ s[i] = x
      BY <1>1, <1>2, <3>1
    <3>3. QED
      BY <3>2, Positions
  <2>3. ASSUME NEW x \in Range(b) PROVE x \in Range(s)
    <3>1. PICK i \in 1..Len(b) : b[i] = x
      BY <1>3, <2>3, Positions
    <3>2. n + i \in 1..Len(s) /\ s[n + i] = x
      BY <1>1, <1>3, <3>1
    <3>3. QED
      BY <3>2, Positions
  <2>4. QED
    BY <2>1, <2>2, <2>3
<1>5. ASSUME IsInjective(s)
      PROVE  IsInjective(a) /\ IsInjective(b) /\ Range(a) \cap Range(b) = {}
  <2>1. \A i, j \in 1..Len(s) : s[i] = s[j] => i = j
    BY <1>5, Positions
  <2>2. \A i, j \in 1..Len(a) : a[i] = a[j] => i = j
    BY <1>1, <1>2, <2>1
  <2>3. ASSUME NEW i \in 1..Len(b), NEW j \in 1..Len(b), b[i] = b[j] PROVE i = j
    <3>1. /\ n + i \in 1..Len(s) /\ n + j \in 1..Len(s) /\ s[n + i] = s[n + j]
      BY <1>1, <1>3, <2>3
    <3>2. n + i = n + j
      BY <2>1, <3>1
    <3>3. QED
      BY <1>1, <3>2
  <2>4. ASSUME NEW x \in Range(a), x \in Range(b) PROVE FALSE
    <3>1. PICK i \in 1..Len(a) : a[i] = x
      BY <1>2, <2>4, Positions
    <3>2. PICK j \in 1..Len(b) : b[j] = x
      BY <1>3, <2>4, Positions
    <3>3. i \in 1..Len(s) /\ n + j \in 1..Len(s) /\ s[i] = s[n + j] /\ i # n + j
      BY <1>1, <1>2, <1>3, <3>1, <3>2
    <3>4. QED
      BY <2>1, <3>3
  <2>5. QED
    BY <1>2, <1>3, <2>2, <2>3, <2>4, Positions, Zenon
<1>6. QED
  BY <1>2, <1>3, <1>4, <1>5 DEF a, b

\* A queue with one element.
LEMMA SingletonFacts ==
    ASSUME NEW S, NEW x \in S
    PROVE  <<x>> \in Seq(S) /\ Range(<<x>>) = {x} /\ IsInjective(<<x>>)
<1> DEFINE y == <<x>>
<1>1. y \in Seq(S) /\ Len(y) = 1 /\ y[1] = x
  OBVIOUS
<1>2. \A i : i \in 1..1 <=> i = 1
  OBVIOUS
<1> HIDE DEF y
<1>3. DOMAIN y = {1}
  BY <1>1, <1>2, Positions
<1>4. Range(y) = {x} /\ IsInjective(y)
  BY <1>1, <1>3 DEF Range, IsInjective
<1>5. QED
  BY <1>1, <1>4 DEF y

\* A queue of length one is determined by its element.
LEMMA OneElement ==
    ASSUME NEW S, NEW s \in Seq(S), Len(s) = 1
    PROVE  s = <<s[1]>> /\ s[1] \in S
<1>1. s[1] \in S
  OBVIOUS
<1>2. <<s[1]>> \in Seq(S) /\ Len(<<s[1]>>) = 1 /\ <<s[1]>>[1] = s[1]
  BY <1>1
<1>3. \A i \in 1..Len(s) : s[i] = <<s[1]>>[i]
  BY <1>2
<1>4. QED
  BY <1>1, <1>2, <1>3

\* pl_add_tail of a new element.
LEMMA AppendFacts ==
    ASSUME NEW S, NEW s \in Seq(S), NEW x \in S
    PROVE  /\ Append(s, x) \in Seq(S) /\ Append(s, x) # <<>>
           /\ Range(Append(s, x)) = Range(s) \cup {x}
           /\ IsInjective(s) /\ x \notin Range(s) => IsInjective(Append(s, x))
<1> DEFINE y == <<x>>
<1>1. Append(s, x) = s \o y /\ Append(s, x) # <<>>
  OBVIOUS
<1>2. y \in Seq(S) /\ Range(y) = {x} /\ IsInjective(y)
  BY SingletonFacts
<1> HIDE DEF y
<1>3. /\ s \o y \in Seq(S) /\ Range(s \o y) = Range(s) \cup Range(y)
      /\ IsInjective(s) /\ IsInjective(y) /\ Range(s) \cap Range(y) = {}
         => IsInjective(s \o y)
  BY <1>2, ConcatFacts
<1>4. QED
  BY <1>1, <1>2, <1>3

\* pl_add_head of a new element.
LEMMA ConsFacts ==
    ASSUME NEW S, NEW s \in Seq(S), NEW x \in S
    PROVE  /\ <<x>> \o s \in Seq(S) /\ <<x>> \o s # <<>>
           /\ Range(<<x>> \o s) = Range(s) \cup {x}
           /\ IsInjective(s) /\ x \notin Range(s) => IsInjective(<<x>> \o s)
<1> DEFINE y == <<x>>
<1>1. y \in Seq(S) /\ Range(y) = {x} /\ IsInjective(y)
  BY SingletonFacts
<1>2. Range(<<>>) = {}
  BY DEF Range
<1> HIDE DEF y
<1>3. /\ y \o s \in Seq(S) /\ Range(y \o s) = Range(y) \cup Range(s)
      /\ IsInjective(y) /\ IsInjective(s) /\ Range(y) \cap Range(s) = {}
         => IsInjective(y \o s)
  BY <1>1, ConcatFacts
<1>4. /\ y \o s \in Seq(S) /\ y \o s # <<>>
      /\ Range(y \o s) = Range(s) \cup {x}
      /\ IsInjective(s) /\ x \notin Range(s) => IsInjective(y \o s)
  BY <1>1, <1>2, <1>3
<1>5. QED
  BY <1>4, Zenon DEF y

\* pl_remove_head.
LEMMA HeadTailFacts ==
    ASSUME NEW S, NEW s \in Seq(S), s # <<>>
    PROVE  /\ Head(s) \in S /\ Tail(s) \in Seq(S)
           /\ Range(s) = Range(Tail(s)) \cup {Head(s)}
           /\ IsInjective(s) => IsInjective(Tail(s)) /\ Head(s) \notin Range(Tail(s))
<1>1. 1 \in 0..Len(s) /\ Len(s) \in Nat
  OBVIOUS
<1>2. Head(s) = s[1] /\ s[1] \in S
  BY <1>1
<1>3. SubSeq(s, 1, 1) = <<s[1]>>
  <2>1. SubSeq(s, 1, 1) \in Seq(S) /\ Len(SubSeq(s, 1, 1)) = 1
    BY <1>1, SplitFacts
  <2>2. \A i \in 1..1 : s[i] \in S
    BY <1>2
  <2>3. \A i \in 1..1 - 1 + 1 : SubSeq(s, 1, 1)[i] = s[1 + i - 1]
    BY <2>2
  <2>4. SubSeq(s, 1, 1)[1] = s[1]
    BY <2>3
  <2>5. QED
    BY <2>1, <2>4, OneElement, Zenon
<1> DEFINE a == SubSeq(s, 1, 1)
           b == SubSeq(s, 1 + 1, Len(s))
<1>4. Tail(s) = b
  BY <1>1
<1>5. /\ b \in Seq(S) /\ Range(s) = Range(a) \cup Range(b)
      /\ IsInjective(s) => IsInjective(b) /\ Range(a) \cap Range(b) = {}
  BY <1>1, SplitFacts
<1>6. Range(a) = {s[1]}
  BY <1>2, <1>3, SingletonFacts, Zenon
<1> HIDE DEF a, b
<1>7. QED
  BY <1>2, <1>4, <1>5, <1>6, Zenon

\* pl_remove_tail.
LEMMA FrontLastFacts ==
    ASSUME NEW S, NEW s \in Seq(S), s # <<>>
    PROVE  /\ ll_view_tail(s) \in S /\ pl_remove_tail(s) \in Seq(S)
           /\ Range(s) = Range(pl_remove_tail(s)) \cup {ll_view_tail(s)}
           /\ IsInjective(s) => IsInjective(pl_remove_tail(s)) /\ ll_view_tail(s) \notin Range(pl_remove_tail(s))
<1> DEFINE n == Len(s) - 1
           b == SubSeq(s, n + 1, Len(s))
<1>1. n \in 0..Len(s) /\ Len(s) \in Nat /\ n + 1 = Len(s) /\ Len(s) \in 1..Len(s)
  OBVIOUS
<1>2. ll_view_tail(s) = s[Len(s)] /\ s[Len(s)] \in S
  BY <1>1 DEF ll_view_tail
<1>3. b = <<s[Len(s)]>>
  <2>1. b \in Seq(S) /\ Len(b) = 1
    BY <1>1, SplitFacts
  <2>2. \A i \in n + 1..Len(s) : s[i] \in S
    BY <1>1, <1>2
  <2>3. n + 1 \in Int /\ Len(s) \in Int
    BY <1>1
  <2>4. \A i \in 1..Len(s) - (n + 1) + 1 : b[i] = s[n + 1 + i - 1]
    BY <2>2, <2>3
  <2>5. b[1] = s[Len(s)]
    BY <1>1, <2>4
  <2>6. QED
    BY <2>1, <2>5, OneElement, Zenon
<1>4. QED
  <2>1. /\ pl_remove_tail(s) \in Seq(S)
        /\ Range(s) = Range(pl_remove_tail(s)) \cup Range(b)
        /\ IsInjective(s) => IsInjective(pl_remove_tail(s)) /\ Range(pl_remove_tail(s)) \cap Range(b) = {}
    BY <1>1, SplitFacts DEF pl_remove_tail
  <2>2. Range(b) = {ll_view_tail(s)}
    BY <1>2, <1>3, SingletonFacts, Zenon
  <2>3. QED
    BY <1>2, <2>1, <2>2

\* ll_insert_before: a new element at position i.
LEMMA InsertAtFacts ==
    ASSUME NEW S, NEW s \in Seq(S), NEW x \in S, NEW i \in 1..Len(s) + 1
    PROVE  /\ ll_insert_before(s, i, x) \in Seq(S)
           /\ Range(ll_insert_before(s, i, x)) = Range(s) \cup {x}
           /\ IsInjective(s) /\ x \notin Range(s) => IsInjective(ll_insert_before(s, i, x))
<1> DEFINE n == i - 1
           a == SubSeq(s, 1, n)
           b == SubSeq(s, n + 1, Len(s))
           y == <<x>>
<1>1. n \in 0..Len(s) /\ n + 1 = i
  OBVIOUS
<1>2. /\ a \in Seq(S) /\ b \in Seq(S) /\ Range(s) = Range(a) \cup Range(b)
      /\ IsInjective(s) => IsInjective(a) /\ IsInjective(b) /\ Range(a) \cap Range(b) = {}
  BY <1>1, SplitFacts
<1>3. ll_insert_before(s, i, x) = (a \o y) \o b
  BY <1>1, Zenon DEF ll_insert_before
<1>4. y \in Seq(S) /\ Range(y) = {x} /\ IsInjective(y)
  BY SingletonFacts
<1> HIDE DEF n, a, b, y
<1> DEFINE ay == a \o y
<1>5. /\ ay \in Seq(S) /\ Range(ay) = Range(a) \cup Range(y)
      /\ IsInjective(a) /\ IsInjective(y) /\ Range(a) \cap Range(y) = {} => IsInjective(ay)
  BY <1>2, <1>4, ConcatFacts
<1> HIDE DEF ay
<1>6. /\ ay \o b \in Seq(S) /\ Range(ay \o b) = Range(ay) \cup Range(b)
      /\ IsInjective(ay) /\ IsInjective(b) /\ Range(ay) \cap Range(b) = {}
         => IsInjective(ay \o b)
  BY <1>2, <1>5, ConcatFacts
<1>7. ll_insert_before(s, i, x) = ay \o b
  BY <1>3 DEF ay
<1>8. QED
  BY <1>2, <1>4, <1>5, <1>6, <1>7

\* The head and the tail of a piece of a queue.
LEMMA SubSeqHeadTail ==
    ASSUME NEW S, NEW s \in Seq(S), NEW m \in 1..Len(s), NEW n \in m..Len(s)
    PROVE  /\ Head(SubSeq(s, m, n)) = s[m]
           /\ Tail(SubSeq(s, m, n)) = SubSeq(s, m + 1, n)
OBVIOUS

\* pl_remove_pointer: the element at position i leaves.
LEMMA RemoveAtFacts ==
    ASSUME NEW S, NEW s \in Seq(S), IsInjective(s), NEW i \in 1..Len(s)
    PROVE  /\ ll_remove_entry(s, i) \in Seq(S) /\ IsInjective(ll_remove_entry(s, i))
           /\ Range(ll_remove_entry(s, i)) = Range(s) \ {s[i]}
<1> DEFINE n == i - 1
           a == SubSeq(s, 1, n)
           b == SubSeq(s, n + 1, Len(s))
           c == SubSeq(s, i + 1, Len(s))
<1>0. Len(s) \in Nat /\ n \in 0..Len(s) /\ n + 1 = i /\ i \in 0..Len(s)
  OBVIOUS
<1>1. /\ a \in Seq(S) /\ b \in Seq(S) /\ Range(s) = Range(a) \cup Range(b)
      /\ IsInjective(a) /\ IsInjective(b) /\ Range(a) \cap Range(b) = {}
  BY <1>0, SplitFacts
<1>2. b # <<>> /\ Head(b) = s[i] /\ Tail(b) = c
  <2>1. Len(b) = Len(s) - n
    BY <1>0, SplitFacts
  <2>2. Len(b) # 0
    BY <1>0, <2>1
  <2>3. i \in 1..Len(s) /\ Len(s) \in i..Len(s)
    BY <1>0
  <2>4. b = SubSeq(s, i, Len(s))
    BY <1>0
  <2>5. b # <<>>
    <3>1. Len(<<>>) = 0
      OBVIOUS
    <3>2. QED
      BY <2>2, <3>1, Zenon
  <2>6. QED
    BY <2>3, <2>4, <2>5, SubSeqHeadTail, Zenon
<1>3. ll_remove_entry(s, i) = a \o c
  BY <1>0 DEF ll_remove_entry
<1> HIDE DEF n, a, b, c
<1>4. /\ c \in Seq(S) /\ Range(b) = Range(c) \cup {s[i]}
      /\ IsInjective(c) /\ s[i] \notin Range(c)
  <2>1. /\ Tail(b) \in Seq(S) /\ Range(b) = Range(Tail(b)) \cup {Head(b)}
        /\ IsInjective(Tail(b)) /\ Head(b) \notin Range(Tail(b))
    BY <1>1, <1>2, HeadTailFacts
  <2>2. QED
    BY <1>2, <2>1, Zenon
<1>5. QED
  BY <1>1, <1>3, <1>4, ConcatFacts

-----------------------------------------------------------------------------
StateName == {"NONE", "RUNNABLE", "SUSPENDED", "ZOMBIE", "GHOST"}

\* The number of threads in state x, and the daemons that count.
CountOf(f, x) == Cardinality({t \in Thread : f[t] = x})
DaemonSet(f, d) == {t \in Thread : f[t] \in {"RUNNABLE", "SUSPENDED"} /\ d[t]}

\* TypeOK without the counters, and the counters one by one.
TypeRest ==
    /\ sched \in {"rr", "invrr", "block"}
    /\ state \in [Thread -> StateName]
    /\ joinable \in [Thread -> BOOLEAN] /\ daemon \in [Thread -> BOOLEAN]
    /\ joinThread \in [Thread -> Thread \cup {NoThread}]
    /\ joining \in [Thread -> Thread \cup {NoThread}]
    /\ runlist \in Seq(Thread) /\ sleepq \in Seq(Thread)
    /\ blocklist \in [Rank -> Thread \cup {NoThread}]
    /\ current \in Thread \cup {NoThread}
    /\ inScheduler \in BOOLEAN /\ exitedFlag \in BOOLEAN
    /\ ptRunning \in BOOLEAN /\ done \in BOOLEAN

Counts ==
    /\ numRunnable = CountOf(state, "RUNNABLE")
    /\ numSuspended = CountOf(state, "SUSPENDED")
    /\ numZombie = CountOf(state, "ZOMBIE")
    /\ numDaemon = Cardinality(DaemonSet(state, daemon))

-----------------------------------------------------------------------------
(* Counting threads.                                                       *)

\* What counting comes to, for sets of threads and for queues.  It holds in every
\* model: CountingHolds proves it from the library.  The library's theorems come
\* in only there, at the end of the module, as they would be a burden on every
\* proof after them; so the lemmas take it as an assumption, which InitInv and
\* NextInv pass on.
Counting ==
    /\ Cardinality({}) = 0
    /\ \A t \in Thread : Cardinality({t}) = 1
    /\ \A A, B \in SUBSET Thread :
         A \cap B = {} => Cardinality(A \cup B) = Cardinality(A) + Cardinality(B)
    /\ \A A \in SUBSET Thread :
         /\ Cardinality(A) \in Nat
         /\ \A B \in SUBSET A : Cardinality(B) = Cardinality(A) => B = A
    /\ \A s \in Seq(Thread) : IsInjective(s) => Cardinality(Range(s)) = Len(s)

\* The cardinality of a disjoint union.
LEMMA DisjointUnion ==
    ASSUME Counting, NEW A \in SUBSET Thread, NEW B \in SUBSET Thread, A \cap B = {}
    PROVE  Cardinality(A \cup B) = Cardinality(A) + Cardinality(B)
BY DEF Counting

\* Every set of threads has a size.
LEMMA FiniteThreads ==
    ASSUME Counting, NEW T \in SUBSET Thread
    PROVE  Cardinality(T) \in Nat
BY DEF Counting

\* A subset with as many threads as the whole is the whole.
LEMMA SameSize ==
    ASSUME Counting, NEW A \in SUBSET Thread, NEW B \in SUBSET A,
           Cardinality(B) = Cardinality(A)
    PROVE  B = A
BY Zenon DEF Counting

\* Only the empty set has no thread.
LEMMA OnlyEmpty ==
    ASSUME Counting, NEW A \in SUBSET Thread, Cardinality(A) = 0
    PROVE  A = {}
<1>1. Cardinality({}) = Cardinality(A) /\ {} \in SUBSET A
  BY DEF Counting
<1>2. QED
  BY <1>1, SameSize

\* One thread more, one thread less.
LEMMA DaemonCount ==
    ASSUME Counting, NEW A \in SUBSET Thread, NEW u \in Thread
    PROVE  /\ u \notin A => Cardinality(A \cup {u}) = Cardinality(A) + 1
           /\ u \in A => Cardinality(A \ {u}) = Cardinality(A) - 1
           /\ Cardinality(A) \in Nat
<1>1. Cardinality({u}) = 1 /\ Cardinality(A) \in Nat /\ Cardinality(A \ {u}) \in Nat
  BY DEF Counting
<1>2. u \notin A => Cardinality(A \cup {u}) = Cardinality(A) + 1
  BY <1>1, DisjointUnion
<1>3. u \in A => Cardinality(A) = Cardinality(A \ {u}) + 1
  <2> SUFFICES ASSUME u \in A PROVE Cardinality(A) = Cardinality(A \ {u}) + 1
    OBVIOUS
  <2>1. A = (A \ {u}) \cup {u} /\ (A \ {u}) \cap {u} = {}
    OBVIOUS
  <2>2. QED
    BY <1>1, <2>1, DisjointUnion
<1>4. QED
  BY <1>1, <1>2, <1>3

\* The counts of g are those of f after one thread went from state z to y.
OneMoved(f, g, y, z) ==
    /\ CountOf(g, y) = CountOf(f, y) + 1
    /\ CountOf(g, z) = CountOf(f, z) - 1
    /\ \A x \in StateName : x # y /\ x # z => CountOf(g, x) = CountOf(f, x)

\* A thread that goes from state z to state y leaves one count, enters
\* another and changes no third.
LEMMA CountMove ==
    ASSUME Counting, NEW f \in [Thread -> StateName], NEW g \in [Thread -> StateName],
           NEW u \in Thread, NEW y \in StateName, NEW z \in StateName,
           f[u] = z, z # y, g = [f EXCEPT ![u] = y]
    PROVE  OneMoved(f, g, y, z)
<1> DEFINE F(x) == {t \in Thread : f[t] = x}
           G(x) == {t \in Thread : g[t] = x}
<1>1. G(y) = F(y) \cup {u} /\ u \notin F(y)
  OBVIOUS
<1>2. G(z) = F(z) \ {u} /\ u \in F(z)
  OBVIOUS
<1>3. \A x \in StateName : x # y /\ x # z => G(x) = F(x)
  OBVIOUS
<1>4. \A x : F(x) \in SUBSET Thread
  OBVIOUS
<1>5. \A x : CountOf(f, x) = Cardinality(F(x)) /\ CountOf(g, x) = Cardinality(G(x))
  BY DEF CountOf
<1> HIDE DEF F, G
<1>6. Cardinality(G(y)) = Cardinality(F(y)) + 1
  BY <1>1, <1>4, DaemonCount
<1>7. Cardinality(G(z)) = Cardinality(F(z)) - 1
  BY <1>2, <1>4, DaemonCount
<1>8. QED
  BY <1>3, <1>5, <1>6, <1>7, Zenon DEF OneMoved

\* CountMove for a step that changes the state of one thread.
LEMMA StateMove ==
    ASSUME Counting, NEW u \in Thread, NEW y \in StateName, NEW z \in StateName,
           state \in [Thread -> StateName],
           state[u] = z, z # y, state' = [state EXCEPT ![u] = y]
    PROVE  OneMoved(state, state', y, z)
<1>1. state' \in [Thread -> StateName]
  OBVIOUS
<1>2. QED
  BY <1>1, CountMove, Zenon

\* The number of threads in a state is a natural number.
LEMMA CountNat ==
    ASSUME Counting, NEW f, NEW x
    PROVE  CountOf(f, x) \in Nat
BY FiniteThreads DEF CountOf

\* threadlist is made of the runnable, the suspended and the zombies.
LEMMA SumOfCounts ==
    ASSUME Counting, TypeRest, Counts
    PROVE  SanityCounts /\ TypeOK
<1> DEFINE F(x) == {t \in Thread : state[t] = x}
<1>1. \A x : F(x) \in SUBSET Thread /\ Cardinality(F(x)) \in Nat
  BY FiniteThreads
<1>a. \A x : CountOf(state, x) = Cardinality(F(x))
  BY DEF CountOf
<1>2. threadlist = (F("RUNNABLE") \cup F("SUSPENDED")) \cup F("ZOMBIE")
  BY DEF threadlist
<1>3. /\ F("RUNNABLE") \cap F("SUSPENDED") = {}
      /\ (F("RUNNABLE") \cup F("SUSPENDED")) \cap F("ZOMBIE") = {}
  OBVIOUS
<1>6. Cardinality(DaemonSet(state, daemon)) \in Nat
  BY FiniteThreads DEF DaemonSet
<1> HIDE DEF F
<1>4. /\ F("RUNNABLE") \cup F("SUSPENDED") \in SUBSET Thread
      /\ Cardinality(F("RUNNABLE") \cup F("SUSPENDED"))
            = Cardinality(F("RUNNABLE")) + Cardinality(F("SUSPENDED"))
  BY <1>1, <1>3, DisjointUnion
<1>5. Cardinality(threadlist) = Cardinality(F("RUNNABLE")) + Cardinality(F("SUSPENDED"))
                                  + Cardinality(F("ZOMBIE"))
  BY <1>1, <1>2, <1>3, <1>4, DisjointUnion, Zenon
<1>7. SanityCounts
  <2>1. numRunnable + numSuspended + numZombie = Cardinality(threadlist)
    BY <1>a, <1>5 DEF Counts
  <2>2. QED
    BY <2>1 DEF SanityCounts, Counts, CountOf, DaemonSet, Alive
<1>8. TypeOK
  BY <1>1, <1>a, <1>6 DEF TypeOK, TypeRest, Counts, StateName
<1>9. QED
  BY <1>7, <1>8

\* The counters as IInv gives them.
LEMMA CountsOfIInv ==
    ASSUME IInv
    PROVE  TypeRest /\ Counts
BY DEF IInv, TypeOK, TypeRest, SanityCounts, Counts, CountOf, DaemonSet, Alive, StateName

\* The inductive invariant from its parts.
LEMMA IInvFromParts ==
    ASSUME Counting, TypeRest', Counts', PlacedOnce', SleepersSuspended', JoinHandshake',
           ReapsTheExited', MainInExit', Joining', Untouched'
    PROVE  IInv'
<1>1. TypeRest' /\ Counts' => SanityCounts' /\ TypeOK'
  BY SumOfCounts, PTL
<1>2. QED
  BY <1>1 DEF IInv

\* Ranks identify threads.
LEMMA RankFacts ==
    /\ \A t \in Thread : WorldRank[t] \in Rank
    /\ \A r \in Rank : \E t \in Thread : WorldRank[t] = r
    /\ \A t, u \in Thread : WorldRank[t] = WorldRank[u] => t = u
BY RankAssumption DEF Rank

-----------------------------------------------------------------------------
(* One lemma per action: it preserves IInv.                                *)

\* thread_yield preserves IInv: the caller moves from running to the tail of
\* the run list.
LEMMA YieldInv ==
    ASSUME Counting, IInv, NEW t \in Thread, thread_yield(t)
    PROVE  IInv'
<1>1. TypeRest /\ Counts
  BY CountsOfIInv
<1>2. /\ state[t] = "RUNNABLE" /\ t \notin Range(runlist) /\ IsInjective(runlist)
      /\ runlist' = Append(runlist, t)
  BY DEF IInv, PlacedOnce, thread_yield, Running, Runs, InRunlist, sched_add_thread
<1>3. /\ runlist' \in Seq(Thread) /\ IsInjective(runlist')
      /\ Range(runlist') = Range(runlist) \cup {t}
  BY <1>1, <1>2, AppendFacts DEF TypeRest
<1> USE DEF thread_yield, SwitchToScheduler
<1>4. TypeRest'
  BY <1>1, <1>3 DEF TypeRest, attrs, counts
<1>5. Counts'
  BY <1>1 DEF Counts, CountOf, DaemonSet, attrs, counts
<1>6. PlacedOnce'
  BY <1>1, <1>2, <1>3, ThreadAssumption DEF IInv, PlacedOnce, Runs, InRunlist, Blocked, Running, TypeRest
<1>7. SleepersSuspended' /\ JoinHandshake' /\ MainInExit' /\ Joining'
  BY DEF IInv, SleepersSuspended, JoinHandshake, MainInExit, Joining, Asleep, Alive, threadlist, attrs
<1>8. ReapsTheExited' /\ Untouched'
  BY <1>2 DEF IInv, ReapsTheExited, Untouched, Running, attrs
<1>9. QED
  BY <1>4, <1>5, <1>6, <1>7, <1>8, IInvFromParts

\* thread_spawn preserves IInv: the new thread is runnable, counted and queued.
LEMMA SpawnInv ==
    ASSUME Counting, IInv, NEW t \in Thread, NEW u \in Thread, NEW j \in BOOLEAN, NEW d \in BOOLEAN,
           thread_spawn(t, u, j, d)
    PROVE  IInv'
<1>1. TypeRest /\ Counts
  BY CountsOfIInv
<1>2. /\ state[u] = "NONE" /\ u \notin Range(runlist) /\ IsInjective(runlist)
      /\ runlist' = Append(runlist, u)
  BY DEF IInv, PlacedOnce, thread_spawn, InRunlist, sched_add_thread
<1>3. /\ runlist' \in Seq(Thread) /\ IsInjective(runlist')
      /\ Range(runlist') = Range(runlist) \cup {u}
  BY <1>1, <1>2, AppendFacts DEF TypeRest
<1> USE DEF thread_spawn, NoSwitch
<1>4. TypeRest'
  BY <1>1, <1>3 DEF TypeRest, StateName
<1>5. Counts'
  <2>1. /\ CountOf(state', "RUNNABLE") = CountOf(state, "RUNNABLE") + 1
        /\ CountOf(state', "SUSPENDED") = CountOf(state, "SUSPENDED")
        /\ CountOf(state', "ZOMBIE") = CountOf(state, "ZOMBIE")
    <3>1. OneMoved(state, state', "RUNNABLE", "NONE")
      BY <1>1, <1>2, StateMove, Zenon DEF TypeRest, StateName
    <3>2. QED
      BY <3>1 DEF OneMoved, StateName
  <2>2. Cardinality(DaemonSet(state', daemon')) = Cardinality(DaemonSet(state, daemon)) + Bit(d)
    <3>1. /\ u \notin DaemonSet(state, daemon)
          /\ d => DaemonSet(state', daemon') = DaemonSet(state, daemon) \cup {u}
          /\ ~d => DaemonSet(state', daemon') = DaemonSet(state, daemon)
      BY <1>1, <1>2 DEF DaemonSet, TypeRest
    <3>2. DaemonSet(state, daemon) \in SUBSET Thread
      BY DEF DaemonSet
    <3> HIDE DEF thread_spawn
    <3>3. CASE d = TRUE
      <4>1. Cardinality(DaemonSet(state', daemon')) = Cardinality(DaemonSet(state, daemon)) + 1
        BY <3>1, <3>2, <3>3, DaemonCount
      <4>2. QED
        BY <3>3, <4>1 DEF Bit
    <3>4. CASE d = FALSE
      <4>1. Cardinality(DaemonSet(state, daemon)) \in Nat
        BY <3>2, FiniteThreads
      <4>2. Bit(d) = 0
        BY <3>4 DEF Bit
      <4>3. QED
        BY <3>1, <3>4, <4>1, <4>2
    <3>5. QED
      BY <3>3, <3>4, Zenon
  <2>3. QED
    BY <1>1, <2>1, <2>2 DEF Counts
<1>6. PlacedOnce'
  BY <1>1, <1>2, <1>3, ThreadAssumption DEF IInv, PlacedOnce, Runs, InRunlist, Blocked, Running, TypeRest
<1>7. SleepersSuspended' /\ JoinHandshake' /\ MainInExit' /\ Joining'
  BY <1>1, <1>2 DEF IInv, SleepersSuspended, JoinHandshake, MainInExit, Joining, Asleep, Alive, threadlist, TypeRest, Untouched, Running
<1>8. ReapsTheExited' /\ Untouched'
  BY <1>1, <1>2 DEF IInv, ReapsTheExited, Untouched, Running, TypeRest
<1>9. QED
  BY <1>4, <1>5, <1>6, <1>7, <1>8, IInvFromParts

\* sched_init_progress_thread preserves IInv: the progress thread is counted
\* as runnable and parked in the block list.
LEMMA InitProgressInv ==
    ASSUME Counting, IInv, NEW t \in Thread, sched_init_progress_thread(t)
    PROVE  IInv'
<1>1. TypeRest /\ Counts
  BY CountsOfIInv
<1> DEFINE r == WorldRank[Progress]
<1>2. Progress \in Thread /\ Progress # Main /\ state[Progress] = "NONE" /\ ~daemon[Progress]
  BY ThreadAssumption DEF IInv, Untouched, sched_init_progress_thread
<1>3. r \in Rank /\ blocklist[r] = NoThread
  BY <1>1, <1>2, RankFacts DEF IInv, PlacedOnce, Blocked, TypeRest
<1>4. blocklist' = [blocklist EXCEPT ![r] = Progress]
  BY <1>3 DEF sched_init_progress_thread, SchedulerHashInsert
<1> USE DEF sched_init_progress_thread, NoSwitch
<1>5. TypeRest'
  BY <1>1, <1>2, <1>4, Zenon DEF TypeRest, StateName
<1>6. Counts'
  <2>1. /\ CountOf(state', "RUNNABLE") = CountOf(state, "RUNNABLE") + 1
        /\ CountOf(state', "SUSPENDED") = CountOf(state, "SUSPENDED")
        /\ CountOf(state', "ZOMBIE") = CountOf(state, "ZOMBIE")
    <3>1. OneMoved(state, state', "RUNNABLE", "NONE")
      BY <1>1, <1>2, StateMove, Zenon DEF TypeRest, StateName
    <3>2. QED
      BY <3>1 DEF OneMoved, StateName
  <2>2. DaemonSet(state', daemon') = DaemonSet(state, daemon)
    BY <1>1, <1>2 DEF DaemonSet, TypeRest
  <2>3. QED
    BY <1>1, <2>1, <2>2 DEF Counts
<1>7. PlacedOnce'
  BY <1>1, <1>2, <1>3, <1>4, RankFacts, ThreadAssumption
  DEF IInv, PlacedOnce, Runs, InRunlist, Blocked, TypeRest
<1>8. SleepersSuspended' /\ JoinHandshake' /\ MainInExit' /\ Joining'
  BY <1>1, <1>2 DEF IInv, SleepersSuspended, JoinHandshake, MainInExit, Joining, Asleep,
     Alive, threadlist, TypeRest, Untouched, Running
<1>9. ReapsTheExited' /\ Untouched'
  BY <1>1, <1>2 DEF IInv, ReapsTheExited, Untouched, Running, TypeRest
<1>10. QED
  BY <1>5, <1>6, <1>7, <1>8, <1>9, IInvFromParts

\* sched_unblock_thread moves at most one thread from the block list to the
\* run list.
LEMMA UnblockFacts ==
    ASSUME IInv, NEW r \in Rank
    PROVE  LET rl == UnblockedRunlist(runlist, blocklist, r)
               bl == UnblockedBlocklist(blocklist, r)
           IN /\ rl \in Seq(Thread) /\ IsInjective(rl)
              /\ bl \in [Rank -> Thread \cup {NoThread}]
              /\ \A q \in Rank : bl[q] # NoThread => WorldRank[bl[q]] = q
              /\ \A x \in Thread : /\ x \in Range(rl) \/ bl[WorldRank[x]] = x
                                     <=> InRunlist(x) \/ Blocked(x)
                                  /\ ~(x \in Range(rl) /\ bl[WorldRank[x]] = x)
<1> DEFINE rl == UnblockedRunlist(runlist, blocklist, r)
           bl == UnblockedBlocklist(blocklist, r)
           u == blocklist[r]
<1>1. TypeRest /\ PlacedOnce
  BY CountsOfIInv DEF IInv
<1>2. CASE ~Unblockable(blocklist, r)
  BY <1>1, <1>2 DEF UnblockedRunlist, UnblockedBlocklist, PlacedOnce, TypeRest, InRunlist, Blocked
<1>3. CASE Unblockable(blocklist, r)
  <2>1. u \in Thread /\ WorldRank[u] = r /\ u \notin Range(runlist)
    BY <1>1, <1>3, RankFacts DEF Unblockable, TypeRest, PlacedOnce, InRunlist, Blocked
  <2>2. /\ rl = Append(runlist, u)
        /\ bl = [blocklist EXCEPT ![r] = NoThread]
    BY <1>3 DEF UnblockedRunlist, UnblockedBlocklist, sched_add_thread
  <2>3. /\ rl \in Seq(Thread) /\ IsInjective(rl)
        /\ Range(rl) = Range(runlist) \cup {u}
    BY <1>1, <2>1, <2>2, AppendFacts DEF TypeRest, PlacedOnce
  <2> HIDE DEF rl
  <2>4. /\ bl \in [Rank -> Thread \cup {NoThread}]
        /\ \A q \in Rank : bl[q] = IF q = r THEN NoThread ELSE blocklist[q]
    BY <1>1, <2>2 DEF TypeRest
  <2> HIDE DEF bl
  <2>5. \A x \in Thread : bl[WorldRank[x]] = x <=> Blocked(x) /\ x # u
    BY <1>1, <2>1, <2>4, RankFacts, ThreadAssumption DEF Blocked, PlacedOnce
  <2>6. \A q \in Rank : bl[q] # NoThread => WorldRank[bl[q]] = q
    BY <1>1, <2>4 DEF PlacedOnce
  <2>7. Blocked(u)
    BY <2>1 DEF Blocked
  <2>8. \A x \in Thread : /\ x \in Range(rl) \/ bl[WorldRank[x]] = x
                                     <=> InRunlist(x) \/ Blocked(x)
                        /\ ~(x \in Range(rl) /\ bl[WorldRank[x]] = x)
    BY <1>1, <2>1, <2>3, <2>5, <2>7 DEF InRunlist, PlacedOnce
  <2>9. QED
    BY <2>3, <2>4, <2>6, <2>8 DEF rl, bl
<1>4. QED
  BY <1>2, <1>3, Zenon

\* What is left of IInv when only the run list and the block list change and
\* the running thread goes on.
LEMMA RequeueInv ==
    ASSUME Counting, IInv, NEW r \in Rank,
           runlist' = UnblockedRunlist(runlist, blocklist, r),
           blocklist' = UnblockedBlocklist(blocklist, r),
           ptRunning' \in BOOLEAN,
           UNCHANGED <<sched, state, attrs, joinThread, joining, counts, sleepq,
                       current, inScheduler, exitedFlag, done>>
    PROVE  IInv'
<1>1. TypeRest /\ Counts
  BY CountsOfIInv
<1>2. /\ runlist' \in Seq(Thread) /\ IsInjective(runlist')
      /\ blocklist' \in [Rank -> Thread \cup {NoThread}]
      /\ \A q \in Rank : blocklist'[q] # NoThread => WorldRank[blocklist'[q]] = q
      /\ \A x \in Thread : /\ InRunlist(x)' \/ Blocked(x)' <=> InRunlist(x) \/ Blocked(x)
                          /\ ~(InRunlist(x)' /\ Blocked(x)')
  BY UnblockFacts DEF InRunlist, Blocked
<1>3. TypeRest'
  BY <1>1, <1>2 DEF TypeRest, attrs, counts
<1>4. Counts'
  BY <1>1 DEF Counts, CountOf, DaemonSet, attrs, counts
<1>5. PlacedOnce'
  BY <1>1, <1>2, Zenon DEF IInv, PlacedOnce, Runs
<1>6. /\ SleepersSuspended' /\ JoinHandshake' /\ MainInExit' /\ Joining'
      /\ ReapsTheExited' /\ Untouched'
  BY Zenon DEF IInv, SleepersSuspended, JoinHandshake, MainInExit, Joining, Asleep, Alive,
     threadlist, attrs, ReapsTheExited, Untouched
<1>7. QED
  BY <1>3, <1>4, <1>5, <1>6, IInvFromParts

\* sched_start_progress_thread preserves IInv.
LEMMA StartProgressInv ==
    ASSUME Counting, IInv, NEW t \in Thread, sched_start_progress_thread(t)
    PROVE  IInv'
BY RequeueInv, RankFacts, ThreadAssumption
DEF sched_start_progress_thread, NoSwitch

\* thread_notify_on_event preserves IInv: a parked thread moves to the run list.
LEMMA NotifyInv ==
    ASSUME Counting, IInv, NEW t \in Thread, NEW r \in Rank, thread_notify_on_event(t, r)
    PROVE  IInv'
BY RequeueInv DEF thread_notify_on_event, NoSwitch, IInv, TypeOK

\* thread_yield_on_event preserves IInv: the caller is parked under its own
\* rank, which is free because no other thread has it.
LEMMA YieldOnEventInv ==
    ASSUME Counting, IInv, NEW t \in Thread, thread_yield_on_event(t)
    PROVE  IInv'
<1> DEFINE starts == sched = "block" /\ ~ptRunning
           rl == IF starts THEN UnblockedRunlist(runlist, blocklist, WorldRank[Progress])
                 ELSE runlist
           bl == IF starts THEN UnblockedBlocklist(blocklist, WorldRank[Progress])
                 ELSE blocklist
<1>1. TypeRest /\ Counts /\ PlacedOnce
  BY CountsOfIInv DEF IInv
<1>2. /\ rl \in Seq(Thread) /\ IsInjective(rl)
      /\ bl \in [Rank -> Thread \cup {NoThread}]
      /\ \A q \in Rank : bl[q] # NoThread => WorldRank[bl[q]] = q
      /\ \A x \in Thread : /\ x \in Range(rl) \/ bl[WorldRank[x]] = x
                             <=> InRunlist(x) \/ Blocked(x)
                          /\ ~(x \in Range(rl) /\ bl[WorldRank[x]] = x)
  <2>1. CASE starts
    BY <2>1, UnblockFacts, RankFacts, ThreadAssumption, Zenon
  <2>2. CASE ~starts
    BY <1>1, <2>2 DEF TypeRest, PlacedOnce, InRunlist, Blocked
  <2>3. QED
    BY <2>1, <2>2
<1>3. /\ ptRunning' = (ptRunning \/ starts)
      /\ IF sched = "block"
         THEN /\ runlist' = rl
              /\ blocklist' = SchedulerHashInsert(bl, WorldRank[t], t)
         ELSE /\ runlist' = Append(rl, t)
              /\ blocklist' = bl
      /\ inScheduler' = TRUE /\ Running(t)
      /\ UNCHANGED <<current, sched, state, attrs, joinThread, joining, counts, sleepq,
                     exitedFlag, done>>
  BY DEF thread_yield_on_event, SwitchToScheduler, sched_add_thread
<1> HIDE DEF rl, bl
<1>4. /\ state[t] = "RUNNABLE" /\ t \notin Range(rl) /\ bl[WorldRank[t]] # t
      /\ WorldRank[t] \in Rank /\ t # NoThread
  BY <1>1, <1>2, <1>3, RankFacts, ThreadAssumption, Zenon DEF PlacedOnce, Runs, Running
<1>5. bl[WorldRank[t]] = NoThread
  BY <1>2, <1>4, RankFacts
<1>6. /\ runlist' \in Seq(Thread) /\ IsInjective(runlist')
      /\ blocklist' \in [Rank -> Thread \cup {NoThread}]
      /\ \A q \in Rank : blocklist'[q] # NoThread => WorldRank[blocklist'[q]] = q
      /\ \A x \in Thread : /\ InRunlist(x)' \/ Blocked(x)' <=> InRunlist(x) \/ Blocked(x) \/ x = t
                          /\ ~(InRunlist(x)' /\ Blocked(x)')
  <2>1. CASE sched = "block"
    <3>1. runlist' = rl /\ blocklist' = [bl EXCEPT ![WorldRank[t]] = t]
      BY <1>3, <1>5, <2>1 DEF SchedulerHashInsert
    <3>2. \A x \in Thread : blocklist'[WorldRank[x]] = x <=> bl[WorldRank[x]] = x \/ x = t
      BY <1>2, <1>4, <1>5, <3>1, RankFacts, ThreadAssumption
    <3>3. QED
      BY <1>2, <1>4, <3>1, <3>2 DEF InRunlist, Blocked
  <2>2. CASE sched # "block"
    <3>1. runlist' = Append(rl, t) /\ blocklist' = bl
      BY <1>3, <2>2
    <3>2. /\ runlist' \in Seq(Thread) /\ IsInjective(runlist')
          /\ Range(runlist') = Range(rl) \cup {t}
      BY <1>2, <1>4, <3>1, AppendFacts
    <3>3. QED
      BY <1>2, <1>4, <3>1, <3>2 DEF InRunlist, Blocked
  <2>3. QED
    BY <2>1, <2>2
<1>7. TypeRest'
  BY <1>1, <1>3, <1>6 DEF TypeRest, attrs, counts
<1>8. Counts'
  BY <1>1, <1>3, Zenon DEF Counts, CountOf, DaemonSet, attrs, counts
<1>9. PlacedOnce'
  BY <1>1, <1>3, <1>4, <1>6, Zenon DEF PlacedOnce, Runs, Running
<1>10. SleepersSuspended' /\ JoinHandshake' /\ MainInExit' /\ Joining'
  BY <1>3, Zenon DEF IInv, SleepersSuspended, JoinHandshake, MainInExit, Joining, Asleep, Alive,
     threadlist, attrs
<1>11. ReapsTheExited' /\ Untouched'
  BY <1>3, <1>4, Zenon DEF IInv, ReapsTheExited, Untouched, Running, attrs
<1>12. QED
  BY <1>7, <1>8, <1>9, <1>10, <1>11, IInvFromParts
-----------------------------------------------------------------------------

\* thread_suspend_self preserves IInv.
LEMMA SuspendInv ==
    ASSUME Counting, IInv, NEW t \in Thread, thread_suspend_self(t)
    PROVE  IInv'
<1>1. TypeRest /\ Counts /\ state[t] = "RUNNABLE"
  BY CountsOfIInv DEF IInv, PlacedOnce, Runs, Running, thread_suspend_self
<1> USE DEF thread_suspend_self, SwitchToScheduler
<1>2. TypeRest'
  BY <1>1 DEF TypeRest, StateName, attrs, queues
<1>3. Counts'
  <2>1. OneMoved(state, state', "SUSPENDED", "RUNNABLE")
    BY <1>1, StateMove, Zenon DEF TypeRest, StateName
  <2>2. DaemonSet(state', daemon') = DaemonSet(state, daemon)
    BY <1>1 DEF DaemonSet, TypeRest, attrs
  <2>3. QED
    BY <1>1, <2>1, <2>2 DEF Counts, OneMoved, StateName
<1>4. PlacedOnce'
  BY <1>1 DEF IInv, PlacedOnce, Runs, InRunlist, Blocked, Running, TypeRest, queues
<1>5. SleepersSuspended' /\ JoinHandshake' /\ MainInExit' /\ Joining'
  BY <1>1 DEF IInv, SleepersSuspended, JoinHandshake, MainInExit, Joining, Asleep,
     Alive, threadlist, TypeRest, Running, attrs, queues
<1>6. ReapsTheExited' /\ Untouched'
  BY <1>1 DEF IInv, ReapsTheExited, Untouched, Running, TypeRest, attrs
<1>7. QED
  BY <1>2, <1>3, <1>4, <1>5, <1>6, IInvFromParts

\* fgmpi_sleepq_check: the sleepers it wakes were suspended and in no other
\* queue, and as many change count as leave the sleep queue.
LEMMA WakeFacts ==
    ASSUME Counting, IInv, NEW n \in 0..Len(sleepq)
    PROVE  LET W == Range(Woken(n)) IN
           /\ W \subseteq Thread /\ n \in Nat
           /\ \A x \in W : state[x] = "SUSPENDED" /\ Asleep(x)
           /\ RunlistAfterWake(n) \in Seq(Thread) /\ IsInjective(RunlistAfterWake(n))
           /\ Range(RunlistAfterWake(n)) = Range(runlist) \cup W
           /\ SleepqAfterWake(n) \in Seq(Thread) /\ IsInjective(SleepqAfterWake(n))
           /\ Range(SleepqAfterWake(n)) = Range(sleepq) \ W
           /\ StateAfterWake(n) \in [Thread -> StateName]
           /\ CountOf(StateAfterWake(n), "RUNNABLE") = CountOf(state, "RUNNABLE") + n
           /\ CountOf(StateAfterWake(n), "SUSPENDED") = CountOf(state, "SUSPENDED") - n
           /\ CountOf(StateAfterWake(n), "ZOMBIE") = CountOf(state, "ZOMBIE")
           /\ DaemonSet(StateAfterWake(n), daemon) = DaemonSet(state, daemon)
<1> DEFINE a == Woken(n)
           b == SleepqAfterWake(n)
           W == Range(a)
           g == StateAfterWake(n)
<1>1. TypeRest /\ PlacedOnce /\ SleepersSuspended
  BY CountsOfIInv DEF IInv
<1>2. n \in Nat /\ IsInjective(sleepq) /\ IsInjective(runlist)
      /\ sleepq \in Seq(Thread) /\ runlist \in Seq(Thread)
  BY <1>1 DEF TypeRest, PlacedOnce, SleepersSuspended
<1>3. /\ a \in Seq(Thread) /\ b \in Seq(Thread) /\ Len(a) = n
      /\ Range(sleepq) = Range(a) \cup Range(b)
      /\ IsInjective(a) /\ IsInjective(b) /\ Range(a) \cap Range(b) = {}
  BY <1>2, SplitFacts DEF Woken, SleepqAfterWake
<1>4. g \in [Thread -> StateName] /\ \A x \in Thread : g[x] = IF x \in W THEN "RUNNABLE" ELSE state[x]
  BY <1>1 DEF StateAfterWake, TypeRest, StateName
<1>5. RunlistAfterWake(n) = runlist \o a
  BY DEF RunlistAfterWake
<1> HIDE DEF a, b, g
<1>6. /\ W \subseteq Thread
      /\ \A x \in W : state[x] = "SUSPENDED" /\ Asleep(x) /\ x \notin Range(runlist)
  BY <1>1, <1>3, Positions DEF SleepersSuspended, Asleep, PlacedOnce, InRunlist
<1>7. /\ runlist \o a \in Seq(Thread) /\ Range(runlist \o a) = Range(runlist) \cup W
      /\ IsInjective(runlist \o a)
  <2>1. Range(runlist) \cap Range(a) = {}
    BY <1>6
  <2>2. QED
    BY <1>2, <1>3, <2>1, ConcatFacts
<1>8. W \in SUBSET Thread /\ Cardinality(W) = n
  BY <1>3, Positions DEF Counting
<1> DEFINE F(x) == {t \in Thread : state[t] = x}
           G(x) == {t \in Thread : g[t] = x}
<1>9. /\ G("RUNNABLE") = F("RUNNABLE") \cup W /\ F("RUNNABLE") \cap W = {}
      /\ F("SUSPENDED") = G("SUSPENDED") \cup W /\ G("SUSPENDED") \cap W = {}
      /\ G("ZOMBIE") = F("ZOMBIE")
  BY <1>4, <1>6
<1>10. \A x : /\ F(x) \in SUBSET Thread /\ Cardinality(F(x)) \in Nat
              /\ G(x) \in SUBSET Thread /\ Cardinality(G(x)) \in Nat
  BY FiniteThreads
<1>11. \A x : CountOf(state, x) = Cardinality(F(x)) /\ CountOf(g, x) = Cardinality(G(x))
  BY DEF CountOf
<1>12. DaemonSet(g, daemon) = DaemonSet(state, daemon)
  BY <1>4, <1>6 DEF DaemonSet
<1> HIDE DEF F, G, W
<1>13. /\ Cardinality(G("RUNNABLE")) = Cardinality(F("RUNNABLE")) + n
       /\ Cardinality(F("SUSPENDED")) = Cardinality(G("SUSPENDED")) + n
  BY <1>8, <1>9, <1>10, DisjointUnion
<1>14. /\ CountOf(g, "RUNNABLE") = CountOf(state, "RUNNABLE") + n
       /\ CountOf(g, "SUSPENDED") = CountOf(state, "SUSPENDED") - n
       /\ CountOf(g, "ZOMBIE") = CountOf(state, "ZOMBIE")
  BY <1>2, <1>9, <1>10, <1>11, <1>13
<1>15. QED
  BY <1>2, <1>3, <1>4, <1>5, <1>6, <1>7, <1>12, <1>14 DEF a, b, g, W

\* thread_usleep preserves IInv: the sleepers it wakes are queued, the caller
\* joins the rest of the sleep queue.
LEMMA UsleepInv ==
    ASSUME Counting, IInv, NEW t \in Thread, NEW n \in 0..Len(sleepq), thread_usleep(t, n)
    PROVE  IInv'
<1> DEFINE W == Range(Woken(n))
           g == StateAfterWake(n)
           b == SleepqAfterWake(n)
<1>1. TypeRest /\ Counts /\ state[t] = "RUNNABLE" /\ t \notin Range(sleepq)
  BY CountsOfIInv DEF IInv, PlacedOnce, Runs, Running, thread_usleep, SleepersSuspended, Asleep
<1>2. /\ W \subseteq Thread /\ n \in Nat
      /\ \A x \in W : state[x] = "SUSPENDED" /\ Asleep(x)
      /\ runlist' \in Seq(Thread) /\ IsInjective(runlist')
      /\ Range(runlist') = Range(runlist) \cup W
      /\ b \in Seq(Thread) /\ IsInjective(b) /\ Range(b) = Range(sleepq) \ W
      /\ g \in [Thread -> StateName]
      /\ CountOf(g, "RUNNABLE") = CountOf(state, "RUNNABLE") + n
      /\ CountOf(g, "SUSPENDED") = CountOf(state, "SUSPENDED") - n
      /\ CountOf(g, "ZOMBIE") = CountOf(state, "ZOMBIE")
      /\ DaemonSet(g, daemon) = DaemonSet(state, daemon)
  BY WakeFacts DEF thread_usleep
<1>3. \A x \in Thread : g[x] = IF x \in W THEN "RUNNABLE" ELSE state[x]
  BY DEF StateAfterWake
<1>4. PICK i \in 1..Len(b) + 1 : sleepq' = ll_insert_before(b, i, t)
  BY DEF thread_usleep
<1>5. /\ state' = [g EXCEPT ![t] = "SUSPENDED"]
      /\ numSuspended' = numSuspended + 1 - n
      /\ numRunnable' = numRunnable - 1 + n
      /\ Running(t) /\ inScheduler' = TRUE
      /\ UNCHANGED <<current, sched, attrs, joinThread, joining, numZombie, numDaemon,
                     blocklist, exitedFlag, ptRunning, done>>
  BY DEF thread_usleep, SwitchToScheduler
<1> HIDE DEF W, g, b
<1>6. /\ sleepq' \in Seq(Thread) /\ IsInjective(sleepq')
      /\ Range(sleepq') = (Range(sleepq) \ W) \cup {t}
  BY <1>1, <1>2, <1>4, InsertAtFacts
<1>7. t \notin W /\ g[t] = "RUNNABLE"
  BY <1>1, <1>2, <1>3, Zenon
<1>8. /\ state' \in [Thread -> StateName]
      /\ \A x \in Thread : state'[x] = IF x = t THEN "SUSPENDED"
                                       ELSE IF x \in W THEN "RUNNABLE" ELSE state[x]
  BY <1>2, <1>3, <1>5 DEF StateName
<1>9. TypeRest'
  BY <1>1, <1>2, <1>5, <1>6, <1>8 DEF TypeRest, attrs
<1>10. Counts'
  <2>1. OneMoved(g, state', "SUSPENDED", "RUNNABLE")
    BY <1>2, <1>5, <1>7, <1>8, CountMove, Zenon DEF StateName
  <2>2. DaemonSet(state', daemon') = DaemonSet(g, daemon)
    BY <1>2, <1>5, <1>7, Zenon DEF DaemonSet, attrs
  <2>3. /\ CountOf(state', "SUSPENDED") = CountOf(g, "SUSPENDED") + 1
        /\ CountOf(state', "RUNNABLE") = CountOf(g, "RUNNABLE") - 1
        /\ CountOf(state', "ZOMBIE") = CountOf(g, "ZOMBIE")
    BY <2>1 DEF OneMoved, StateName
  <2>4. CountOf(state, "RUNNABLE") \in Nat /\ CountOf(state, "SUSPENDED") \in Nat
    BY CountNat
  <2>5. /\ numRunnable = CountOf(state, "RUNNABLE")
        /\ numSuspended = CountOf(state, "SUSPENDED")
        /\ numZombie = CountOf(state, "ZOMBIE")
        /\ numDaemon = Cardinality(DaemonSet(state, daemon))
    BY <1>1, Zenon DEF Counts
  <2>6. /\ n \in Nat
        /\ CountOf(g, "RUNNABLE") = CountOf(state, "RUNNABLE") + n
        /\ CountOf(g, "SUSPENDED") = CountOf(state, "SUSPENDED") - n
        /\ CountOf(g, "ZOMBIE") = CountOf(state, "ZOMBIE")
        /\ DaemonSet(g, daemon) = DaemonSet(state, daemon)
    BY <1>2, Zenon
  <2>7. /\ numSuspended' = numSuspended + 1 - n
        /\ numRunnable' = numRunnable - 1 + n
        /\ numZombie' = numZombie /\ numDaemon' = numDaemon
    BY <1>5, Zenon
  <2>8. /\ numRunnable' = CountOf(state', "RUNNABLE")
        /\ numSuspended' = CountOf(state', "SUSPENDED")
    BY <2>3, <2>4, <2>5, <2>6, <2>7
  <2>9. /\ numZombie' = CountOf(state', "ZOMBIE")
        /\ numDaemon' = Cardinality(DaemonSet(state', daemon'))
    BY <2>2, <2>3, <2>5, <2>6, <2>7, Zenon
  <2>10. QED
    BY <2>8, <2>9, Zenon DEF Counts
<1>11. PlacedOnce'
  <2>1. inScheduler' /\ blocklist' = blocklist /\ Runs(t)
    BY <1>5 DEF Running, Runs
  <2>2. ASSUME NEW x \in Thread
        PROVE  /\ state'[x] = "RUNNABLE" <=> x \in Range(runlist') \/ blocklist[WorldRank[x]] = x
               /\ ~(x \in Range(runlist') /\ blocklist[WorldRank[x]] = x)
    <3>1. /\ state[x] = "RUNNABLE" <=>
               x = t \/ x \in Range(runlist) \/ blocklist[WorldRank[x]] = x
          /\ ~(x \in Range(runlist) /\ blocklist[WorldRank[x]] = x)
          /\ x = t => x \notin Range(runlist) /\ blocklist[WorldRank[x]] # x
      BY <2>1 DEF IInv, PlacedOnce, Runs, InRunlist, Blocked
    <3>2. x \in W => state[x] = "SUSPENDED"
      BY <1>2
    <3>3. x \in Range(runlist') <=> x \in Range(runlist) \/ x \in W
      BY <1>2
    <3> QED
      BY <1>7, <1>8, <3>1, <3>2, <3>3
  <2>3. \A r \in Rank : blocklist'[r] # NoThread => WorldRank[blocklist'[r]] = r
    BY <2>1 DEF IInv, PlacedOnce
  <2> QED
    BY <1>2, <2>1, <2>2, <2>3, Zenon DEF PlacedOnce, Runs, InRunlist, Blocked
<1>12. SleepersSuspended'
  BY <1>2, <1>6, <1>8, Zenon DEF IInv, SleepersSuspended, Asleep
<1>13. \A x \in Thread : joining[x] # NoThread => x \notin W /\ x # t
  BY <1>2, <1>5, Zenon DEF IInv, Joining, Running
<1>14. \A x \in Thread : Alive(x)' <=> Alive(x)
  BY <1>1, <1>2, <1>8, Zenon DEF Alive
<1>15. JoinHandshake' /\ Joining' /\ MainInExit'
  <2>1. JoinHandshake'
    BY <1>1, <1>2, <1>5, <1>8, <1>13, <1>14, ThreadAssumption DEF IInv, JoinHandshake, Alive, TypeRest
  <2>2. Joining'
    BY <1>1, <1>2, <1>5, <1>6, <1>8, <1>13, <1>14, SMTT(30) DEF IInv, Joining, Alive, TypeRest,
       Asleep, threadlist, attrs
  <2>3. MainInExit'
    BY <1>5, Zenon DEF MainInExit, Running
  <2>4. QED
    BY <2>1, <2>2, <2>3
<1>16. ReapsTheExited' /\ Untouched'
  BY <1>1, <1>2, <1>5, <1>8, ThreadAssumption, Zenon DEF IInv, ReapsTheExited, Untouched, Running, attrs
<1>17. QED
  BY <1>9, <1>10, <1>11, <1>12, <1>15, <1>16, IInvFromParts

\* fgmpi_sleepq_remove_thread takes out u and nothing else.
LEMMA SleepqWithoutFacts ==
    ASSUME IInv, NEW u \in Thread
    PROVE  /\ SleepqWithout(u) \in Seq(Thread) /\ IsInjective(SleepqWithout(u))
           /\ Range(SleepqWithout(u)) = Range(sleepq) \ {u}
<1>1. sleepq \in Seq(Thread) /\ IsInjective(sleepq)
  BY DEF IInv, TypeOK, SleepersSuspended
<1>2. CASE u \in Range(sleepq)
  <2> DEFINE i == CHOOSE k \in DOMAIN sleepq : sleepq[k] = u
  <2>1. i \in 1..Len(sleepq) /\ sleepq[i] = u
    BY <1>1, <1>2, Positions DEF Range
  <2>2. SleepqWithout(u) = ll_remove_entry(sleepq, i)
    BY <1>2 DEF SleepqWithout
  <2> HIDE DEF i
  <2>3. QED
    BY <1>1, <2>1, <2>2, RemoveAtFacts
<1>3. CASE u \notin Range(sleepq)
  BY <1>1, <1>3 DEF SleepqWithout
<1>4. QED
  BY <1>2, <1>3

\* thread_resume preserves IInv: the thread leaves the sleep queue when it
\* becomes runnable.
LEMMA ResumeInv ==
    ASSUME Counting, IInv, NEW t \in Thread, NEW u \in Thread, thread_resume(t, u)
    PROVE  IInv'
<1>1. /\ TypeRest /\ Counts
      /\ state[u] = "SUSPENDED" /\ joining[u] = NoThread /\ u \notin Range(runlist)
      /\ runlist' = Append(runlist, u) /\ IsInjective(runlist)
  BY CountsOfIInv, Zenon DEF IInv, PlacedOnce, InRunlist, thread_resume, sched_add_thread
<1>2. /\ runlist' \in Seq(Thread) /\ IsInjective(runlist')
      /\ Range(runlist') = Range(runlist) \cup {u}
  BY <1>1, AppendFacts DEF TypeRest
<1>3. /\ sleepq' \in Seq(Thread) /\ IsInjective(sleepq')
      /\ Range(sleepq') = Range(sleepq) \ {u}
  BY SleepqWithoutFacts DEF thread_resume
<1> USE DEF thread_resume, NoSwitch
<1>4. TypeRest'
  BY <1>1, <1>2, <1>3 DEF TypeRest, StateName, attrs
<1>5. Counts'
  <2>1. OneMoved(state, state', "RUNNABLE", "SUSPENDED")
    BY <1>1, StateMove, Zenon DEF TypeRest, StateName
  <2>2. DaemonSet(state', daemon') = DaemonSet(state, daemon)
    BY <1>1 DEF DaemonSet, TypeRest, attrs
  <2>3. QED
    BY <1>1, <2>1, <2>2 DEF Counts, OneMoved, StateName
<1>6. PlacedOnce'
  BY <1>1, <1>2 DEF IInv, PlacedOnce, Runs, InRunlist, Blocked, Running, TypeRest
<1>7. SleepersSuspended'
  BY <1>1, <1>3 DEF IInv, SleepersSuspended, Asleep, TypeRest
<1>8. JoinHandshake' /\ MainInExit' /\ Joining'
  BY <1>1, <1>3, ThreadAssumption, SMTT(30) DEF IInv, JoinHandshake, MainInExit, Joining, Asleep,
     Alive, threadlist, TypeRest, Running, attrs
<1>9. ReapsTheExited' /\ Untouched'
  BY <1>1 DEF IInv, ReapsTheExited, Untouched, Running, TypeRest, attrs
<1>10. QED
  BY <1>4, <1>5, <1>6, <1>7, <1>8, <1>9, IInvFromParts

\* thread_set_daemon preserves IInv.
LEMMA SetDaemonInv ==
    ASSUME Counting, IInv, NEW t \in Thread, NEW u \in Thread, thread_set_daemon(t, u)
    PROVE  IInv'
<1>1. TypeRest /\ Counts
  BY CountsOfIInv
<1> USE DEF thread_set_daemon, NoSwitch
<1>2. TypeRest'
  BY <1>1 DEF TypeRest, queues
<1>3. Counts'
  <2>1. /\ u \notin DaemonSet(state, daemon)
        /\ DaemonSet(state', daemon') = DaemonSet(state, daemon) \cup {u}
        /\ DaemonSet(state, daemon) \in SUBSET Thread
    BY <1>1 DEF DaemonSet, TypeRest, Alive
  <2>2. Cardinality(DaemonSet(state', daemon')) = Cardinality(DaemonSet(state, daemon)) + 1
    BY <2>1, DaemonCount, Zenon
  <2>3. QED
    BY <1>1, <2>2 DEF Counts, CountOf
<1>4. PlacedOnce' /\ SleepersSuspended' /\ JoinHandshake' /\ Joining' /\ ReapsTheExited'
  <2>1. /\ runlist' = runlist /\ blocklist' = blocklist /\ sleepq' = sleepq /\ state' = state
        /\ joinable' = joinable /\ joinThread' = joinThread /\ joining' = joining
        /\ current' = current /\ inScheduler' = inScheduler /\ exitedFlag' = exitedFlag
        /\ done' = done
    BY DEF queues
  <2> HIDE DEF thread_set_daemon, NoSwitch
  <2>2. PlacedOnce' /\ SleepersSuspended'
    BY <2>1 DEF IInv, PlacedOnce, SleepersSuspended, Runs, InRunlist, Blocked, Asleep
  <2>3. JoinHandshake' /\ Joining' /\ ReapsTheExited'
    BY <2>1 DEF IInv, JoinHandshake, Joining, ReapsTheExited, Asleep, Alive, threadlist
  <2> QED
    BY <2>2, <2>3
<1>5. MainInExit' /\ Untouched'
  BY <1>1 DEF IInv, MainInExit, Untouched, Running, Alive, TypeRest
<1>6. QED
  BY <1>2, <1>3, <1>4, <1>5, IInvFromParts

\* thread_join preserves IInv: the target has at most this joiner, which
\* waits suspended unless the target has exited.
LEMMA JoinInv ==
    ASSUME Counting, IInv, NEW t \in Thread, NEW u \in Thread, thread_join(t, u)
    PROVE  IInv'
<1>1. /\ TypeRest /\ Counts /\ state[t] = "RUNNABLE" /\ ~Asleep(t)
      /\ u # t /\ u # NoThread /\ u \in threadlist
  BY CountsOfIInv, ThreadAssumption, Zenon DEF IInv, PlacedOnce, Runs, Running, thread_join, SleepersSuspended
<1>2. /\ joinThread' = [joinThread EXCEPT ![u] = t]
      /\ joining' = [joining EXCEPT ![t] = u]
      /\ Running(t) /\ joinable[u] /\ joinThread[u] = NoThread
      /\ UNCHANGED <<sched, attrs, numZombie, numDaemon, queues, exitedFlag,
                     ptRunning, done>>
  BY DEF thread_join, MayJoin
<1>3. CASE state[u] = "ZOMBIE"
  <2>1. UNCHANGED <<state, numSuspended, numRunnable, current, inScheduler>>
    BY <1>3 DEF thread_join, NoSwitch
  <2>2. TypeRest'
    BY <1>1, <1>2, <2>1 DEF TypeRest, attrs, queues
  <2>3. Counts'
    BY <1>1, <1>2, <2>1, Zenon DEF Counts, attrs
  <2>4. PlacedOnce' /\ SleepersSuspended'
    BY <1>2, <2>1, Zenon DEF IInv, PlacedOnce, SleepersSuspended, Runs, InRunlist, Blocked,
       Asleep, queues
  <2>5. JoinHandshake'
    BY <1>1, <1>2, <1>3, <2>1, ThreadAssumption DEF IInv, JoinHandshake, Alive, TypeRest, Running
  <2>6. Joining'
    BY <1>1, <1>2, <1>3, <2>1, ThreadAssumption DEF IInv, Joining, Alive, Asleep, TypeRest,
       Running, threadlist, attrs, queues
  <2>7. MainInExit' /\ ReapsTheExited' /\ Untouched'
    BY <1>1, <1>2, <1>3, <2>1 DEF IInv, MainInExit, ReapsTheExited, Untouched, Running,
       TypeRest, Alive, attrs
  <2>8. QED
    BY <2>2, <2>3, <2>4, <2>5, <2>6, <2>7, IInvFromParts
<1>4. CASE state[u] # "ZOMBIE"
  <2>1. /\ state' = [state EXCEPT ![t] = "SUSPENDED"]
        /\ numSuspended' = numSuspended + 1 /\ numRunnable' = numRunnable - 1
        /\ inScheduler' = TRUE /\ UNCHANGED current
    BY <1>4 DEF thread_join, SwitchToScheduler
  <2>2. Alive(u)
    BY <1>1, <1>4 DEF threadlist, Alive
  <2>3. TypeRest'
    BY <1>1, <1>2, <2>1 DEF TypeRest, attrs, queues, StateName
  <2>4. Counts'
    <3>1. OneMoved(state, state', "SUSPENDED", "RUNNABLE")
      BY <1>1, <2>1, StateMove, Zenon DEF TypeRest, StateName
    <3>2. DaemonSet(state', daemon') = DaemonSet(state, daemon)
      BY <1>1, <1>2, <2>1 DEF DaemonSet, TypeRest, attrs
    <3>3. QED
      BY <1>1, <1>2, <2>1, <3>1, <3>2 DEF Counts, OneMoved, StateName, attrs
  <2>5. PlacedOnce' /\ SleepersSuspended'
    BY <1>1, <1>2, <2>1, SMTT(30) DEF IInv, PlacedOnce, SleepersSuspended, Runs, InRunlist, Blocked,
       Asleep, queues, Running, TypeRest
  <2>6. JoinHandshake'
    BY <1>1, <1>2, <2>1, <2>2, ThreadAssumption DEF IInv, JoinHandshake, Alive, TypeRest, Running
  <2>7. Joining'
    BY <1>1, <1>2, <2>1, <2>2, ThreadAssumption, SMTT(30) DEF IInv, Joining, Alive, Asleep, TypeRest,
       Running, threadlist, attrs, queues
  <2>8. MainInExit' /\ ReapsTheExited' /\ Untouched'
    BY <1>1, <1>2, <2>1, <2>2, SMTT(30) DEF IInv, MainInExit, ReapsTheExited, Untouched, Running,
       TypeRest, Alive, attrs
  <2>9. QED
    BY <2>3, <2>4, <2>5, <2>6, <2>7, <2>8, IInvFromParts
<1>5. QED
  BY <1>3, <1>4

\* The return from thread_join preserves IInv: it frees the zombie it joined.
LEMMA JoinReturnInv ==
    ASSUME Counting, IInv, NEW t \in Thread, thread_join_return(t)
    PROVE  IInv'
<1> DEFINE u == joining[t]
<1>1. /\ TypeRest /\ Counts /\ u \in Thread /\ state[t] = "RUNNABLE"
      /\ state[u] = "ZOMBIE" /\ u # t /\ joinThread[u] = t /\ joinable[u]
  <2>1. TypeRest /\ Counts
    BY CountsOfIInv
  <2>2. u # NoThread /\ u \in Thread /\ Runs(t)
    BY <2>1 DEF TypeRest, thread_join_return, Runs
  <2>3. state[t] = "RUNNABLE"
    BY <2>2, Zenon DEF IInv, PlacedOnce
  <2>4. state[u] = "ZOMBIE"
    BY <2>2, <2>3, Zenon DEF IInv, JoinHandshake
  <2>5. u # t /\ joinThread[u] = t /\ joinable[u]
    BY <2>2, Zenon DEF IInv, Joining
  <2> QED
    BY <2>1, <2>2, <2>3, <2>4, <2>5, Zenon
<1>2. /\ state' = [state EXCEPT ![u] = "GHOST"] /\ numZombie' = numZombie - 1
      /\ joining' = [joining EXCEPT ![t] = NoThread]
      /\ ~done /\ ~inScheduler /\ current = t
      /\ UNCHANGED <<current, inScheduler, sched, attrs, joinThread, numRunnable,
                     numSuspended, numDaemon, queues, exitedFlag, ptRunning, done>>
  BY DEF thread_join_return, free_thread, NoSwitch
<1> HIDE DEF u
<1>3. TypeRest'
  BY <1>1, <1>2 DEF TypeRest, attrs, queues, StateName
<1>4. Counts'
  <2>1. OneMoved(state, state', "GHOST", "ZOMBIE")
    BY <1>1, <1>2, StateMove, Zenon DEF TypeRest, StateName
  <2>2. DaemonSet(state', daemon') = DaemonSet(state, daemon)
    BY <1>1, <1>2 DEF DaemonSet, TypeRest, attrs
  <2>3. QED
    BY <1>1, <1>2, <2>1, <2>2, Zenon DEF Counts, OneMoved, StateName, attrs
<1>5. PlacedOnce' /\ SleepersSuspended'
  BY <1>1, <1>2, Zenon DEF IInv, PlacedOnce, SleepersSuspended, Runs, InRunlist, Blocked,
     Asleep, queues, TypeRest
<1>6. \A x \in Thread : x # t /\ joining[x] # NoThread => joining[x] # u
  BY <1>1, Zenon DEF IInv, Joining
<1>7. JoinHandshake'
  BY <1>1, <1>2, <1>6, ThreadAssumption DEF IInv, JoinHandshake, Alive, TypeRest, u
<1>8. Joining'
  BY <1>1, <1>2, <1>6, ThreadAssumption, SMTT(30) DEF IInv, Joining, Alive, Asleep, TypeRest,
     threadlist, attrs, queues
<1>9. MainInExit' /\ ReapsTheExited' /\ Untouched'
  BY <1>1, <1>2, SMTT(30) DEF IInv, MainInExit, ReapsTheExited, Untouched, TypeRest, Alive, attrs
<1>10. QED
  BY <1>3, <1>4, <1>5, <1>7, <1>8, <1>9, IInvFromParts

\* The scheduler freeing an exited thread preserves IInv.
LEMMA ReapInv ==
    ASSUME Counting, IInv, SchedulerReap
    PROVE  IInv'
<1>1. /\ TypeRest /\ Counts /\ current \in Thread
      /\ state[current] = "ZOMBIE" /\ ~joinable[current]
  BY CountsOfIInv DEF IInv, ReapsTheExited, TypeRest, SchedulerReap
<1>2. /\ ~done /\ inScheduler /\ exitedFlag' = FALSE
      /\ UNCHANGED <<sched, attrs, joinThread, joining, numRunnable, numSuspended,
                     numDaemon, queues, current, inScheduler, ptRunning, done>>
  BY DEF SchedulerReap
<1>3. CASE current = Main
  <2>1. UNCHANGED <<state, numZombie>>
    BY <1>3 DEF SchedulerReap
  <2>2. QED
    <3>1. TypeRest' /\ Counts'
      BY <1>1, <1>2, <2>1, Zenon DEF TypeRest, Counts, attrs, queues
    <3>2. PlacedOnce' /\ SleepersSuspended' /\ JoinHandshake' /\ Joining'
      BY <1>2, <2>1, Zenon DEF IInv, PlacedOnce, SleepersSuspended, JoinHandshake, Joining, Runs,
         InRunlist, Blocked, Asleep, Alive, threadlist, queues, attrs
    <3>3. MainInExit' /\ ReapsTheExited' /\ Untouched'
      BY <1>2, <2>1, Zenon DEF IInv, MainInExit, ReapsTheExited, Untouched, Alive, attrs
    <3>4. QED
      BY <3>1, <3>2, <3>3, IInvFromParts
<1>4. CASE current # Main
  <2>1. state' = [state EXCEPT ![current] = "GHOST"] /\ numZombie' = numZombie - 1
    BY <1>4 DEF SchedulerReap, free_thread
  <2>2. TypeRest'
    BY <1>1, <1>2, <2>1, Zenon DEF TypeRest, attrs, queues, StateName
  <2>3. Counts'
    <3>1. OneMoved(state, state', "GHOST", "ZOMBIE")
      BY <1>1, <2>1, StateMove, Zenon DEF TypeRest, StateName
    <3>2. DaemonSet(state', daemon') = DaemonSet(state, daemon)
      BY <1>1, <1>2, <2>1 DEF DaemonSet, TypeRest, attrs
    <3>3. QED
      BY <1>1, <1>2, <2>1, <3>1, <3>2 DEF Counts, OneMoved, StateName, attrs
  <2>4. PlacedOnce' /\ SleepersSuspended'
    BY <1>1, <1>2, <2>1 DEF IInv, PlacedOnce, SleepersSuspended, Runs, InRunlist, Blocked,
       Asleep, queues, TypeRest
  <2>5. JoinHandshake' /\ Joining'
    BY <1>1, <1>2, <2>1, ThreadAssumption, SMTT(30) DEF IInv, JoinHandshake, Joining, Alive, Asleep,
       TypeRest, threadlist, attrs, queues
  <2>6. MainInExit' /\ ReapsTheExited' /\ Untouched'
    BY <1>1, <1>2, <1>4, <2>1 DEF IInv, MainInExit, ReapsTheExited, Untouched, TypeRest,
       Alive, attrs
  <2>7. QED
    BY <2>2, <2>3, <2>4, <2>5, <2>6, IInvFromParts
<1>5. QED
  BY <1>3, <1>4

\* What thread_exit does to the counts.
LEMMA ExitCounts ==
    ASSUME Counting, IInv, NEW t \in Thread, thread_exit(t)
    PROVE  Counts' /\ TypeRest'
<1> DEFINE j == joinThread[t]
           wakes == joinable[t] /\ j # NoThread /\ state[j] = "SUSPENDED"
           f == [state EXCEPT ![t] = "ZOMBIE"]
<1>1. /\ TypeRest /\ Counts /\ state[t] = "RUNNABLE"
      /\ t \notin Range(runlist) /\ IsInjective(runlist)
  BY CountsOfIInv, Zenon DEF IInv, PlacedOnce, Runs, InRunlist, Running, thread_exit
<1>2. /\ f \in [Thread -> StateName] /\ OneMoved(state, f, "ZOMBIE", "RUNNABLE")
  BY <1>1, CountMove, Zenon DEF TypeRest, StateName
<1>3. /\ CountOf(f, "RUNNABLE") = CountOf(state, "RUNNABLE") - 1
      /\ CountOf(f, "SUSPENDED") = CountOf(state, "SUSPENDED")
      /\ CountOf(f, "ZOMBIE") = CountOf(state, "ZOMBIE") + 1
  BY <1>2 DEF OneMoved, StateName
<1>4. CountOf(state, "RUNNABLE") \in Nat /\ CountOf(state, "SUSPENDED") \in Nat
  BY CountNat
<1>5. Cardinality(DaemonSet(state', daemon')) = numDaemon'
  <2>1. DaemonSet(state', daemon') = DaemonSet(state, daemon) \ {t}
    BY <1>1, Zenon DEF thread_exit, DaemonSet, TypeRest, attrs
  <2>2. DaemonSet(state, daemon) \in SUBSET Thread
    BY DEF DaemonSet
  <2>3. CASE daemon[t]
    <3>1. t \in DaemonSet(state, daemon)
      BY <1>1, <2>3 DEF DaemonSet
    <3>2. Cardinality(DaemonSet(state, daemon) \ {t}) = Cardinality(DaemonSet(state, daemon)) - 1
      BY <2>2, <3>1, DaemonCount
    <3>3. numDaemon' = numDaemon - 1
      BY <2>3, Zenon DEF thread_exit, DaemonsAfterExit, Bit
    <3>4. QED
      BY <1>1, <2>1, <3>2, <3>3 DEF Counts
  <2>4. CASE ~daemon[t]
    <3>1. DaemonSet(state, daemon) \ {t} = DaemonSet(state, daemon)
      BY <2>4 DEF DaemonSet
    <3>2. numDaemon' = numDaemon - 0
      BY <2>4 DEF thread_exit, DaemonsAfterExit, Bit
    <3>3. numDaemon \in Nat
      BY DEF IInv, TypeOK
    <3>4. QED
      BY <1>1, <2>1, <3>1, <3>2, <3>3 DEF Counts
  <2>5. QED
    BY <2>3, <2>4
<1>6. /\ current' = current /\ inScheduler' = TRUE /\ exitedFlag' \in BOOLEAN
      /\ UNCHANGED <<sched, attrs, joinThread, joining, blocklist, ptRunning, done>>
  BY <1>1 DEF thread_exit, SwitchToScheduler, LeftToScheduler, TypeRest
<1>7. CASE wakes
  <2>1. j \in Thread /\ j # t /\ j \notin Range(runlist)
    BY <1>1, <1>7 DEF TypeRest, IInv, PlacedOnce, InRunlist
  <2>2. /\ state' = [f EXCEPT ![j] = "RUNNABLE"] /\ state' \in [Thread -> StateName]
        /\ runlist' = Append(runlist, j) /\ sleepq' = SleepqWithout(j)
        /\ numRunnable' = numRunnable - 1 + 1 /\ numSuspended' = numSuspended - 1
        /\ numZombie' = numZombie + 1
    BY <1>1, <1>2, <1>7, <2>1, Zenon DEF thread_exit, sched_add_thread, Bit, TypeRest, StateName
  <2>3. f[j] = "SUSPENDED"
    BY <1>1, <1>7, <2>1 DEF TypeRest
  <2> HIDE DEF f, j
  <2>4. OneMoved(f, state', "RUNNABLE", "SUSPENDED")
    BY <1>2, <2>1, <2>2, <2>3, CountMove, Zenon DEF StateName
  <2>5. /\ CountOf(state', "RUNNABLE") = CountOf(f, "RUNNABLE") + 1
        /\ CountOf(state', "SUSPENDED") = CountOf(f, "SUSPENDED") - 1
        /\ CountOf(state', "ZOMBIE") = CountOf(f, "ZOMBIE")
    BY <2>4 DEF OneMoved, StateName
  <2>6. Counts'
    BY <1>1, <1>3, <1>4, <1>5, <2>2, <2>5, Zenon DEF Counts
  <2>7. runlist' \in Seq(Thread) /\ sleepq' \in Seq(Thread)
    BY <1>1, <2>1, <2>2, AppendFacts, SleepqWithoutFacts DEF TypeRest
  <2>8. QED
    BY <1>1, <1>6, <2>2, <2>6, <2>7 DEF TypeRest, attrs
<1>8. CASE ~wakes
  <2>1. /\ state' = f /\ runlist' = runlist /\ sleepq' = sleepq
        /\ numRunnable' = numRunnable - 1 + 0 /\ numSuspended' = numSuspended - 0
        /\ numZombie' = numZombie + 1
    BY <1>1, <1>8, Zenon DEF thread_exit, Bit, TypeRest
  <2>2. Counts'
    BY <1>1, <1>3, <1>4, <1>5, <2>1 DEF Counts
  <2>3. QED
    BY <1>1, <1>2, <1>6, <2>1, <2>2 DEF TypeRest, attrs
<1>9. QED
  BY <1>7, <1>8

\* thread_exit preserves IInv: a joiner is suspended and becomes runnable.
LEMMA ExitInv ==
    ASSUME Counting, IInv, NEW t \in Thread, thread_exit(t)
    PROVE  IInv'
<1> DEFINE j == joinThread[t]
           wakes == joinable[t] /\ j # NoThread /\ state[j] = "SUSPENDED"
<1>1. /\ TypeRest /\ state[t] = "RUNNABLE"
      /\ t \notin Range(runlist) /\ IsInjective(runlist)
      /\ ~Blocked(t) /\ joining[t] = NoThread /\ ~inScheduler /\ ~done /\ current = t
  BY CountsOfIInv, Zenon DEF IInv, PlacedOnce, Runs, InRunlist, Running, thread_exit
<1>2. /\ \A x \in Thread : state'[x] = IF x = t THEN "ZOMBIE"
                                       ELSE IF wakes /\ x = j THEN "RUNNABLE" ELSE state[x]
      /\ exitedFlag' = (exitedFlag \/ ~joinable[t])
      /\ current' = current /\ inScheduler' = TRUE
      /\ UNCHANGED <<sched, attrs, joinThread, joining, blocklist, ptRunning, done>>
  BY Zenon DEF thread_exit, SwitchToScheduler, LeftToScheduler
<1>3. j # NoThread => wakes /\ j \in Thread /\ j # t /\ joining[j] = t /\ ~Asleep(j)
  BY <1>1, ThreadAssumption DEF IInv, JoinHandshake, Joining, Alive, TypeRest
<1>4. /\ IsInjective(runlist')
      /\ Range(runlist') = IF wakes THEN Range(runlist) \cup {j} ELSE Range(runlist)
  <2>1. CASE wakes
    <3>1. j \in Thread /\ j \notin Range(runlist)
      BY <1>1, <2>1 DEF TypeRest, IInv, PlacedOnce, InRunlist
    <3>2. runlist' = Append(runlist, j)
      BY <2>1, Zenon DEF thread_exit, sched_add_thread
    <3>3. QED
      BY <1>1, <2>1, <3>1, <3>2, AppendFacts DEF TypeRest
  <2>2. CASE ~wakes
    BY <1>1, <2>2, Zenon DEF thread_exit
  <2>3. QED
    BY <2>1, <2>2, Zenon
<1>5. /\ IsInjective(sleepq')
      /\ Range(sleepq') = IF wakes THEN Range(sleepq) \ {j} ELSE Range(sleepq)
  <2>1. CASE wakes
    <3>1. j \in Thread /\ sleepq' = SleepqWithout(j)
      BY <1>1, <2>1, Zenon DEF TypeRest, thread_exit
    <3>2. QED
      BY <2>1, <3>1, SleepqWithoutFacts, Zenon
  <2>2. CASE ~wakes
    BY <2>2, Zenon DEF thread_exit, IInv, SleepersSuspended
  <2>3. QED
    BY <2>1, <2>2, Zenon
<1>a. /\ j = joinThread[t] /\ j \in Thread \cup {NoThread}
      /\ wakes => joinable[t] /\ j # NoThread /\ state[j] = "SUSPENDED"
  BY <1>1 DEF TypeRest
<1> HIDE DEF j, wakes
<1>6. PlacedOnce'
  <2>1. wakes => j \notin Range(runlist) /\ blocklist[WorldRank[j]] # j
    BY <1>3, <1>a, Zenon DEF IInv, PlacedOnce, InRunlist, Blocked
  <2>2. ASSUME NEW x \in Thread
        PROVE  /\ state'[x] = "RUNNABLE" <=> x \in Range(runlist') \/ blocklist[WorldRank[x]] = x
               /\ ~(x \in Range(runlist') /\ blocklist[WorldRank[x]] = x)
    <3>1. /\ state[x] = "RUNNABLE" <=>
               x = t \/ x \in Range(runlist) \/ blocklist[WorldRank[x]] = x
          /\ ~(x \in Range(runlist) /\ blocklist[WorldRank[x]] = x)
      BY <1>1 DEF IInv, PlacedOnce, Runs, InRunlist, Blocked
    <3>2. CASE x = t
      <4>1. /\ t \notin Range(runlist) /\ blocklist[WorldRank[t]] # t
            /\ ~(wakes /\ t = j) /\ state'[t] = "ZOMBIE"
        BY <1>1, <1>2, <1>3, <1>a, Zenon DEF Blocked
      <4> QED
        BY <1>4, <3>2, <4>1
    <3>3. CASE x # t
      BY <1>2, <1>4, <2>1, <3>1, <3>3, Zenon
    <3> QED
      BY <3>2, <3>3, Zenon
  <2>3. \A r \in Rank : blocklist'[r] # NoThread => WorldRank[blocklist'[r]] = r
    BY <1>2 DEF IInv, PlacedOnce
  <2>4. inScheduler' /\ blocklist' = blocklist
    BY <1>2
  <2> QED
    BY <1>4, <2>2, <2>3, <2>4, Zenon DEF PlacedOnce, Runs, InRunlist, Blocked
<1>7. SleepersSuspended'
  BY <1>1, <1>2, <1>3, <1>5, Zenon DEF IInv, SleepersSuspended, Asleep
<1>8. JoinHandshake'
  <2>1. ASSUME NEW u \in Thread, Alive(u)', joinThread[u] # NoThread
        PROVE  state'[joinThread[u]] = "SUSPENDED" /\ joining[joinThread[u]] = u
    <3>1. u # t /\ Alive(u) /\ joinThread[u] \in Thread
      BY <1>1, <1>2, <1>3, <1>a, <2>1 DEF Alive, TypeRest
    <3>2. state[joinThread[u]] = "SUSPENDED" /\ joining[joinThread[u]] = u
      BY <2>1, <3>1 DEF IInv, JoinHandshake
    <3> QED
      BY <1>1, <1>2, <1>3, <1>a, <3>1, <3>2
  <2>2. ASSUME NEW x \in Thread, joining[x] # NoThread, state'[x] = "RUNNABLE"
        PROVE  state'[joining[x]] = "ZOMBIE"
    <3>1. CASE wakes /\ x = j
      BY <1>2, <1>3, <1>a, <3>1
    <3>2. CASE ~(wakes /\ x = j)
      <4>1. state[x] = "RUNNABLE" /\ state[joining[x]] = "ZOMBIE" /\ joining[x] \in Thread
        BY <1>1, <1>2, <2>2, <3>2 DEF IInv, JoinHandshake, TypeRest
      <4> QED
        BY <1>2, <1>a, <4>1
    <3> QED
      BY <3>1, <3>2
  <2> QED
    BY <1>2, <2>1, <2>2 DEF JoinHandshake
<1>9. Joining'
  <2>1. ASSUME NEW x \in Thread, joining[x] # NoThread
        PROVE  /\ Alive(x)' /\ ~Asleep(x)' /\ joining[x] \in threadlist'
               /\ state'[x] = "SUSPENDED" => state'[joining[x]] \in {"RUNNABLE", "SUSPENDED"}
    <3>1. /\ Alive(x) /\ ~Asleep(x) /\ joinThread[joining[x]] = x
          /\ joining[x] \in threadlist
          /\ state[x] = "SUSPENDED" => Alive(joining[x])
      BY <2>1 DEF IInv, Joining
    <3>2. x # t /\ joining[x] \in Thread
      BY <1>1, <2>1 DEF TypeRest
    <3>3. Alive(x)'
      BY <1>2, <3>1, <3>2, Zenon DEF Alive
    <3>4. ~Asleep(x)'
      BY <1>5, <3>1, Zenon DEF Asleep
    <3>5. joining[x] \in threadlist'
      BY <1>2, <3>1, <3>2, Zenon DEF threadlist
    <3>6. ASSUME state'[x] = "SUSPENDED"
          PROVE  state'[joining[x]] \in {"RUNNABLE", "SUSPENDED"}
      <4>1. state[x] = "SUSPENDED" /\ ~(wakes /\ x = j)
        BY <1>2, <3>2, <3>6
      <4>2. joining[x] # t
        <5>1. ASSUME joining[x] = t PROVE FALSE
          <6>1. x = j /\ j # NoThread
            BY <1>a, <3>1, <5>1, ThreadAssumption
          <6> QED
            BY <1>3, <4>1, <6>1
        <5> QED
          BY <5>1
      <4> QED
        BY <1>2, <3>1, <3>2, <4>1, <4>2, Zenon DEF Alive
    <3> QED
      BY <3>3, <3>4, <3>5, <3>6
  <2>2. joining' = joining /\ joinThread' = joinThread /\ joinable' = joinable
    BY <1>2 DEF attrs
  <2> QED
    BY <2>1, <2>2, Zenon DEF IInv, Joining, Alive
<1>10. ReapsTheExited' /\ MainInExit' /\ Untouched'
  <2>1. ~exitedFlag
    BY <1>1 DEF IInv, ReapsTheExited
  <2>2. ReapsTheExited'
    BY <1>1, <1>2, <2>1, ThreadAssumption, Zenon DEF ReapsTheExited, TypeRest, attrs
  <2>3. MainInExit' /\ Untouched'
    BY <1>1, <1>2, <1>3, ThreadAssumption, Zenon DEF IInv, MainInExit, Untouched, attrs
  <2>4. QED
    BY <2>2, <2>3
<1>11. QED
  BY <1>6, <1>7, <1>8, <1>9, <1>10, ExitCounts, IInvFromParts
-----------------------------------------------------------------------------
\* runlist_init preserves IInv, first-in first-out or last-in first-out.
LEMMA RunlistInitInv ==
    ASSUME Counting, IInv, NEW t \in Thread, runlist_init(t)
    PROVE  IInv'
<1> DEFINE rl == sched_add_init_thread(runlist, t)
<1>1. /\ TypeRest /\ Counts /\ state[t] = "RUNNABLE" /\ ~Blocked(t)
      /\ t \notin Range(runlist) /\ IsInjective(runlist)
      /\ ~inScheduler /\ ~done /\ current = t
  BY CountsOfIInv, Zenon DEF IInv, PlacedOnce, Runs, InRunlist, Running, runlist_init
<1>2. rl \in Seq(Thread) /\ rl # <<>> /\ IsInjective(rl) /\ Range(rl) = Range(runlist) \cup {t}
  BY <1>1, AppendFacts, ConsFacts DEF sched_add_init_thread, TypeRest
<1>3. /\ current' = sched_next_init_thread(rl) /\ runlist' = RestAfterNextInit(rl)
      /\ UNCHANGED <<sched, state, attrs, joinThread, joining, counts, blocklist,
                     sleepq, inScheduler, exitedFlag, ptRunning, done>>
  BY DEF runlist_init
<1> HIDE DEF rl
<1>4. /\ current' \in Thread /\ runlist' \in Seq(Thread) /\ IsInjective(runlist')
      /\ Range(rl) = Range(runlist') \cup {current'} /\ current' \notin Range(runlist')
  <2>1. CASE sched = "invrr"
    BY <1>2, <1>3, <2>1, FrontLastFacts DEF sched_next_init_thread, RestAfterNextInit
  <2>2. CASE sched # "invrr"
    BY <1>2, <1>3, <2>2, HeadTailFacts DEF sched_next_init_thread, RestAfterNextInit
  <2>3. QED
    BY <2>1, <2>2
<1>5. TypeRest'
  BY <1>1, <1>3, <1>4, Zenon DEF TypeRest, attrs, counts
<1>6. Counts'
  BY <1>1, <1>3 DEF Counts, attrs, counts
<1>7. \A x \in Thread : /\ InRunlist(x)' \/ Runs(x)' <=> InRunlist(x) \/ Runs(x)
                       /\ ~(InRunlist(x)' /\ Runs(x)')
  BY <1>1, <1>2, <1>3, <1>4 DEF InRunlist, Runs
<1>8. PlacedOnce'
  BY <1>1, <1>3, <1>4, <1>7, Zenon DEF IInv, PlacedOnce, Blocked
<1>9. SleepersSuspended' /\ JoinHandshake' /\ Joining' /\ MainInExit'
  BY <1>3, Zenon DEF IInv, SleepersSuspended, JoinHandshake, Joining, MainInExit, Asleep, Alive,
     threadlist, attrs
<1>10. ReapsTheExited' /\ Untouched'
  BY <1>1, <1>3, <1>4, Zenon DEF IInv, ReapsTheExited, Untouched, attrs
<1>11. QED
  BY <1>5, <1>6, <1>8, <1>9, <1>10, IInvFromParts

\* What the scheduler's look at the sleep queue preserves, whatever the rest
\* of its turn does with the run list, current_thread and done.
LEMMA WakeSleepersInv ==
    ASSUME Counting, IInv, NEW n \in 0..Len(sleepq), WakeSleepers(n), inScheduler, ~done, ~exitedFlag,
           UNCHANGED <<sched, attrs, joinThread, joining, numZombie, numDaemon,
                       blocklist, exitedFlag, ptRunning>>,
           runlist' \in Seq(Thread), current' \in Thread \cup {NoThread},
           inScheduler' \in BOOLEAN, done' \in BOOLEAN
    PROVE  /\ TypeRest' /\ Counts' /\ SleepersSuspended' /\ JoinHandshake' /\ Joining'
           /\ ReapsTheExited'
           /\ \A x \in Thread : Alive(x)' <=> Alive(x)
           /\ \A x \in Thread : ~Alive(x) => state'[x] = state[x]
           /\ \A x \in Thread : state'[x] = "RUNNABLE"
                                <=> x \in Range(RunlistAfterWake(n)) \/ Blocked(x)
           /\ \A x \in Thread : ~(x \in Range(RunlistAfterWake(n)) /\ Blocked(x))
<1> DEFINE W == Range(Woken(n))
           rl == RunlistAfterWake(n)
<1>1. TypeRest /\ Counts
  BY CountsOfIInv
<1>2. /\ W \subseteq Thread /\ n \in Nat
      /\ \A x \in W : state[x] = "SUSPENDED" /\ Asleep(x)
      /\ Range(rl) = Range(runlist) \cup W
      /\ sleepq' \in Seq(Thread) /\ IsInjective(sleepq') /\ Range(sleepq') = Range(sleepq) \ W
      /\ state' \in [Thread -> StateName]
      /\ CountOf(state', "RUNNABLE") = CountOf(state, "RUNNABLE") + n
      /\ CountOf(state', "SUSPENDED") = CountOf(state, "SUSPENDED") - n
      /\ CountOf(state', "ZOMBIE") = CountOf(state, "ZOMBIE")
      /\ DaemonSet(state', daemon) = DaemonSet(state, daemon)
  BY WakeFacts, Zenon DEF WakeSleepers
<1>3. /\ \A x \in Thread : state'[x] = IF x \in W THEN "RUNNABLE" ELSE state[x]
      /\ numSuspended' = numSuspended - n /\ numRunnable' = numRunnable + n
  BY DEF WakeSleepers, StateAfterWake
<1> HIDE DEF W, rl
<1>4. TypeRest'
  BY <1>1, <1>2 DEF TypeRest, attrs
<1>5. Counts'
  BY <1>1, <1>2, <1>3, Zenon DEF Counts, attrs
<1>6. SleepersSuspended'
  BY <1>2, <1>3, Zenon DEF IInv, SleepersSuspended, Asleep
<1>7. /\ \A x \in Thread : Alive(x)' <=> Alive(x)
      /\ \A x \in Thread : ~Alive(x) => state'[x] = state[x]
  BY <1>1, <1>2, <1>3, Zenon DEF Alive
<1>8. \A x \in Thread : joining[x] # NoThread => x \notin W
  BY <1>2, Zenon DEF IInv, Joining
<1>9. JoinHandshake'
  BY <1>1, <1>2, <1>3, <1>7, <1>8, ThreadAssumption, SMTT(30) DEF IInv, JoinHandshake, Alive, TypeRest
<1>10. Joining'
  BY <1>1, <1>2, <1>3, <1>7, <1>8, Zenon DEF IInv, Joining, Alive, TypeRest, Asleep, threadlist, attrs
<1>11. ReapsTheExited'
  BY DEF ReapsTheExited
<1>12. \A x \in Thread : /\ state'[x] = "RUNNABLE" <=> x \in Range(rl) \/ Blocked(x)
                        /\ ~(x \in Range(rl) /\ Blocked(x))
  BY <1>2, <1>3, Zenon DEF IInv, PlacedOnce, Runs, InRunlist
<1>13. QED
  BY <1>4, <1>5, <1>6, <1>7, <1>9, <1>10, <1>11, <1>12, Zenon DEF rl

\* A turn of do_scheduler that dispatches, or finds the run list empty,
\* preserves IInv.
LEMMA DispatchInv ==
    ASSUME Counting, IInv, NEW n \in 0..Len(sleepq), SchedulerDispatch(n)
    PROVE  IInv'
<1> DEFINE rl == RunlistAfterWake(n)
<1>1. /\ ~done /\ inScheduler /\ ~exitedFlag /\ WakeSleepers(n)
      /\ UNCHANGED <<sched, attrs, joinThread, joining, numZombie, numDaemon,
                     blocklist, exitedFlag, ptRunning, done>>
      /\ rl = <<>> => current' = NoThread /\ runlist' = runlist /\ inScheduler' = inScheduler
      /\ rl # <<>> => current' = Head(rl) /\ runlist' = Tail(rl) /\ inScheduler' = FALSE
  BY Zenon DEF SchedulerDispatch
<1>2. rl \in Seq(Thread) /\ IsInjective(rl) /\ Range(rl) = Range(runlist) \cup Range(Woken(n))
  BY WakeFacts
<1>3. TypeRest
  BY CountsOfIInv
<1>w. /\ runlist' \in Seq(Thread) /\ current' \in Thread \cup {NoThread}
      /\ inScheduler' \in BOOLEAN /\ done' \in BOOLEAN
      => /\ TypeRest' /\ Counts' /\ SleepersSuspended' /\ JoinHandshake' /\ Joining'
         /\ ReapsTheExited'
         /\ \A x \in Thread : Alive(x)' <=> Alive(x)
         /\ \A x \in Thread : ~Alive(x) => state'[x] = state[x]
         /\ \A x \in Thread : state'[x] = "RUNNABLE" <=> x \in Range(rl) \/ Blocked(x)
         /\ \A x \in Thread : ~(x \in Range(rl) /\ Blocked(x))
  BY <1>1, WakeSleepersInv, Zenon
<1> HIDE DEF rl
<1>4. CASE rl = <<>>
  <2>1. Range(rl) = {}
    BY <1>4 DEF Range
  <2>2. /\ current' = NoThread /\ runlist' = runlist /\ inScheduler' /\ Range(runlist) = {}
        /\ runlist \in Seq(Thread) /\ IsInjective(runlist)
    BY <1>1, <1>2, <1>3, <1>4, <2>1, Zenon DEF TypeRest, IInv, PlacedOnce
  <2>3. /\ TypeRest' /\ Counts' /\ SleepersSuspended' /\ JoinHandshake' /\ Joining'
        /\ ReapsTheExited'
        /\ \A x \in Thread : ~Alive(x) => state'[x] = state[x]
        /\ \A x \in Thread : Alive(x)' <=> Alive(x)
        /\ \A x \in Thread : state'[x] = "RUNNABLE" <=> Blocked(x)
    BY <1>1, <1>3, <1>w, <2>1, <2>2, Zenon DEF TypeRest
  <2>4. PlacedOnce'
    BY <1>1, <2>2, <2>3, Zenon DEF IInv, PlacedOnce, Runs, InRunlist, Blocked
  <2>5. MainInExit' /\ Untouched'
    BY <1>1, <2>2, <2>3, ThreadAssumption, Zenon DEF IInv, MainInExit, Untouched, Alive, attrs
  <2>6. QED
    BY <2>3, <2>4, <2>5, IInvFromParts
<1>5. CASE rl # <<>>
  <2>1. /\ current' \in Thread /\ runlist' \in Seq(Thread) /\ IsInjective(runlist')
        /\ Range(rl) = Range(runlist') \cup {current'} /\ current' \notin Range(runlist')
    <3>1. /\ Head(rl) \in Thread /\ Tail(rl) \in Seq(Thread) /\ IsInjective(Tail(rl))
          /\ Range(rl) = Range(Tail(rl)) \cup {Head(rl)} /\ Head(rl) \notin Range(Tail(rl))
      BY <1>2, <1>5, HeadTailFacts
    <3>2. QED
      BY <1>1, <1>5, <3>1, Zenon
  <2>2. /\ TypeRest' /\ Counts' /\ SleepersSuspended' /\ JoinHandshake' /\ Joining'
        /\ ReapsTheExited'
        /\ \A x \in Thread : ~Alive(x) => state'[x] = state[x]
        /\ \A x \in Thread : Alive(x)' <=> Alive(x)
        /\ \A x \in Thread : state'[x] = "RUNNABLE" <=> x \in Range(rl) \/ Blocked(x)
        /\ \A x \in Thread : ~(x \in Range(rl) /\ Blocked(x))
    BY <1>1, <1>3, <1>5, <1>w, <2>1, Zenon DEF TypeRest
  <2>3. PlacedOnce'
    BY <1>1, <1>5, <2>1, <2>2, Zenon DEF IInv, PlacedOnce, Runs, InRunlist, Blocked
  <2>4. MainInExit' /\ Untouched'
    BY <1>1, <2>1, <2>2, ThreadAssumption, Zenon DEF IInv, MainInExit, Untouched, Alive, attrs
  <2>5. QED
    BY <2>2, <2>3, <2>4, IInvFromParts, Zenon
<1>6. QED
  BY <1>4, <1>5

\* The return to main: the counters the scheduler compares leave only
\* runnable daemons alive, and main is neither a daemon nor ever freed.
LEMMA ReturnToMainInv ==
    ASSUME Counting, IInv, NEW n \in 0..Len(sleepq), SchedulerReturnToMain(n)
    PROVE  IInv'
<1>1. /\ ~done /\ inScheduler /\ ~exitedFlag /\ WakeSleepers(n) /\ OnlyDaemonsLeft(n)
      /\ UNCHANGED <<sched, attrs, joinThread, joining, numZombie, numDaemon,
                     blocklist, exitedFlag, ptRunning>>
      /\ runlist' = RunlistAfterWake(n) /\ current' = Main /\ inScheduler' = FALSE /\ done' = TRUE
  BY DEF SchedulerReturnToMain
<1>2. runlist' \in Seq(Thread) /\ IsInjective(runlist')
  BY <1>1, WakeFacts, Zenon
<1>3. /\ TypeRest' /\ Counts' /\ SleepersSuspended' /\ JoinHandshake' /\ Joining'
      /\ ReapsTheExited'
      /\ \A x \in Thread : Alive(x)' <=> Alive(x)
      /\ \A x \in Thread : ~Alive(x) => state'[x] = state[x]
      /\ \A x \in Thread : state'[x] = "RUNNABLE" <=> x \in Range(runlist') \/ Blocked(x)
      /\ \A x \in Thread : ~(x \in Range(runlist') /\ Blocked(x))
  BY <1>1, <1>2, WakeSleepersInv, ThreadAssumption, Zenon
<1>4. PlacedOnce'
  BY <1>1, <1>2, <1>3, Zenon DEF IInv, PlacedOnce, Runs, InRunlist, Blocked
<1>5. numSuspended' = 0 /\ numRunnable' = numDaemon'
  BY <1>1 DEF WakeSleepers, OnlyDaemonsLeft
<1>6. MainInExit'
  <2> DEFINE S == {x \in Thread : state'[x] = "SUSPENDED"}
             R == {x \in Thread : state'[x] = "RUNNABLE"}
             D == DaemonSet(state', daemon')
  <2>1. Cardinality(S) = 0 /\ Cardinality(D) = Cardinality(R)
    BY <1>3, <1>5, Zenon DEF Counts, CountOf
  <2>2. S \in SUBSET Thread /\ R \in SUBSET Thread
    OBVIOUS
  <2>3. S = {}
    <3> HIDE DEF S
    <3>1. QED
      BY <2>1, <2>2, OnlyEmpty
  <2>4. D \subseteq R
    BY <2>3 DEF DaemonSet
  <2>5. D = R
    <3> HIDE DEF D, R
    <3>1. QED
      BY <2>1, <2>2, <2>4, SameSize
  <2>6. \A x \in Thread : Alive(x)' => daemon'[x] /\ state'[x] = "RUNNABLE"
    BY <2>3, <2>5 DEF DaemonSet, Alive
  <2>7. state'[Main] = "ZOMBIE"
    <3>1. ~daemon'[Main] /\ Main \in Thread
      BY <1>1, ThreadAssumption, Zenon DEF IInv, Untouched, attrs
    <3>2. ~Alive(Main)
      BY <1>3, <2>6, <3>1, Zenon
    <3>3. state'[Main] = state[Main] /\ state[Main] \notin {"NONE", "GHOST"}
      BY <1>3, <3>1, <3>2, Zenon DEF IInv, Untouched
    <3>4. QED
      BY <3>1, <3>2, <3>3, Zenon DEF IInv, TypeOK, Alive
  <2>8. QED
    BY <2>6, <2>7 DEF MainInExit
<1>7. Untouched'
  BY <1>1, <1>3, ThreadAssumption, Zenon DEF IInv, Untouched, Alive, attrs
<1>8. QED
  BY <1>3, <1>4, <1>6, <1>7, IInvFromParts, Zenon

-----------------------------------------------------------------------------
(* The theorems.                                                           *)

\* thread_init leaves the library in a state that satisfies IInv.
LEMMA InitInv ==
    ASSUME Counting, Init
    PROVE  IInv
<1>1. /\ {t \in Thread : state[t] = "RUNNABLE"} = {Main}
      /\ {t \in Thread : state[t] = "SUSPENDED"} = {}
      /\ {t \in Thread : state[t] = "ZOMBIE"} = {}
      /\ {t \in Thread : Alive(t) /\ daemon[t]} = {}
      /\ threadlist = {Main}
  BY ThreadAssumption DEF Init, Alive, threadlist
<1>2. Cardinality({Main}) = 1 /\ Cardinality({}) = 0
  BY ThreadAssumption, Zenon DEF Counting
<1>3. SanityCounts
  <2>1. /\ numRunnable = 1 /\ numSuspended = 0 /\ numZombie = 0 /\ numDaemon = 0
        /\ numRunnable + numSuspended + numZombie = 1
    BY DEF Init
  <2>2. QED
    BY <1>1, <1>2, <2>1, Zenon DEF SanityCounts
<1>4. TypeOK
  <2>1. <<>> \in Seq(Thread)
    OBVIOUS
  <2>2. QED
    BY <2>1, ThreadAssumption, Zenon DEF Init, TypeOK
<1>5. Range(runlist) = {} /\ Range(sleepq) = {} /\ IsInjective(runlist) /\ IsInjective(sleepq)
  <2>1. DOMAIN runlist = {} /\ DOMAIN sleepq = {}
    BY DEF Init
  <2>2. QED
    BY <2>1 DEF Range, IsInjective
<1>6. PlacedOnce /\ SleepersSuspended
  BY <1>5, ThreadAssumption, RankFacts, Zenon DEF Init, PlacedOnce, SleepersSuspended, Runs, InRunlist,
     Blocked, Asleep
<1>7. JoinHandshake /\ ReapsTheExited /\ MainInExit /\ Joining /\ Untouched
  BY ThreadAssumption, Zenon DEF Init, JoinHandshake, ReapsTheExited, MainInExit, Joining, Untouched
<1>8. QED
  BY <1>3, <1>4, <1>6, <1>7 DEF IInv

\* Every library call, every turn of the scheduler and a step that changes
\* nothing preserve IInv.
LEMMA NextInv ==
    ASSUME Counting, IInv, [Next]_vars
    PROVE  IInv'
<1>1. CASE Scheduler
  BY <1>1, ReapInv, DispatchInv, ReturnToMainInv DEF Scheduler
<1>2. CASE \E t \in Thread : Switch(t)
  BY <1>2, YieldInv, YieldOnEventInv, SuspendInv, UsleepInv, JoinReturnInv, ExitInv DEF Switch
<1>3. CASE \E t \in Thread : Call(t)
  BY <1>3, SpawnInv, InitProgressInv, StartProgressInv, NotifyInv, ResumeInv, SetDaemonInv,
     JoinInv, RunlistInitInv DEF Call
<1>4. CASE UNCHANGED vars
  <2>1. TypeOK'
    BY <1>4 DEF IInv, TypeOK, vars, attrs, counts, queues
  <2>2. SanityCounts'
    BY <1>4, Zenon DEF IInv, SanityCounts, Alive, threadlist, vars, attrs, counts, queues
  <2>3. PlacedOnce' /\ SleepersSuspended'
    BY <1>4, Zenon DEF IInv, PlacedOnce, SleepersSuspended, Runs, InRunlist, Asleep, Blocked, vars, queues
  <2>4. JoinHandshake' /\ Joining'
    BY <1>4, Zenon DEF IInv, JoinHandshake, Joining, Asleep, Alive, threadlist, vars, attrs, queues
  <2>5. ReapsTheExited' /\ MainInExit' /\ Untouched'
    BY <1>4, Zenon DEF IInv, ReapsTheExited, MainInExit, Untouched, Alive, vars, attrs
  <2>6. QED
    BY <2>1, <2>2, <2>3, <2>4, <2>5 DEF IInv
<1>5. QED
  BY <1>1, <1>2, <1>3, <1>4 DEF Next, Terminated

-----------------------------------------------------------------------------
INSTANCE FiniteSetTheorems

\* A set has as many elements as the positions 1..n that list it without repetition.
LEMMA CountedByPositions ==
    ASSUME NEW R, NEW n \in Nat, NEW f \in [1..n -> R],
           \A i, j \in 1..n : f[i] = f[j] => i = j, \A x \in R : \E i \in 1..n : f[i] = x
    PROVE  Cardinality(R) = n
<1>1. f \in Bijection(1..n, R)
  BY DEF Bijection, Injection, Surjection, IsInjective
<1>2. ExistsBijection(1..n, R)
  BY <1>1 DEF ExistsBijection
<1>3. IsFiniteSet(1..n) /\ Cardinality(1..n) = n
  BY FS_Interval
<1>4. QED
  BY <1>2, <1>3, FS_Bijection

\* So the lemmas assume nothing.
LEMMA CountingHolds == Counting
<1>1. Cardinality({}) = 0 /\ \A t \in Thread : Cardinality({t}) = 1
  BY FS_EmptySet, FS_Singleton, Zenon
<1>2. \A A \in SUBSET Thread : IsFiniteSet(A) /\ Cardinality(A) \in Nat
  BY ThreadAssumption, FS_Subset, FS_CardinalityType
<1>3. ASSUME NEW A \in SUBSET Thread, NEW B \in SUBSET Thread, A \cap B = {}
      PROVE  Cardinality(A \cup B) = Cardinality(A) + Cardinality(B)
  <2>1. Cardinality(A \cup B) = Cardinality(A) + Cardinality(B) - Cardinality(A \cap B)
    BY <1>2, FS_Union
  <2>2. Cardinality(A \cap B) = 0
    BY <1>1, <1>3, Zenon
  <2>3. Cardinality(A) \in Nat /\ Cardinality(B) \in Nat
    BY <1>2
  <2>4. QED
    BY <2>1, <2>2, <2>3
<1>4. \A A \in SUBSET Thread : \A B \in SUBSET A : Cardinality(B) = Cardinality(A) => B = A
  BY <1>2, FS_Subset
<1>5. ASSUME NEW s \in Seq(Thread), IsInjective(s)
      PROVE  Cardinality(Range(s)) = Len(s)
  BY <1>5, Positions, CountedByPositions
<1>6. QED
  BY <1>1, <1>2, <1>3, <1>4, <1>5 DEF Counting

\* The inductive invariant holds in every reachable state of the thread
\* library, whatever the number of threads and whichever scheduler is used.
THEOREM InductiveInvariant == Spec => []IInv
<1>1. Init => IInv
  BY InitInv, CountingHolds
<1>2. IInv /\ [Next]_vars => IInv'
  BY NextInv, CountingHolds
<1>3. QED
  BY <1>1, <1>2, PTL DEF Spec

\* The variables keep their types and the counters never become negative.
THEOREM TypeCorrect == Spec => []TypeOK
<1>1. IInv => TypeOK
  BY DEF IInv
<1>2. QED
  BY <1>1, InductiveInvariant, PTL

\* sanity_check_threadcounts never fails: the counters the scheduler ends the
\* process by are the numbers of threads in each state.
THEOREM CountersCorrect == Spec => []SanityCounts
<1>1. IInv => SanityCounts
  BY DEF IInv
<1>2. QED
  BY <1>1, InductiveInvariant, PTL

\* Every runnable coroutine is in exactly one of the run list, the block list
\* and execution, and no other coroutine is in any of them.
THEOREM RunnablePlacedOnce == Spec => []PlacedOnce
<1>1. IInv => PlacedOnce
  BY DEF IInv
<1>2. QED
  BY <1>1, InductiveInvariant, PTL

\* The assertions on t->sleep in do_scheduler and fgmpi_sleepq_add_thread
\* hold: a thread in the sleep queue is there once and is suspended.
THEOREM SleepersAreSuspended == Spec => []SleepersSuspended
<1>1. IInv => SleepersSuspended
  BY DEF IInv
<1>2. QED
  BY <1>1, InductiveInvariant, PTL

\* thread_exit finds the joiner it must wake suspended, and a thread_join
\* that returns frees a zombie nobody freed before it.
THEOREM JoinsAreSafe == Spec => []JoinHandshake
<1>1. IInv => JoinHandshake
  BY DEF IInv
<1>2. QED
  BY <1>1, InductiveInvariant, PTL

\* The scheduler frees only a thread that exited and that nobody may join.
THEOREM ReapIsSafe == Spec => []ReapsTheExited
<1>1. IInv => ReapsTheExited
  BY DEF IInv
<1>2. QED
  BY <1>1, InductiveInvariant, PTL

\* The OS process ends only after main's thread_exit, with no coroutine
\* alive but runnable daemons.
THEOREM ExitIsSafe == Spec => []MainInExit
<1>1. IInv => MainInExit
  BY DEF IInv
<1>2. QED
  BY <1>1, InductiveInvariant, PTL
==============================================================================
