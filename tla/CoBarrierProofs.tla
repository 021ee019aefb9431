--------------------------- MODULE CoBarrierProofs ---------------------------
(***************************************************************************)
(* For every layout of processes on OS processes and nodes, and any number *)
(* of barriers: IInv is an inductive invariant of CoBarrier, nobody leaves *)
(* early, and CoBarrier implements the safety part of Barrier.             *)
(***************************************************************************)
EXTENDS CoBarrier, FiniteSetTheorems, TLAPS

\* The sets the layout defines: a leader is nobody's follower, and everybody
\* else follows exactly one leader.
LEMMA Layout ==
    /\ Root \subseteq Leader /\ Leader \subseteq Rank
    /\ \A l \in Leader : LeaderOf[l] = l /\ RootOf[l] \in Root
    /\ \A l \in Root : RootOf[l] = l
    /\ \A p \in Rank : LeaderOf[p] \in Leader
    /\ \A p \in Rank \ Leader : p \in Others(LeaderOf[p])
    /\ \A l \in Leader : \A p \in Others(l) :
          p \in Rank /\ p \notin Leader /\ p # l /\ LeaderOf[p] = l
BY RankAssumption DEF Leader, Root, Others

\* The numbers of barriers entered, gathered for and left are compared in chains.
LEMMA Chain ==
  ASSUME NEW a \in Nat, NEW b \in Nat, NEW c \in Nat, a <= b, b <= c
  PROVE  a <= c
OBVIOUS

\* The followers of a leader, and those counted, are finite sets.
LEMMA Finite ==
  ASSUME NEW l \in Leader
  PROVE  /\ IsFiniteSet(Others(l)) /\ IsFiniteSet(Counted(l))
         /\ Counted(l) \subseteq Others(l)
         /\ Cardinality(Others(l)) \in Nat
<1>1. Others(l) \subseteq Rank  BY DEF Others
<1>2. IsFiniteSet(Others(l))  BY <1>1, FS_Subset, RankAssumption
<1>3. Counted(l) \subseteq Others(l)  BY DEF Counted
<1>4. IsFiniteSet(Counted(l))  BY <1>2, <1>3, FS_Subset
<1> QED  BY <1>2, <1>3, <1>4, FS_CardinalityType

\* Init, as MPID_Init sets the variables, satisfies the invariant.
LEMMA InitIInv == Init => IInv
<1> SUFFICES ASSUME Init PROVE IInv  OBVIOUS
<1> USE Layout DEF Init
<1>1. TypeOK  BY DEF TypeOK
<1>2. \A p \in Rank \ Leader : Position(p, LeaderOf[p])  BY DEF Position
<1>3. \A l \in Leader : LeaderPosition(l)  BY DEF LeaderPosition
<1>4. \A l \in Root : RootPosition(l)  BY DEF RootPosition
<1>5. \A l \in Leader : Gathering(l)
  <2> SUFFICES ASSUME NEW l \in Leader PROVE Gathering(l)  OBVIOUS
  <2>1. Counted(l) = {}  BY DEF Counted, Others
  <2>2. Cardinality({}) = 0  BY FS_EmptySet
  <2> QED  BY <2>1, <2>2 DEF Gathering
<1> QED  BY <1>1, <1>2, <1>3, <1>4, <1>5 DEF IInv

\* A step that leaves the followers of every leader alone, and the variables
\* they look at, leaves the set of those counted alone.
LEMMA CountedUnchanged ==
  ASSUME NEW l \in Leader, signal'[l] = signal[l],
         \A p \in Others(l) : pc'[p] = pc[p] /\ sense'[p] = sense[p]
  PROVE  Counted(l)' = Counted(l)
BY DEF Counted, Others

\* Arrive: the counter and the set of those counted grow together, and the
\* last one to come is the one that completes the set.
LEMMA ArriveIInv ==
  ASSUME IInv, NEW p \in Rank, Arrive(p)
  PROVE  IInv'
<1> USE Layout
<1>a. TypeOK  BY DEF IInv
<1> USE <1>a
<1> DEFINE l == LeaderOf[p]
<1>0. p \in Rank \ Leader /\ l \in Leader /\ p \in Others(l) /\ pc[p] = "out"
  BY DEF Arrive, Enters
<1>1. TypeOK'  BY <1>0 DEF TypeOK, Arrive, Enters, calls
<1>2. ASSUME NEW q \in Rank \ Leader PROVE Position(q, LeaderOf[q])'
  <2>1. Position(q, LeaderOf[q]) /\ LeaderOf[q] \in Leader  BY DEF IInv
  <2>2. CASE q = p
    BY <1>0, <2>1, <2>2 DEF Position, Arrive, Enters, TypeOK
  <2>3. CASE q # p
    BY <1>0, <2>1, <2>3 DEF Position, Arrive, Enters, TypeOK
  <2> QED  BY <2>2, <2>3
<1>3. ASSUME NEW k \in Leader PROVE LeaderPosition(k)'
  <2>1. LeaderPosition(k) /\ k # p  BY <1>0 DEF IInv
  <2> QED  BY <1>0, <2>1 DEF LeaderPosition, Arrive, Enters, TypeOK, calls
<1>4. ASSUME NEW k \in Root PROVE RootPosition(k)'
  <2>1. RootPosition(k) /\ k # p /\ k \in Leader  BY <1>0 DEF IInv
  <2> QED  BY <1>0, <2>1 DEF RootPosition, Arrive, Enters, TypeOK, calls
<1>5. ASSUME NEW k \in Leader PROVE Gathering(k)'
  <2>1. CASE k # l
    <3>1. Gathering(k)  BY DEF IInv
    <3>2. p \notin Others(k) /\ k # p  BY <1>0, <2>1
    <3>3. Counted(k)' = Counted(k)
      BY <1>0, <3>2, CountedUnchanged DEF Arrive, TypeOK, Others
    <3>4. counter'[k] = counter[k] /\ leaderSig'[k] = leaderSig[k] /\ pc'[k] = pc[k]
      BY <1>0, <2>1, <3>2 DEF Arrive, TypeOK
    <3>5. Others(k)' = Others(k)  BY DEF Others
    <3> QED  BY <3>1, <3>3, <3>4, <3>5 DEF Gathering
  <2>2. CASE k = l
    <3>1. Gathering(l)  BY <1>0 DEF IInv
    <3>2. Counted(l)' = Counted(l) \cup {p}
      BY <1>0 DEF Counted, Others, Arrive, TypeOK
    <3>3. p \notin Counted(l)  BY <1>0 DEF Counted
    <3>4. Cardinality(Counted(l)') = Cardinality(Counted(l)) + 1
      <4>1. IsFiniteSet(Counted(l))  BY <1>0, Finite
      <4>2. Cardinality(Counted(l) \cup {p}) = Cardinality(Counted(l)) + 1
        BY <4>1, <3>3, FS_AddElement, Zenon
      <4> QED  BY <4>2, <3>2
    <3>5. counter'[l] = counter[l] + 1 /\ pc'[l] = pc[l] /\ p # l
      BY <1>0 DEF Arrive, TypeOK
    <3>6. leaderSig[l] # 1 /\ pc[l] \notin {"node", "roots", "bcast", "free"}
      BY <1>0, <3>1, <3>3 DEF Gathering
    <3>7. leaderSig'[l] = 1 => Counted(l)' = Others(l)
      <4> SUFFICES ASSUME leaderSig'[l] = 1 PROVE Counted(l)' = Others(l)  OBVIOUS
      <4>1. IsLast(l)  BY <1>0, <3>6 DEF Arrive, TypeOK
      <4>2. Cardinality(Counted(l)') = Cardinality(Others(l))
        BY <4>1, <3>1, <3>4 DEF IsLast, Gathering
      <4>3. Counted(l)' \subseteq Others(l)  BY <3>2, <1>0, Finite
      <4> QED  BY <4>2, <4>3, <1>0, Finite, FS_Subset
    <3>8. Others(l)' = Others(l)  BY DEF Others
    <3>9. Gathering(l)' = (/\ counter'[l] = Cardinality(Counted(l)')
                           /\ leaderSig'[l] = 1 \/ pc'[l] \in {"node", "roots", "bcast", "free"}
                                 => Counted(l)' = Others(l)')
      BY DEF Gathering
    <3> HIDE DEF l
    <3>10. counter'[l] = Cardinality(Counted(l)')  BY <3>1, <3>4, <3>5 DEF Gathering
    <3> QED  BY <2>2, <3>5, <3>6, <3>7, <3>8, <3>9, <3>10
  <2> QED  BY <2>1, <2>2
<1>6. UNCHANGED <<atNode, atRoots, cast>> /\ \A k \in Leader : left'[k] = left[k]
  BY DEF Arrive, calls
<1> QED  BY <1>1, <1>2, <1>3, <1>4, <1>5, <1>6 DEF IInv

\* Depart: the process that leaves was not counted for the present barrier.
LEMMA DepartIInv ==
  ASSUME IInv, NEW p \in Rank, Depart(p)
  PROVE  IInv'
<1> USE Layout
<1>a. TypeOK  BY DEF IInv
<1> USE <1>a
<1>0. p \in Rank \ Leader /\ LeaderOf[p] \in Leader /\ pc[p] = "wait"
  <2>1. p \in Leader => LeaderPosition(p)  BY DEF IInv
  <2> QED  BY <2>1 DEF Depart, LeaderPosition
<1>1. Position(p, LeaderOf[p]) /\ left[p] \in Nat  BY <1>0 DEF IInv, TypeOK
<1>2. TypeOK'  BY <1>0 DEF TypeOK, Depart, shared, calls
<1>3. ASSUME NEW q \in Rank \ Leader PROVE Position(q, LeaderOf[q])'
  <2>1. Position(q, LeaderOf[q]) /\ LeaderOf[q] \in Leader  BY DEF IInv
  <2>2. CASE q = p
    BY <1>0, <2>1, <2>2 DEF Position, Depart, TypeOK, shared
  <2>3. CASE q # p
    BY <1>0, <2>1, <2>3 DEF Position, Depart, TypeOK, shared
  <2> QED  BY <2>2, <2>3
<1>4. ASSUME NEW k \in Leader PROVE LeaderPosition(k)'
  <2>1. LeaderPosition(k) /\ k # p  BY <1>0 DEF IInv
  <2> QED  BY <1>0, <2>1 DEF LeaderPosition, Depart, TypeOK, calls
<1>5. ASSUME NEW k \in Root PROVE RootPosition(k)'
  <2>1. RootPosition(k) /\ k # p /\ k \in Leader  BY <1>0 DEF IInv
  <2> QED  BY <1>0, <2>1 DEF RootPosition, Depart, TypeOK, calls
<1>6. ASSUME NEW k \in Leader PROVE Gathering(k)'
  <2>1. Gathering(k) /\ k # p  BY <1>0 DEF IInv
  <2>2. Counted(k)' = Counted(k)
    BY <1>0 DEF Counted, Others, Depart, TypeOK, shared
  <2>3. counter'[k] = counter[k] /\ leaderSig'[k] = leaderSig[k] /\ pc'[k] = pc[k]
    BY <1>0, <2>1 DEF Depart, TypeOK, shared
  <2>4. Others(k)' = Others(k)  BY DEF Others
  <2> QED  BY <2>1, <2>2, <2>3, <2>4 DEF Gathering
<1>7. UNCHANGED <<atNode, atRoots, cast>> /\ \A k \in Leader : left'[k] = left[k]
  BY <1>0 DEF Depart, calls, TypeOK
<1> QED  BY <1>2, <1>3, <1>4, <1>5, <1>6, <1>7 DEF IInv

\* A step of a leader before the release: its followers, and whom they are
\* counted by, stay where they are.
LEMMA LeaderAlone ==
  ASSUME IInv, NEW l \in Leader, NEW x, pc' = [pc EXCEPT ![l] = x],
         UNCHANGED <<shared, sense, left>>,
         \A q \in Rank \ Leader : entered'[q] = entered[q]
  PROVE  /\ \A q \in Rank \ Leader : Position(q, LeaderOf[q])'
         /\ \A k \in Leader : Counted(k)' = Counted(k)
         /\ \A k \in Leader \ {l} : Gathering(k)'
<1> USE Layout
<1>a. TypeOK  BY DEF IInv
<1> USE <1>a
<1>1. ASSUME NEW q \in Rank \ Leader PROVE Position(q, LeaderOf[q])'
  <2>1. Position(q, LeaderOf[q]) /\ q # l  BY DEF IInv
  <2> QED  BY <2>1 DEF Position, TypeOK, shared
<1>2. ASSUME NEW k \in Leader PROVE Counted(k)' = Counted(k)
  BY DEF Counted, Others, TypeOK, shared
<1>3. ASSUME NEW k \in Leader \ {l} PROVE Gathering(k)'
  <2>1. Gathering(k)  BY DEF IInv
  <2>2. Counted(k)' = Counted(k) /\ Others(k)' = Others(k)  BY <1>2 DEF Others
  <2>3. counter'[k] = counter[k] /\ leaderSig'[k] = leaderSig[k] /\ pc'[k] = pc[k]
    BY DEF TypeOK, shared
  <2> QED  BY <2>1, <2>2, <2>3 DEF Gathering
<1> QED  BY <1>1, <1>2, <1>3

\* ArriveLeader: nothing but the leader's own place changes.
LEMMA ArriveLeaderIInv ==
  ASSUME IInv, NEW l \in Leader, ArriveLeader(l)
  PROVE  IInv'
<1> USE Layout
<1>a. TypeOK  BY DEF IInv
<1> USE <1>a
<1>0. LeaderPosition(l) /\ pc[l] = "out" /\ Gathering(l)  BY DEF IInv, ArriveLeader, Enters
<1>1. TypeOK'  BY DEF TypeOK, ArriveLeader, Enters, shared, calls
<1>2. /\ \A q \in Rank \ Leader : Position(q, LeaderOf[q])'
      /\ \A k \in Leader : Counted(k)' = Counted(k)
      /\ \A k \in Leader \ {l} : Gathering(k)'
  <2>1. \A q \in Rank \ Leader : entered'[q] = entered[q]
    BY DEF ArriveLeader, Enters, TypeOK
  <2> QED  BY <2>1, LeaderAlone, Zenon DEF ArriveLeader
<1>3. ASSUME NEW k \in Leader PROVE LeaderPosition(k)'
  <2>1. LeaderPosition(k)  BY DEF IInv
  <2> QED  BY <1>0, <2>1 DEF LeaderPosition, ArriveLeader, Enters, TypeOK, calls
<1>4. ASSUME NEW k \in Root PROVE RootPosition(k)'
  <2>1. RootPosition(k) /\ k \in Leader  BY DEF IInv
  <2> QED  BY <1>0, <2>1 DEF RootPosition, ArriveLeader, TypeOK, calls
<1>5. Gathering(l)'
  <2>1. counter'[l] = counter[l] /\ leaderSig'[l] = leaderSig[l] /\ pc'[l] = "lead"
    BY DEF ArriveLeader, TypeOK, shared
  <2>2. Counted(l)' = Counted(l) /\ Others(l)' = Others(l)  BY <1>2 DEF Others
  <2> QED  BY <1>0, <2>1, <2>2 DEF Gathering
<1>6. UNCHANGED <<atNode, atRoots, cast, left>>  BY DEF ArriveLeader, calls
<1>7. \A k \in Leader : Gathering(k)'  BY <1>2, <1>5
<1> QED  BY <1>1, <1>2, <1>3, <1>4, <1>6, <1>7 DEF IInv

\* Gathered: leader_signal, or having no follower, tells the leader that all its
\* followers are counted.
LEMMA GatheredIInv ==
  ASSUME IInv, NEW l \in Leader, Gathered(l)
  PROVE  IInv'
<1> USE Layout
<1>a. TypeOK  BY DEF IInv
<1> USE <1>a
<1>0. LeaderPosition(l) /\ pc[l] = "lead" /\ Gathering(l)  BY DEF IInv, Gathered
<1>1. TypeOK'  BY DEF TypeOK, Gathered, shared
<1>2. /\ \A q \in Rank \ Leader : Position(q, LeaderOf[q])'
      /\ \A k \in Leader : Counted(k)' = Counted(k)
      /\ \A k \in Leader \ {l} : Gathering(k)'
  BY LeaderAlone, Zenon DEF Gathered
<1>3. ASSUME NEW k \in Leader PROVE LeaderPosition(k)'
  <2>1. LeaderPosition(k)  BY DEF IInv
  <2> QED  BY <1>0, <2>1 DEF LeaderPosition, Gathered, TypeOK
<1>4. ASSUME NEW k \in Root PROVE RootPosition(k)'
  <2>1. RootPosition(k) /\ k \in Leader  BY DEF IInv
  <2> QED  BY <1>0, <2>1 DEF RootPosition, Gathered, TypeOK
<1>5. Gathering(l)'
  <2>1. Counted(l) = Others(l)
    <3>1. leaderSig[l] \in {0, 1}  BY DEF TypeOK
    <3> QED  BY <1>0, <3>1, Finite, Zenon DEF Gathering, Gathered
  <2>2. counter'[l] = counter[l]  BY DEF Gathered, shared
  <2>3. Counted(l)' = Counted(l) /\ Others(l)' = Others(l)  BY <1>2 DEF Others
  <2> QED  BY <1>0, <2>1, <2>2, <2>3 DEF Gathering
<1>6. \A k \in Leader : Gathering(k)'  BY <1>2, <1>5
<1>7. UNCHANGED <<atRoots, cast, left>> /\ \A k \in Leader : atNode'[k] >= atNode[k]
  BY DEF Gathered, TypeOK
<1>8. ASSUME NEW k \in Leader PROVE atRoots'[RootOf[k]] <= atNode'[k]
  <2>1. atRoots[RootOf[k]] <= atNode[k]  BY DEF IInv
  <2>2. atRoots[RootOf[k]] \in Nat /\ atNode[k] \in Nat /\ atNode'[k] \in Nat
    BY <1>1 DEF TypeOK
  <2> QED  BY <1>7, <2>1, <2>2
<1> QED  BY <1>1, <1>2, <1>3, <1>4, <1>6, <1>7, <1>8 DEF IInv

\* NodeBarrier: a root that leaves it knows that all leaders of its node came.
LEMMA NodeBarrierIInv ==
  ASSUME IInv, NEW l \in Leader, NodeBarrier(l)
  PROVE  IInv'
<1> USE Layout
<1>a. TypeOK  BY DEF IInv
<1> USE <1>a
<1>0. LeaderPosition(l) /\ pc[l] = "node" /\ Gathering(l)  BY DEF IInv, NodeBarrier
<1>1. TypeOK'
  <2>1. pc' \in [Rank -> {"out", "wait", "lead", "node", "roots", "bcast", "free"}]
    BY DEF TypeOK, NodeBarrier
  <2>2. atRoots' \in [Root -> Nat]  BY DEF TypeOK, NodeBarrier
  <2>3. UNCHANGED <<counter, leaderSig, signal, sense, entered, left, atNode, cast>>
    BY DEF NodeBarrier, shared
  <2> QED  BY <2>1, <2>2, <2>3 DEF TypeOK
<1> DEFINE x == IF l \in Root THEN "roots" ELSE "bcast"
<1>2. pc' = [pc EXCEPT ![l] = x] /\ pc'[l] = x
  BY DEF NodeBarrier, TypeOK
<1>3. /\ \A q \in Rank \ Leader : Position(q, LeaderOf[q])'
      /\ \A k \in Leader : Counted(k)' = Counted(k)
      /\ \A k \in Leader \ {l} : Gathering(k)'
  <2>1. UNCHANGED <<shared, sense, left>> /\ \A q \in Rank \ Leader : entered'[q] = entered[q]
    BY DEF NodeBarrier
  <2> HIDE DEF x
  <2> QED  BY <1>2, <2>1, LeaderAlone, Zenon
<1>4. ASSUME NEW k \in Leader PROVE LeaderPosition(k)'
  <2>1. LeaderPosition(k)  BY DEF IInv
  <2>2. UNCHANGED <<entered, left, atNode>>  BY DEF NodeBarrier
  <2> QED  BY <1>0, <1>2, <2>1, <2>2 DEF LeaderPosition, TypeOK
<1>5. ASSUME NEW k \in Root PROVE RootPosition(k)'
  <2>1. RootPosition(k) /\ k \in Leader  BY DEF IInv
  <2>2. CASE k = l  BY <1>0, <2>1, <2>2 DEF RootPosition, NodeBarrier, TypeOK
  <2>3. CASE k # l  BY <1>0, <2>1, <2>3 DEF RootPosition, NodeBarrier, TypeOK
  <2> QED  BY <2>2, <2>3
<1>6. Gathering(l)'
  <2>1. counter'[l] = counter[l]  BY DEF NodeBarrier, shared
  <2>2. Counted(l)' = Counted(l) /\ Others(l)' = Others(l)  BY <1>3 DEF Others
  <2> QED  BY <1>0, <2>1, <2>2 DEF Gathering
<1>7. \A k \in Leader : Gathering(k)'  BY <1>3, <1>6
<1>8. UNCHANGED <<atNode, cast, left>>  BY DEF NodeBarrier
<1>9. ASSUME NEW k \in Leader PROVE atRoots'[RootOf[k]] <= atNode'[k]
  <2>1. atRoots[RootOf[k]] <= atNode[k]  BY DEF IInv
  <2>2. CASE l \in Root /\ RootOf[k] = l
    <3>1. atNode[k] >= atNode[l]  BY <2>2 DEF NodeBarrier
    <3>2. atNode[l] = left[l] + 1  BY <1>0 DEF LeaderPosition
    <3>3. atRoots[l] = left[l]  BY <1>0, <2>2 DEF IInv, RootPosition
    <3>4. atRoots'[l] = atRoots[l] + 1  BY <2>2 DEF NodeBarrier, TypeOK
    <3> QED  BY <2>2, <3>1, <3>2, <3>3, <3>4, <1>8 DEF TypeOK
  <2>3. CASE ~(l \in Root /\ RootOf[k] = l)
    <3>1. atRoots'[RootOf[k]] = atRoots[RootOf[k]]  BY <2>3 DEF NodeBarrier, TypeOK
    <3> QED  BY <2>1, <3>1, <1>8
  <2> QED  BY <2>2, <2>3
<1>10. ASSUME NEW k \in Root, NEW m \in Root PROVE cast'[k] <= atRoots'[m]
  <2>1. cast[k] <= atRoots[m]  BY DEF IInv
  <2>2. atRoots'[m] = atRoots[m] \/ atRoots'[m] = atRoots[m] + 1
    BY DEF NodeBarrier, TypeOK
  <2> QED  BY <2>1, <2>2, <1>8 DEF TypeOK
<1> QED  BY <1>1, <1>3, <1>4, <1>5, <1>7, <1>8, <1>9, <1>10 DEF IInv

\* RootsBarrier: a root that leaves it knows that all roots came.
LEMMA RootsBarrierIInv ==
  ASSUME IInv, NEW l \in Leader, RootsBarrier(l)
  PROVE  IInv'
<1> USE Layout
<1>a. TypeOK  BY DEF IInv
<1> USE <1>a
<1>0. LeaderPosition(l) /\ RootPosition(l) /\ pc[l] = "roots" /\ Gathering(l) /\ l \in Root
  BY DEF IInv, RootsBarrier
<1>1. TypeOK'  BY <1>0 DEF TypeOK, RootsBarrier, shared
<1>2. /\ \A q \in Rank \ Leader : Position(q, LeaderOf[q])'
      /\ \A k \in Leader : Counted(k)' = Counted(k)
      /\ \A k \in Leader \ {l} : Gathering(k)'
  BY LeaderAlone, Zenon DEF RootsBarrier
<1>3. ASSUME NEW k \in Leader PROVE LeaderPosition(k)'
  <2>1. LeaderPosition(k)  BY DEF IInv
  <2> QED  BY <1>0, <2>1, SMTT(20) DEF LeaderPosition, RootsBarrier, TypeOK
<1>4. ASSUME NEW k \in Root PROVE RootPosition(k)'
  <2>1. RootPosition(k) /\ k \in Leader  BY DEF IInv
  <2> QED  BY <1>0, <2>1, SMTT(20) DEF RootPosition, RootsBarrier, TypeOK
<1>5. Gathering(l)'
  <2>1. counter'[l] = counter[l]  BY DEF RootsBarrier, shared
  <2>2. Counted(l)' = Counted(l) /\ Others(l)' = Others(l)  BY <1>2 DEF Others
  <2> QED  BY <1>0, <2>1, <2>2 DEF Gathering
<1>6. \A k \in Leader : Gathering(k)'  BY <1>2, <1>5
<1>7. UNCHANGED <<atNode, atRoots, left>>  BY DEF RootsBarrier
<1>8. ASSUME NEW k \in Root, NEW m \in Root PROVE cast'[k] <= atRoots'[m]
  <2>1. cast[k] <= atRoots[m]  BY DEF IInv
  <2>2. CASE k = l
    <3>1. atRoots[m] >= atRoots[l]  BY DEF RootsBarrier
    <3>2. cast'[l] = atRoots[l]  BY <1>0 DEF RootPosition, RootsBarrier, TypeOK
    <3> QED  BY <2>2, <3>1, <3>2, <1>7 DEF TypeOK
  <2>3. CASE k # l  BY <2>1, <2>3, <1>7 DEF RootsBarrier, TypeOK
  <2> QED  BY <2>2, <2>3
<1>9. ASSUME NEW k \in Leader PROVE left'[k] <= cast'[RootOf[k]]
  <2>1. left[k] <= cast[RootOf[k]]  BY DEF IInv
  <2>2. \/ cast'[RootOf[k]] = cast[RootOf[k]]
        \/ cast'[RootOf[k]] = cast[RootOf[k]] + 1
    BY DEF RootsBarrier, TypeOK
  <2> QED  BY <2>1, <2>2, <1>7 DEF TypeOK
<1> QED  BY <1>1, <1>2, <1>3, <1>4, <1>6, <1>7, <1>8, <1>9 DEF IInv

\* Release: every follower saw the signal that is flipped, so nobody is counted
\* for the next barrier yet.
LEMMA ReleaseIInv ==
  ASSUME IInv, NEW l \in Leader, Release(l)
  PROVE  IInv'
<1> USE Layout
<1>a. TypeOK  BY DEF IInv
<1> USE <1>a
<1>0. LeaderPosition(l) /\ pc[l] \in {"free", "bcast"} /\ Gathering(l)
  BY DEF IInv, Release, Through
<1>1. Counted(l) = Others(l)  BY <1>0 DEF Gathering
<1>2. TypeOK'
  <2>1. signal[l] \in {0, 1}  BY DEF TypeOK
  <2>2. 1 - signal[l] \in {0, 1}  BY <2>1
  <2> QED  BY <2>2 DEF TypeOK, Release, calls
<1>3. signal'[l] # signal[l] /\ left'[l] = left[l] + 1
  BY DEF TypeOK, Release
<1>4. ASSUME NEW q \in Rank \ Leader PROVE Position(q, LeaderOf[q])'
  <2>1. Position(q, LeaderOf[q]) /\ q # l  BY DEF IInv
  <2>2. UNCHANGED <<pc[q], sense[q], entered[q], left[q]>>
    BY <2>1 DEF Release, TypeOK
  <2>3. CASE LeaderOf[q] = l
    <3>1. pc[q] = "wait" /\ sense[q] = signal[l]  BY <1>1, <2>3 DEF Counted
    <3>2. left[l] \in Nat  BY DEF TypeOK
    <3> HIDE Layout, <1>a
    <3>3. entered[q] = left[l] + 1 /\ left[q] = left[l]  BY <2>1, <2>3, <3>1 DEF Position
    <3>4. /\ pc'[q] = "wait" /\ sense'[q] # signal'[l]
          /\ entered'[q] = left'[l] /\ left'[q] = left'[l] - 1
      BY <1>3, <2>2, <3>1, <3>2, <3>3
    <3> QED  BY <2>3, <3>4 DEF Position
  <2>4. CASE LeaderOf[q] # l
    <3>1. left'[LeaderOf[q]] = left[LeaderOf[q]] /\ signal'[LeaderOf[q]] = signal[LeaderOf[q]]
      BY <2>4 DEF Release, TypeOK
    <3> QED  BY <2>1, <2>2, <3>1 DEF Position
  <2> QED  BY <2>3, <2>4
<1>5. ASSUME NEW k \in Leader PROVE LeaderPosition(k)'
  <2>1. LeaderPosition(k)  BY DEF IInv
  <2> QED  BY <1>0, <2>1 DEF LeaderPosition, Release, TypeOK, calls
<1>6. ASSUME NEW k \in Root PROVE RootPosition(k)'
  <2>1. RootPosition(k) /\ k \in Leader  BY DEF IInv
  <2>2. CASE k = l
    BY <1>0, <2>1, <2>2 DEF RootPosition, Release, TypeOK, calls
  <2>3. CASE k # l
    BY <2>1, <2>3 DEF RootPosition, Release, TypeOK, calls
  <2> QED  BY <2>2, <2>3
<1>7. ASSUME NEW k \in Leader PROVE Gathering(k)'
  <2>1. Gathering(k) /\ Others(k)' = Others(k)  BY DEF IInv, Others
  <2>2. CASE k = l
    <3>1. Counted(l)' = {}
      <4>1. \A p \in Others(l) : pc[p] = "wait" /\ sense[p] = signal[l]  BY <1>1 DEF Counted
      <4>2. sense' = sense  BY DEF Release
      <4>3. \A p \in Others(l) : sense'[p] # signal'[l]  BY <4>1, <4>2, <1>3
      <4> QED  BY <4>3 DEF Counted, Others
    <3>2. Cardinality({}) = 0  BY FS_EmptySet
    <3>3. counter'[l] = 0 /\ leaderSig'[l] = 0 /\ pc'[l] = "out"
      BY DEF Release, TypeOK
    <3> QED  BY <2>2, <3>1, <3>2, <3>3 DEF Gathering
  <2>3. CASE k # l
    <3>1. Counted(k)' = Counted(k)
      <4>1. signal'[k] = signal[k]  BY <2>3 DEF Release, TypeOK
      <4>2. \A p \in Others(k) : pc'[p] = pc[p] /\ sense'[p] = sense[p]
        BY DEF Release, TypeOK
      <4> QED  BY <4>1, <4>2, CountedUnchanged
    <3>2. counter'[k] = counter[k] /\ leaderSig'[k] = leaderSig[k] /\ pc'[k] = pc[k]
      BY <2>3 DEF Release, TypeOK
    <3> QED  BY <2>1, <3>1, <3>2 DEF Gathering
  <2> QED  BY <2>2, <2>3
<1>8. UNCHANGED <<atNode, atRoots, cast>>  BY DEF Release, calls
<1>9. ASSUME NEW k \in Leader PROVE left'[k] <= cast'[RootOf[k]]
  <2>1. left[k] <= cast[RootOf[k]]  BY DEF IInv
  <2>2. CASE k = l
    <3>1. cast[RootOf[l]] >= left[l] + 1
      <4>1. CASE pc[l] = "free" /\ l \in Root  BY <4>1, SMTT(20) DEF IInv, RootPosition, TypeOK
      <4>2. CASE pc[l] = "bcast"
        <5>1. atNode[l] = left[l] + 1  BY <1>0, <4>2 DEF LeaderPosition
        <5> QED  BY <4>2, <5>1 DEF Release, Through
      <4>3. pc[l] = "free" => l \in Root  BY <1>0 DEF LeaderPosition
      <4> QED  BY <1>0, <4>1, <4>2, <4>3
    <3> QED  BY <2>2, <3>1, <1>3, <1>8 DEF TypeOK
  <2>3. CASE k # l  BY <2>1, <2>3, <1>8 DEF Release, TypeOK
  <2> QED  BY <2>2, <2>3
<1> QED  BY <1>2, <1>4, <1>5, <1>6, <1>7, <1>8, <1>9 DEF IInv

\* IInv is preserved by every step of barrier_smp_intra.
LEMMA NextIInv == IInv /\ [Next]_vars => IInv'
<1> SUFFICES ASSUME IInv, [Next]_vars PROVE IInv'  OBVIOUS
<1>1. ASSUME NEW p \in Rank, Arrive(p) \/ Depart(p) PROVE IInv'
  BY <1>1, ArriveIInv, DepartIInv
<1>2. ASSUME NEW l \in Leader, LeaderStep(l) PROVE IInv'
  BY <1>2, ArriveLeaderIInv, GatheredIInv, NodeBarrierIInv, RootsBarrierIInv, ReleaseIInv
     DEF LeaderStep
<1>3. CASE UNCHANGED vars
  <2>1. UNCHANGED <<counter, leaderSig, signal, sense, pc, entered, left, atNode, atRoots, cast>>
    BY <1>3 DEF vars, shared, calls
  <2>2. \A l : Others(l)' = Others(l) /\ Counted(l)' = Counted(l)  BY <2>1 DEF Others, Counted
  <2>3. TypeOK'  BY <2>1 DEF IInv, TypeOK
  <2>4. \A p \in Rank \ Leader : Position(p, LeaderOf[p])'  BY <2>1 DEF IInv, Position
  <2>5. \A l \in Leader : LeaderPosition(l)'  BY <2>1 DEF IInv, LeaderPosition
  <2>6. \A l \in Root : RootPosition(l)'  BY <2>1 DEF IInv, RootPosition
  <2>7. \A l \in Leader : Gathering(l)'  BY <2>1, <2>2 DEF IInv, Gathering
  <2> QED  BY <2>1, <2>3, <2>4, <2>5, <2>6, <2>7 DEF IInv
<1> QED  BY <1>1, <1>2, <1>3 DEF Next

\* IInv holds in every reachable state, for every layout and number of barriers.
THEOREM InductiveInvariant == Spec => []IInv
BY InitIInv, NextIInv, PTL DEF Spec

\* What the collectives among the leaders give: no leader has left a barrier
\* that another OS process has not gathered for.
LEMMA LeadersTogether ==
  IInv => \A k, l \in Leader : left[k] <= atNode[l]
<1> SUFFICES ASSUME IInv, NEW k \in Leader, NEW l \in Leader PROVE left[k] <= atNode[l]
  OBVIOUS
<1>1. left[k] <= cast[RootOf[k]] /\ RootOf[k] \in Root  BY Layout DEF IInv
<1>2. cast[RootOf[k]] <= atRoots[RootOf[l]] /\ RootOf[l] \in Root  BY <1>1, Layout DEF IInv
<1>3. atRoots[RootOf[l]] <= atNode[l]  BY DEF IInv
<1>4. /\ left[k] \in Nat /\ cast[RootOf[k]] \in Nat
      /\ atRoots[RootOf[l]] \in Nat /\ atNode[l] \in Nat
  BY <1>1, <1>2, Layout DEF IInv, TypeOK
<1>5. left[k] <= atRoots[RootOf[l]]  BY <1>1, <1>2, <1>4, Chain, Zenon
<1> QED  BY <1>3, <1>4, <1>5, Chain, Zenon

\* Whoever gathered for a barrier has entered it, and so have the followers.
LEMMA GatheredEntered ==
  ASSUME IInv, NEW q \in Rank
  PROVE  atNode[LeaderOf[q]] <= entered[q]
<1> DEFINE l == LeaderOf[q]
<1>1. l \in Leader /\ LeaderPosition(l) /\ Gathering(l)  BY Layout DEF IInv
<1>2. left[l] \in Nat  BY <1>1, Layout DEF IInv, TypeOK
<1> HIDE DEF l
<1>3. CASE q \in Leader
  <2>1. q = l  BY <1>3, Layout DEF l
  <2>2. entered[l] >= atNode[l]  BY <1>1, <1>2 DEF LeaderPosition
  <2> QED  BY <2>1, <2>2 DEF l
<1>4. CASE q \notin Leader
  <2>1. Position(q, l) /\ q \in Others(l)  BY <1>4, Layout DEF IInv, l
  <2>2. CASE pc[l] \in {"out", "lead"}
    <3>1. atNode[l] = left[l]  BY <1>1, <2>2 DEF LeaderPosition
    <3>2. entered[q] = left[l] \/ entered[q] = left[l] + 1  BY <2>1, Zenon DEF Position
    <3> QED  BY <1>2, <3>1, <3>2 DEF l
  <2>3. CASE pc[l] \notin {"out", "lead"}
    <3>1. q \in Counted(l)  BY <1>1, <2>1, <2>3 DEF LeaderPosition, Gathering
    <3>2. atNode[l] = left[l] + 1  BY <1>1, <2>3 DEF LeaderPosition
    <3>3. entered[q] = left[l] + 1  BY <2>1, <3>1 DEF Position, Counted
    <3> QED  BY <1>2, <3>2, <3>3 DEF l
  <2> QED  BY <2>2, <2>3
<1> QED  BY <1>3, <1>4

\* Nobody leaves a barrier of barrier_smp_intra before everybody has entered it.
THEOREM NobodyEarly == Spec => []NobodyLeavesEarly
<1>1. IInv => NobodyLeavesEarly
  <2> SUFFICES ASSUME IInv, NEW p \in Rank, NEW q \in Rank PROVE left[p] <= entered[q]
    BY DEF NobodyLeavesEarly
  <2>1. LeaderOf[p] \in Leader /\ LeaderOf[q] \in Leader  BY Layout
  <2>2. left[LeaderOf[p]] <= atNode[LeaderOf[q]]  BY <2>1, LeadersTogether
  <2>3. atNode[LeaderOf[q]] <= entered[q]  BY GatheredEntered
  <2>4. /\ left[p] \in Nat /\ left[LeaderOf[p]] \in Nat /\ entered[q] \in Nat
        /\ atNode[LeaderOf[q]] \in Nat
    BY <2>1, Layout DEF IInv, TypeOK
  <2>5. left[p] <= left[LeaderOf[p]]
    <3>1. CASE p \in Leader
      <4>1. LeaderOf[p] = p  BY <3>1, Layout
      <4> QED  BY <4>1, <2>4
    <3>2. CASE p \notin Leader
      <4>1. Position(p, LeaderOf[p])  BY <3>2 DEF IInv
      <4>2. left[p] = left[LeaderOf[p]] \/ left[p] = left[LeaderOf[p]] - 1
        BY <4>1, Zenon DEF Position
      <4> QED  BY <4>2, <2>4
    <3> QED  BY <3>1, <3>2
  <2>6. left[p] <= atNode[LeaderOf[q]]  BY <2>2, <2>4, <2>5, Chain, Zenon
  <2> QED  BY <2>3, <2>4, <2>6, Chain, Zenon
<1> QED  BY <1>1, InductiveInvariant, PTL

\* Who is about to leave a barrier has seen that everybody entered it.
LEMMA LeavesAfterAll ==
  ASSUME IInv, NEW p \in Rank, NEW q \in Rank,
         Depart(p) \/ (p \in Leader /\ Release(p))
  PROVE  entered[q] >= entered[p] /\ left[p] < entered[p]
<1> USE Layout
<1>a. TypeOK  BY DEF IInv
<1> USE <1>a
<1>1. LeaderOf[p] \in Leader /\ LeaderOf[q] \in Leader  OBVIOUS
<1>2. atNode[LeaderOf[q]] <= entered[q]  BY GatheredEntered
<1>3. /\ left[p] \in Nat /\ left[LeaderOf[p]] \in Nat /\ entered[q] \in Nat
      /\ atNode[LeaderOf[q]] \in Nat
  BY <1>1 DEF TypeOK
<1>4. CASE Depart(p)
  <2>1. p \notin Leader
    <3>1. p \in Leader => LeaderPosition(p)  BY DEF IInv
    <3> QED  BY <1>4, <3>1 DEF Depart, LeaderPosition
  <2>2. Position(p, LeaderOf[p])  BY <2>1 DEF IInv
  <2>3. entered[p] = left[LeaderOf[p]] /\ left[p] = left[LeaderOf[p]] - 1
    BY <1>4, <2>2 DEF Depart, Position
  <2>4. left[LeaderOf[p]] <= atNode[LeaderOf[q]]  BY <1>1, LeadersTogether
  <2> HIDE Layout, <1>a
  <2>5. left[LeaderOf[p]] <= entered[q]  BY <1>2, <1>3, <2>4, Chain, Zenon
  <2> QED  BY <1>3, <2>3, <2>5
<1>5. CASE p \in Leader /\ Release(p)
  <2>1. LeaderPosition(p) /\ pc[p] \in {"free", "bcast"}
    BY <1>5, Zenon DEF IInv, Release, Through
  <2>2. entered[p] = left[p] + 1  BY <2>1 DEF LeaderPosition
  <2>3. left'[p] = left[p] + 1 /\ atNode' = atNode  BY <1>5 DEF Release, calls, TypeOK
  <2>4. IInv'  BY <1>5, ReleaseIInv
  <2>5. (\A k, l \in Leader : left[k] <= atNode[l])'  BY <2>4, LeadersTogether, PTL
  <2>6. left[p] + 1 <= atNode[LeaderOf[q]]  BY <1>1, <1>5, <2>3, <2>5
  <2> HIDE Layout, <1>a
  <2>7. left[p] + 1 \in Nat  BY <1>3
  <2>8. left[p] + 1 <= entered[q]  BY <1>2, <1>3, <2>6, <2>7, Chain, Zenon
  <2> QED  BY <1>3, <2>2, <2>8, SMTT(20)
<1> QED  BY <1>4, <1>5

\* barrier_smp_intra implements Barrier.
THEOREM Implements == Spec => ImplementsBarrier
<1>1. Init => Abstract!Init  BY DEF Init, Abstract!Init
<1>2. IInv /\ [Next]_vars => [Abstract!Next]_(Abstract!vars)
  <2> SUFFICES ASSUME IInv, [Next]_vars PROVE [Abstract!Next]_(Abstract!vars)  OBVIOUS
  <2> USE DEF Abstract!vars
  <2>1. ASSUME NEW p \in Rank, Arrive(p) PROVE Abstract!Next
    <3>1. Position(p, LeaderOf[p]) /\ pc[p] = "out"  BY <2>1 DEF IInv, Arrive, Enters
    <3>2. entered[p] = left[p]  BY <3>1 DEF Position
    <3>3. Abstract!Enter(p)  BY <2>1, <3>2 DEF Arrive, Enters, Abstract!Enter
    <3> QED  BY <3>3 DEF Abstract!Next
  <2>2. ASSUME NEW p \in Rank, Depart(p) PROVE Abstract!Next
    <3>1. \A q \in Rank : entered[q] >= entered[p] /\ left[p] < entered[p]
      BY <2>2, LeavesAfterAll
    <3>2. Abstract!Leave(p)  BY <2>2, <3>1 DEF Depart, Abstract!Leave
    <3> QED  BY <3>2 DEF Abstract!Next
  <2>3. ASSUME NEW l \in Leader, LeaderStep(l) PROVE [Abstract!Next]_(Abstract!vars)
    <3>1. CASE ArriveLeader(l)
      <4>1. LeaderPosition(l) /\ pc[l] = "out" /\ l \in Rank
        BY <3>1, Layout DEF IInv, ArriveLeader, Enters
      <4>2. entered[l] = left[l]  BY <4>1 DEF LeaderPosition
      <4>3. Abstract!Enter(l)  BY <3>1, <4>2 DEF ArriveLeader, Enters, Abstract!Enter
      <4> QED  BY <4>1, <4>3 DEF Abstract!Next
    <3>2. CASE Gathered(l) \/ NodeBarrier(l) \/ RootsBarrier(l)
      BY <3>2 DEF Gathered, NodeBarrier, RootsBarrier
    <3>3. CASE Release(l)
      <4>1. l \in Rank  BY Layout
      <4>2. \A q \in Rank : entered[q] >= entered[l] /\ left[l] < entered[l]
        BY <3>3, <4>1, LeavesAfterAll
      <4>3. Abstract!Leave(l)  BY <3>3, <4>1, <4>2 DEF Release, Abstract!Leave
      <4> QED  BY <4>1, <4>3 DEF Abstract!Next
    <3> QED  BY <2>3, <3>1, <3>2, <3>3 DEF LeaderStep
  <2>4. CASE UNCHANGED vars  BY <2>4 DEF vars
  <2> QED  BY <2>1, <2>2, <2>3, <2>4 DEF Next
<1> QED  BY <1>1, <1>2, InductiveInvariant, PTL DEF Spec, ImplementsBarrier, Abstract!Spec
=============================================================================
