---------------------------- MODULE PidMapProofs -----------------------------
(***************************************************************************)
(* For any number of OS processes and any layout of the world ranks in the *)
(* order of the OS processes: publish_fg gives everybody the true table,   *)
(* and the binary search on it always finds the right OS process.          *)
(***************************************************************************)
EXTENDS PidMap, TLAPS

\* A value that was never put differs from every tuple.
LEMMA NoneIsNoTuple == None \notin Tuple
<1>1. None.start = -1  BY DEF None
<1>2. \A t \in Tuple : t.start \in Nat  BY TupleAssumption
<1> QED  BY <1>1, <1>2

\* The tuples are pairs of numbers.
LEMMA TupleNumbers == \A t \in Tuple : t.start \in Nat /\ t.num \in Nat
BY TupleAssumption

\* The start of publish_fg satisfies the invariant.
LEMMA InitIInv == Init => IInv
<1> SUFFICES ASSUME Init PROVE IInv  OBVIOUS
<1>1. size \in Nat \ {0} /\ 0 \in Pid  BY TupleAssumption DEF Init, Pid
<1>2. TypeOK  BY <1>1 DEF Init, TypeOK, Idle
<1> QED  BY <1>1, <1>2 DEF Init, IInv, NeverFails, LookupRight, Idle

\* Publishing puts the true tuple.
LEMMA PublishIInv ==
  ASSUME IInv, NEW p \in Pid, Publish(p)
  PROVE  IInv'
<1>1. UNCHANGED <<size, layout, table, search>> /\ Pid' = Pid  BY DEF Publish, Pid
<1>2. TypeOK'
  <2>1. kvs' \in [Pid -> Tuple \cup {None}]  BY DEF IInv, TypeOK, Publish
  <2>2. stage' \in [Pid -> {"start", "barrier", "ready", "failed"}]
    BY DEF IInv, TypeOK, Publish
  <2> QED  BY <1>1, <2>1, <2>2 DEF IInv, TypeOK
<1>3. Partition'  BY <1>1 DEF IInv, Partition, World, Runs
<1>4. ASSUME NEW q \in Pid, stage'[q] # "start", size > 1 PROVE kvs'[q] = layout[q]
  <2>1. size # 1 /\ kvs' = [kvs EXCEPT ![p] = layout[p]]  BY <1>4 DEF Publish, IInv, TypeOK
  <2>2. stage'[q] = IF q = p THEN "barrier" ELSE stage[q]  BY DEF IInv, TypeOK, Publish
  <2> QED  BY <1>4, <2>1, <2>2 DEF IInv, TypeOK
<1>5. \A q \in Pid : stage'[q] = IF q = p THEN "barrier" ELSE stage[q]
  BY DEF IInv, TypeOK, Publish
<1>6. \A q \in Pid : stage'[q] = "ready" => table'[q] = layout'
  BY <1>1, <1>5 DEF IInv
<1>7. NeverFails' /\ LookupRight'
  BY <1>1, <1>5 DEF IInv, NeverFails, LookupRight, Runs
<1>8. (search.at = "loop" =>
         /\ stage[search.who] = "ready"
         /\ 0 <= search.low /\ search.high < size
         /\ \E i \in Pid : search.low <= i /\ i <= search.high /\ Runs(i, search.rank))'
  <2>1. search.who \in Pid /\ stage[p] = "start"  BY DEF IInv, TypeOK, Publish
  <2> QED  BY <1>1, <1>5, <2>1 DEF IInv, Runs
<1>9. \A q \in Pid : stage'[q] # "start" /\ size > 1 => kvs'[q] = layout[q]  BY <1>4
<1> QED  BY <1>1, <1>2, <1>3, <1>6, <1>7, <1>8, <1>9 DEF IInv

\* After the barrier every key is there, and its value is true.
LEMMA ReadAllIInv ==
  ASSUME IInv, NEW p \in Pid, ReadAll(p)
  PROVE  IInv'
<1>1. UNCHANGED <<size, layout, kvs, search>> /\ Pid' = Pid  BY DEF ReadAll, Pid
<1>2. \A i \in Pid : layout[i] \in Tuple /\ layout[i] # None
  BY NoneIsNoTuple DEF IInv, TypeOK
<1>3. \A i \in Pid \ {p} : kvs[i] = layout[i] /\ kvs[i] # None
  <2> SUFFICES ASSUME NEW i \in Pid, i # p PROVE kvs[i] = layout[i] /\ kvs[i] # None
    OBVIOUS
  <2>1. stage[i] # "start"  BY DEF ReadAll, PMI_Barrier
  <2>2. size > 1  BY DEF IInv, TypeOK, Pid
  <2> QED  BY <1>2, <2>1, <2>2 DEF IInv
<1>4. stage' = [stage EXCEPT ![p] = "ready"]  BY <1>3 DEF ReadAll
<1>5. [i \in Pid |-> IF i = p THEN layout[p] ELSE kvs[i]] = layout
  <2>1. layout = [i \in Pid |-> layout[i]]  BY DEF IInv, TypeOK
  <2>2. \A i \in Pid : (IF i = p THEN layout[p] ELSE kvs[i]) = layout[i]  BY <1>3
  <2> QED  BY <2>1, <2>2
<1>6. table' = [table EXCEPT ![p] = layout]  BY <1>5 DEF ReadAll
<1>7. TypeOK'
  <2>1. table' \in [Pid -> [Pid -> Tuple \cup {None}]]  BY <1>6 DEF IInv, TypeOK
  <2>2. stage' \in [Pid -> {"start", "barrier", "ready", "failed"}]
    BY <1>4 DEF IInv, TypeOK
  <2> QED  BY <1>1, <2>1, <2>2 DEF IInv, TypeOK
<1>8. Partition'  BY <1>1 DEF IInv, Partition, World, Runs
<1>9. stage[p] # "start"  BY DEF ReadAll, PMI_Barrier
<1>10. \A q \in Pid : stage'[q] = IF q = p THEN "ready" ELSE stage[q]
  BY <1>4 DEF IInv, TypeOK
<1>11. \A q \in Pid : table'[q] = IF q = p THEN layout ELSE table[q]
  BY <1>6 DEF IInv, TypeOK
<1>12. \A q \in Pid : stage'[q] # "start" /\ size' > 1 => kvs'[q] = layout'[q]
  BY <1>1, <1>9, <1>10 DEF IInv
<1>13. \A q \in Pid : stage'[q] = "ready" => table'[q] = layout'
  BY <1>1, <1>10, <1>11 DEF IInv
<1>14. NeverFails' /\ LookupRight'
  BY <1>1, <1>10 DEF IInv, NeverFails, LookupRight, Runs
<1>15. (search.at = "loop" =>
          /\ stage[search.who] = "ready"
          /\ 0 <= search.low /\ search.high < size
          /\ \E i \in Pid : search.low <= i /\ i <= search.high /\ Runs(i, search.rank))'
  <2>1. search.who \in Pid  BY DEF IInv, TypeOK
  <2> QED  BY <1>1, <1>10, <2>1 DEF IInv, Runs
<1> QED  BY <1>1, <1>7, <1>8, <1>12, <1>13, <1>14, <1>15 DEF IInv

\* A search starts with the whole table, which holds every world rank.
LEMMA LookupIInv ==
  ASSUME IInv, NEW p \in Pid, NEW r \in World, Lookup(p, r)
  PROVE  IInv'
<1>1. UNCHANGED <<size, layout, stage, kvs, table>> /\ Pid' = Pid  BY DEF Lookup, Pid
<1>2. search' = [at |-> "loop", who |-> p, rank |-> r, low |-> 0, high |-> size - 1]
      /\ stage[p] = "ready"
  BY DEF Lookup
<1>3. r \in Int /\ size \in Nat \ {0}  BY DEF World, IInv, TypeOK
<1>4. TypeOK'  BY <1>1, <1>2, <1>3 DEF IInv, TypeOK
<1>5. Partition'  BY <1>1 DEF IInv, Partition, World, Runs
<1>6. NeverFails' /\ LookupRight'
  BY <1>1, <1>2 DEF IInv, NeverFails, LookupRight
<1>7. PICK i \in Pid : Runs(i, r)  BY DEF IInv, Partition
<1>8. 0 <= i /\ i <= size - 1  BY <1>3 DEF Pid
<1>9. (search.at = "loop" =>
         /\ stage[search.who] = "ready"
         /\ 0 <= search.low /\ search.high < size
         /\ \E j \in Pid : search.low <= j /\ j <= search.high /\ Runs(j, search.rank))'
  BY <1>1, <1>2, <1>3, <1>7, <1>8 DEF Runs
<1> QED  BY <1>1, <1>4, <1>5, <1>6, <1>9 DEF IInv

\* An iteration keeps the OS process it looks for between low and high, because
\* the ranges are sorted.
LEMMA IterateIInv ==
  ASSUME IInv, Iterate
  PROVE  IInv'
<1>1. UNCHANGED <<size, layout, stage, kvs, table>> /\ Pid' = Pid  BY DEF Iterate, Pid
<1>2. Partition'  BY <1>1 DEF IInv, Partition, World, Runs
<1> DEFINE r == search.rank
           low == search.low
           high == search.high
           mid == (low + high) \div 2
<1>3. /\ search.at = "loop" /\ search.who \in Pid /\ table[search.who] = layout
      /\ r \in Int /\ low \in Int /\ high \in Int /\ 0 <= low /\ high < size
      /\ size \in Nat
  BY DEF Iterate, IInv, TypeOK
<1>4. PICK i \in Pid : low <= i /\ i <= high /\ Runs(i, r)  BY <1>3 DEF IInv
<1>5. low <= mid /\ mid <= high /\ mid \in Int /\ mid \in Pid  BY <1>3, <1>4 DEF Pid
<1>6. /\ layout[i].start \in Nat /\ layout[i].num \in Nat
      /\ layout[mid].start \in Nat /\ layout[mid].num \in Nat
  BY <1>5, TupleNumbers DEF IInv, TypeOK
<1>7. layout[i].start <= r /\ r < layout[i].start + layout[i].num  BY <1>4 DEF Runs
<1>8. /\ i < mid => layout[i].start + layout[i].num <= layout[mid].start
      /\ mid < i => layout[mid].start + layout[mid].num <= layout[i].start
  BY <1>5 DEF IInv, Partition
<1>9. search' = Iteration(search, layout) /\ ~(low > high)
  BY <1>3, <1>4 DEF Iterate, Pid
<1>10. i \in Int  BY DEF Pid
<1>11. CASE Less(r, layout[mid])
  <2>1. r < layout[mid].start  BY <1>11 DEF Less
  <2>2. i <= mid - 1  BY <2>1, <1>3, <1>5, <1>6, <1>7, <1>8, <1>10
  <2>3. search' = [search EXCEPT !.high = mid - 1]  BY <1>9, <1>11 DEF Iteration
  <2>4. TypeOK'
    <3>1. mid - 1 \in Int  BY <1>5
    <3> HIDE DEF mid
    <3>2. search' \in [at : {"idle", "loop", "found", "abort"}, who : Pid,
                       rank : Int, low : Int, high : Int]
      BY <2>3, <3>1 DEF IInv, TypeOK
    <3> QED  BY <1>1, <3>2 DEF IInv, TypeOK
  <2>5. /\ search'.at = "loop" /\ search'.who = search.who /\ search'.rank = r
        /\ search'.low = low /\ search'.high = mid - 1
    BY <1>3, <2>3 DEF IInv, TypeOK
  <2>6. search'.high < size' /\ 0 <= search'.low /\ stage'[search'.who] = "ready"
    BY <1>1, <1>3, <1>5, <2>5 DEF IInv
  <2>7. \E j \in Pid' : search'.low <= j /\ j <= search'.high /\ Runs(j, search.rank)'
    BY <1>1, <1>4, <2>2, <2>5 DEF Runs
  <2>8. NeverFails' /\ LookupRight'  BY <1>1, <2>5 DEF IInv, NeverFails, LookupRight
  <2> QED  BY <1>1, <1>2, <2>4, <2>6, <2>7, <2>8 DEF IInv
<1>12. CASE ~Less(r, layout[mid]) /\ Greater(r, layout[mid])
  <2>1. r >= layout[mid].start + layout[mid].num  BY <1>12 DEF Greater
  <2>2. mid + 1 <= i
    <3> HIDE DEF mid, r
    <3>1. i # mid  BY <2>1, <1>3, <1>6, <1>7
    <3>2. ~(i < mid)  BY <2>1, <1>3, <1>6, <1>7, <1>8
    <3> QED  BY <3>1, <3>2, <1>5, <1>10
  <2>3. search' = [search EXCEPT !.low = mid + 1]  BY <1>9, <1>12 DEF Iteration
  <2>4. TypeOK'
    <3>1. mid + 1 \in Int  BY <1>5
    <3> HIDE DEF mid
    <3>2. search' \in [at : {"idle", "loop", "found", "abort"}, who : Pid,
                       rank : Int, low : Int, high : Int]
      BY <2>3, <3>1 DEF IInv, TypeOK
    <3> QED  BY <1>1, <3>2 DEF IInv, TypeOK
  <2>5. /\ search'.at = "loop" /\ search'.who = search.who /\ search'.rank = r
        /\ search'.low = mid + 1 /\ search'.high = high
    BY <1>3, <2>3 DEF IInv, TypeOK
  <2>6. search'.high < size' /\ 0 <= search'.low /\ stage'[search'.who] = "ready"
    BY <1>1, <1>3, <1>5, <2>5 DEF IInv
  <2>7. \E j \in Pid' : search'.low <= j /\ j <= search'.high /\ Runs(j, search.rank)'
    BY <1>1, <1>4, <2>2, <2>5 DEF Runs
  <2>8. NeverFails' /\ LookupRight'  BY <1>1, <2>5 DEF IInv, NeverFails, LookupRight
  <2> QED  BY <1>1, <1>2, <2>4, <2>6, <2>7, <2>8 DEF IInv
<1>13. CASE ~Less(r, layout[mid]) /\ ~Greater(r, layout[mid])
  <2>1. layout[mid].start <= r /\ r < layout[mid].start + layout[mid].num
    BY <1>3, <1>6, <1>13 DEF Less, Greater
  <2>2. search' = [search EXCEPT !.at = "found", !.low = mid, !.high = mid]
    BY <1>9, <1>13 DEF Iteration
  <2>3. TypeOK'  BY <1>1, <1>5, <2>2 DEF IInv, TypeOK
  <2>4. search'.at = "found" /\ search'.rank = r /\ search'.low = mid
    BY <1>3, <2>2 DEF IInv, TypeOK
  <2>5. NeverFails' /\ LookupRight'
    BY <1>1, <1>5, <2>1, <2>4 DEF IInv, NeverFails, LookupRight, Runs
  <2> QED  BY <1>1, <1>2, <2>3, <2>4, <2>5 DEF IInv
<1> QED  BY <1>11, <1>12, <1>13

\* IInv is preserved by every step.
LEMMA NextIInv == IInv /\ [Next]_vars => IInv'
<1> SUFFICES ASSUME IInv, [Next]_vars PROVE IInv'  OBVIOUS
<1>1. CASE UNCHANGED vars
  <2>1. UNCHANGED <<size, layout, stage, kvs, table, search>> /\ Pid' = Pid
    BY <1>1 DEF vars, Pid
  <2>2. TypeOK'  BY <2>1 DEF IInv, TypeOK
  <2>3. Partition'  BY <2>1 DEF IInv, Partition, World, Runs
  <2>4. NeverFails' /\ LookupRight'  BY <2>1 DEF IInv, NeverFails, LookupRight, Runs
  <2> QED  BY <2>1, <2>2, <2>3, <2>4 DEF IInv, Runs
<1> QED  BY <1>1, PublishIInv, ReadAllIInv, LookupIInv, IterateIInv DEF Next

\* IInv holds in every reachable state.
THEOREM InductiveInvariant == Spec => []IInv
BY InitIInv, NextIInv, PTL DEF Spec

\* FG_worldrank_to_pid never returns a wrong OS process.
THEOREM LookupIsRight == Spec => []LookupRight
<1>1. IInv => LookupRight  BY DEF IInv
<1> QED  BY <1>1, InductiveInvariant, PTL

\* No PMI_KVS_Get of publish_fg fails and no search ends without a result.
THEOREM LookupNeverFails == Spec => []NeverFails
<1>1. IInv => NeverFails  BY DEF IInv
<1> QED  BY <1>1, InductiveInvariant, PTL
==============================================================================
