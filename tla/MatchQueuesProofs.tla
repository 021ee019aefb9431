------------------------- MODULE MatchQueuesProofs -------------------------
(***************************************************************************)
(* MatchQueues is correct for any set of processes, patterns, envelopes    *)
(* and any matching relation: no match is missed and no message overtakes  *)
(* another.  The invariant has to say more than the two results: which     *)
(* entries may still be waiting when a pair has been made (YoungerWait),   *)
(* and that the numbers tell entries apart (Numbered).                     *)
(***************************************************************************)
EXTENDS MatchQueues, TLAPS

\* Empty queues satisfy the invariant.
LEMMA InitInv == Init => IInv
  BY DEF Init, IInv, TypeOK, NoMissedMatch, NonOvertaking, Numbered, YoungerWait

\* A receive (MPIDI_CH3U_Recvq_FDU_or_AEP) preserves the invariant.
LEMMA ReceiveInv ==
  ASSUME IInv, NEW d \in Dest, NEW p \in Pattern, Receive(d, p)
  PROVE  IInv'
<1> DEFINE r == [id |-> number, dest |-> d, match |-> p]
           fitting == {m \in unexpected : Fits(r, m)}
<1>r. r \in Entry(Pattern) /\ r.id = number /\ r.dest = d /\ r.match = p
  BY DEF IInv, TypeOK, Entry
<1>n. number \in Nat /\ number' = number + 1
  BY DEF IInv, TypeOK, Receive
<1>t. /\ \A e \in posted : e.id \in Nat
      /\ \A e \in unexpected : e.id \in Nat
      /\ \A x \in pairs : x[1].id \in Nat /\ x[2].id \in Nat
  BY DEF IInv, TypeOK, Entry
<1> HIDE DEF r
<1>1. CASE /\ fitting = {} /\ posted' = posted \cup {r}
           /\ UNCHANGED <<unexpected, pairs>>
  <2>1. TypeOK'
    BY <1>1, <1>r, <1>n DEF IInv, TypeOK
  <2>2. NoMissedMatch'
    BY <1>1 DEF IInv, NoMissedMatch
  <2>3. NonOvertaking'
    BY <1>1 DEF IInv, NonOvertaking
  <2>4. Numbered'
    BY <1>1, <1>r, <1>n, <1>t DEF IInv, Numbered
  <2>5. YoungerWait'
    BY <1>1, <1>r, <1>n, <1>t DEF IInv, Numbered, YoungerWait
  <2> QED
    BY <2>1, <2>2, <2>3, <2>4, <2>5 DEF IInv
<1>2. CASE \E m \in fitting : /\ IsOldest(m, fitting)
                              /\ unexpected' = unexpected \ {m}
                              /\ pairs' = pairs \cup {<<r, m>>}
                              /\ UNCHANGED posted
  <2> PICK m \in fitting : /\ IsOldest(m, fitting)
                           /\ unexpected' = unexpected \ {m}
                           /\ pairs' = pairs \cup {<<r, m>>}
                           /\ UNCHANGED posted
    BY <1>2
  <2>m. m \in unexpected /\ Fits(r, m) /\ m.id \in Nat /\ m.id < number
    BY <1>t DEF IInv, Numbered
  <2>1. TypeOK'
    BY <1>r, <1>n, <2>m DEF IInv, TypeOK
  <2>2. NoMissedMatch'
    BY DEF IInv, NoMissedMatch
  <2>3. NonOvertaking'
    <3> SUFFICES ASSUME NEW x \in pairs', NEW y \in pairs',
                        Fits(x[1], y[2]), Fits(y[1], x[2]), x[1].id < y[1].id
                 PROVE  x[2].id < y[2].id
      BY DEF NonOvertaking
    <3>1. CASE x \in pairs /\ y \in pairs
      BY <3>1 DEF IInv, NonOvertaking
    <3>2. CASE x \in pairs /\ y = <<r, m>>
      BY <3>2, <2>m DEF IInv, YoungerWait
    <3>3. CASE x = <<r, m>> /\ y \in pairs
      BY <3>3, <1>r, <1>n, <1>t DEF IInv, Numbered
    <3>4. CASE x = <<r, m>> /\ y = <<r, m>>
      BY <3>4, <1>r, <1>n
    <3> QED
      BY <3>1, <3>2, <3>3, <3>4
  <2>4. Numbered'
    BY <1>r, <1>n, <1>t, <2>m DEF IInv, Numbered
  <2>5. \A x \in pairs', u \in unexpected' : Fits(x[1], u) => x[2].id < u.id
    <3> SUFFICES ASSUME NEW x \in pairs', NEW u \in unexpected', Fits(x[1], u)
                 PROVE  x[2].id < u.id
      OBVIOUS
    <3>1. CASE x \in pairs
      BY <3>1 DEF IInv, YoungerWait
    <3>2. CASE x = <<r, m>>
      <4>1. u \in fitting /\ u # m /\ u \in unexpected
        BY <3>2
      <4>2. m.id <= u.id
        BY <4>1 DEF IsOldest
      <4>3. m.id # u.id
        BY <4>1, <2>m DEF IInv, Numbered
      <4> QED
        BY <3>2, <4>1, <4>2, <4>3, <2>m, <1>t
    <3> QED
      BY <3>1, <3>2
  <2>6. \A x \in pairs', q \in posted' : Fits(q, x[2]) => x[1].id < q.id
    BY <2>m DEF IInv, YoungerWait, NoMissedMatch
  <2> QED
    BY <2>1, <2>2, <2>3, <2>4, <2>5, <2>6 DEF IInv, YoungerWait
<1> QED
  BY <1>1, <1>2 DEF Receive, r

\* A message (MPIDI_CH3U_Recvq_FDP_or_AEU) preserves the invariant.
LEMMA ArriveInv ==
  ASSUME IInv, NEW d \in Dest, NEW e \in Envelope, Arrive(d, e)
  PROVE  IInv'
<1> DEFINE m == [id |-> number, dest |-> d, match |-> e]
           fitting == {r \in posted : Fits(r, m)}
<1>m. m \in Entry(Envelope) /\ m.id = number /\ m.dest = d /\ m.match = e
  BY DEF IInv, TypeOK, Entry
<1>n. number \in Nat /\ number' = number + 1
  BY DEF IInv, TypeOK, Arrive
<1>t. /\ \A f \in posted : f.id \in Nat
      /\ \A f \in unexpected : f.id \in Nat
      /\ \A x \in pairs : x[1].id \in Nat /\ x[2].id \in Nat
  BY DEF IInv, TypeOK, Entry
<1> HIDE DEF m
<1>1. CASE /\ fitting = {} /\ unexpected' = unexpected \cup {m}
           /\ UNCHANGED <<posted, pairs>>
  <2>1. TypeOK'
    BY <1>1, <1>m, <1>n DEF IInv, TypeOK
  <2>2. NoMissedMatch'
    BY <1>1 DEF IInv, NoMissedMatch
  <2>3. NonOvertaking'
    BY <1>1 DEF IInv, NonOvertaking
  <2>4. Numbered'
    BY <1>1, <1>m, <1>n, <1>t DEF IInv, Numbered
  <2>5. YoungerWait'
    BY <1>1, <1>m, <1>n, <1>t DEF IInv, Numbered, YoungerWait
  <2> QED
    BY <2>1, <2>2, <2>3, <2>4, <2>5 DEF IInv
<1>2. CASE \E r \in fitting : /\ IsOldest(r, fitting)
                              /\ posted' = posted \ {r}
                              /\ pairs' = pairs \cup {<<r, m>>}
                              /\ UNCHANGED unexpected
  <2> PICK r \in fitting : /\ IsOldest(r, fitting)
                           /\ posted' = posted \ {r}
                           /\ pairs' = pairs \cup {<<r, m>>}
                           /\ UNCHANGED unexpected
    BY <1>2
  <2>r. r \in posted /\ Fits(r, m) /\ r.id \in Nat /\ r.id < number
    BY <1>t DEF IInv, Numbered
  <2>1. TypeOK'
    BY <1>m, <1>n, <2>r DEF IInv, TypeOK
  <2>2. NoMissedMatch'
    BY DEF IInv, NoMissedMatch
  <2>3. NonOvertaking'
    <3> SUFFICES ASSUME NEW x \in pairs', NEW y \in pairs',
                        Fits(x[1], y[2]), Fits(y[1], x[2]), x[1].id < y[1].id
                 PROVE  x[2].id < y[2].id
      BY DEF NonOvertaking
    <3>1. CASE x \in pairs /\ y \in pairs
      BY <3>1 DEF IInv, NonOvertaking
    <3>2. CASE x \in pairs /\ y = <<r, m>>
      BY <3>2, <1>m DEF IInv, Numbered
    <3>3. CASE x = <<r, m>> /\ y \in pairs
      <4>1. y[1].id < r.id
        BY <3>3, <2>r DEF IInv, YoungerWait
      <4> QED
        BY <3>3, <4>1, <2>r, <1>t
    <3>4. CASE x = <<r, m>> /\ y = <<r, m>>
      BY <3>4, <2>r
    <3> QED
      BY <3>1, <3>2, <3>3, <3>4
  <2>4. Numbered'
    BY <1>m, <1>n, <1>t, <2>r DEF IInv, Numbered
  <2>5. \A x \in pairs', u \in unexpected' : Fits(x[1], u) => x[2].id < u.id
    BY <2>r DEF IInv, YoungerWait, NoMissedMatch
  <2>6. \A x \in pairs', q \in posted' : Fits(q, x[2]) => x[1].id < q.id
    <3> SUFFICES ASSUME NEW x \in pairs', NEW q \in posted', Fits(q, x[2])
                 PROVE  x[1].id < q.id
      OBVIOUS
    <3>1. CASE x \in pairs
      BY <3>1 DEF IInv, YoungerWait
    <3>2. CASE x = <<r, m>>
      <4>1. q \in fitting /\ q # r /\ q \in posted
        BY <3>2
      <4>2. r.id <= q.id
        BY <4>1 DEF IsOldest
      <4>3. r.id # q.id
        BY <4>1, <2>r DEF IInv, Numbered
      <4> QED
        BY <3>2, <4>1, <4>2, <4>3, <2>r, <1>t
    <3> QED
      BY <3>1, <3>2
  <2> QED
    BY <2>1, <2>2, <2>3, <2>4, <2>5, <2>6 DEF IInv, YoungerWait
<1> QED
  BY <1>1, <1>2 DEF Arrive, m

\* Refusing a receive and withdrawing entries preserve the invariant.
LEMMA WithdrawInv ==
  ASSUME IInv, Refuse \/ Withdraw \/ UNCHANGED vars
  PROVE  IInv'
<1>t. /\ number \in Nat /\ (number' = number \/ number' = number + 1)
      /\ \A f \in posted : f.id \in Nat
      /\ \A f \in unexpected : f.id \in Nat
      /\ \A x \in pairs : x[1].id \in Nat /\ x[2].id \in Nat
  BY DEF IInv, TypeOK, Entry, Refuse, Withdraw, vars
<1>s. /\ posted' \subseteq posted
      /\ unexpected' \subseteq unexpected
      /\ pairs' = pairs
  BY DEF Refuse, Withdraw, vars
<1>1. TypeOK'
  BY <1>t, <1>s DEF IInv, TypeOK
<1>2. NoMissedMatch' /\ NonOvertaking' /\ YoungerWait'
  BY <1>s DEF IInv, NoMissedMatch, NonOvertaking, YoungerWait
<1>3. Numbered'
  BY <1>t, <1>s DEF IInv, Numbered
<1> QED
  BY <1>1, <1>2, <1>3 DEF IInv

\* IInv holds in every reachable state of the receive queues.
THEOREM InductiveInvariant == Spec => []IInv
<1>1. IInv /\ [Next]_vars => IInv'
  BY ReceiveInv, ArriveInv, WithdrawInv DEF Next
<1> QED
  BY InitInv, <1>1, PTL DEF Spec

\* No receive waits while a message it fits is queued (FDU_or_AEP and
\* FDP_or_AEU search the other queue before they add to their own).
THEOREM MatchesAreMade == Spec => []NoMissedMatch
<1>1. IInv => NoMissedMatch
  BY DEF IInv
<1> QED
  BY InductiveInvariant, <1>1, PTL

\* Messages do not overtake each other, whatever the receives accept and
\* whichever entries are cancelled, revoked or failed in between.
THEOREM OrderIsKept == Spec => []NonOvertaking
<1>1. IInv => NonOvertaking
  BY DEF IInv
<1> QED
  BY InductiveInvariant, <1>1, PTL
=============================================================================
