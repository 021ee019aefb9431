-------------------------- MODULE ContextIdsProofs --------------------------
(***************************************************************************)
(* The agreement on context ids is correct for any number of processes,    *)
(* calls and ids.  The invariant says, beside the result, what a waiting   *)
(* process relies on: the ids it handed in are still in its mask           *)
(* (OffersStand), an outcome was handed in by all (OutcomesCommon), and no *)
(* call has an outcome in both rounds (SecondRound).                       *)
(***************************************************************************)
EXTENDS ContextIds, TLAPS

\* Before any call nothing is held and nobody waits.
LEMMA InitInv == Init => IInv
  BY DEF Init, IInv, TypeOK, IdsExact, OffersStand, OutcomesCommon, SecondRound,
         HeldAreOutcomes, Over, Round

\* The rounds of a call.
LEMMA Rounds == /\ \A n \in Call, r \in {1, 2} : <<n, r>> \in Round /\ <<n, r>>[1] = n
                /\ \A a \in Round : a[1] \in Call /\ a[2] \in {1, 2} /\ a = <<a[1], a[2]>>
  BY DEF Round

\* Handing in a mask, in a round that can be reached, preserves the invariant:
\* the body of the loop in MPIR_Get_contextid_sparse_group up to its allreduce.
LEMMA HandInInv ==
  ASSUME IInv, NEW p \in Proc, NEW n \in Call, NEW r \in {1, 2}, HandIn(p, <<n, r>>),
         members' \in [Call -> SUBSET Proc], takers' \in [Call -> SUBSET Proc],
         \A k \in Call : takers'[k] \subseteq members'[k],
         \A k \in Call : \/ members'[k] = members[k] /\ takers'[k] = takers[k]
                         \/ members[k] = {},
         r = 2 => Over(<<n, 1>>) /\ outcome[<<n, 1>>] = {}
  PROVE  IInv'
<1> DEFINE a == <<n, r>>
<1>a. a \in Round /\ a[1] = n
  BY Rounds, Zenon
<1> HIDE DEF a
<1>h. HandIn(p, a)
  BY DEF a
<1>t. TypeOK
  BY DEF IInv
<1>s. PICK S \in SUBSET mask[p] : offer' = [offer EXCEPT ![a][p] = S]
  BY <1>h, Zenon DEF HandIn
<1>1. /\ entered' = [entered EXCEPT ![a] = @ \cup {p}]
      /\ offer' = [offer EXCEPT ![a][p] = S]
      /\ at' = [at EXCEPT ![p] = {a}]
      /\ mask' = mask /\ held' = held
      /\ S \subseteq mask[p] /\ p \in members'[n] /\ p \notin entered[a]
  BY <1>h, <1>s, <1>a, Zenon DEF HandIn
<1>2. \E O \in SUBSET Id :
        /\ outcome' = [outcome EXCEPT ![a] = O]
        /\ \/ O = outcome[a] /\ entered'[a] # members'[n]
           \/ /\ entered'[a] = members'[n]
              /\ \A i, j \in O : i = j
              /\ \A i \in O, q \in takers'[n] : i \in offer'[a][q]
  <2>1. CASE entered'[a] # members'[n] /\ UNCHANGED outcome
    <3>1. outcome[a] \in SUBSET Id /\ outcome = [outcome EXCEPT ![a] = outcome[a]]
      BY <1>t, <1>a DEF TypeOK
    <3> QED
      BY <2>1, <3>1
  <2>2. CASE /\ entered'[a] = members'[n]
             /\ \E O \in {{}} \cup {{i} : i \in Id} :
                  /\ \A i \in O, q \in takers'[n] : i \in offer'[a][q]
                  /\ outcome' = [outcome EXCEPT ![a] = O]
    <3>1. PICK O \in {{}} \cup {{i} : i \in Id} :
                 /\ \A i \in O, q \in takers'[n] : i \in offer'[a][q]
                 /\ outcome' = [outcome EXCEPT ![a] = O]
      BY <2>2, Zenon
    <3>2. O \in SUBSET Id /\ \A i, j \in O : i = j
      OBVIOUS
    <3> QED
      BY <2>2, <3>1, <3>2, Zenon
  <2> QED
    BY <1>h, <1>a, <2>1, <2>2, Zenon DEF HandIn
<1>3. PICK O \in SUBSET Id :
        /\ outcome' = [outcome EXCEPT ![a] = O]
        /\ \/ O = outcome[a] /\ entered'[a] # members'[n]
           \/ /\ entered'[a] = members'[n]
              /\ \A i, j \in O : i = j
              /\ \A i \in O, q \in takers'[n] : i \in offer'[a][q]
  BY <1>2, Zenon
\* What is the same in the other rounds, and for the other processes.
<1>4. /\ entered'[a] = entered[a] \cup {p} /\ offer'[a][p] = S /\ at'[p] = {a} /\ outcome'[a] = O
      /\ \A b \in Round : b # a => /\ entered'[b] = entered[b] /\ offer'[b] = offer[b]
                                   /\ outcome'[b] = outcome[b]
      /\ \A q \in Proc : q # p => at'[q] = at[q] /\ \A b \in Round : offer'[b][q] = offer[b][q]
  BY <1>1, <1>3, <1>t, <1>a DEF TypeOK
\* A round that is over stays so and is not this one.
<1>5. \A b \in Round : Over(b) => Over(b)' /\ b # a /\ takers'[b[1]] = takers[b[1]]
  <2> SUFFICES ASSUME NEW b \in Round, Over(b)
               PROVE  Over(b)' /\ b # a /\ takers'[b[1]] = takers[b[1]]
    OBVIOUS
  <2>1. b[1] \in Call /\ members'[b[1]] = members[b[1]] /\ takers'[b[1]] = takers[b[1]]
    BY Rounds DEF Over
  <2>2. b # a
    BY <1>1, <1>a, <2>1 DEF Over
  <2> QED
    BY <1>4, <2>1, <2>2 DEF Over
\* An outcome from before is of a round that is over.
<1>6. \A b \in Round : outcome[b] # {} => Over(b)
  BY DEF IInv, OutcomesCommon
<1>7. \A b \in Round : outcome[b] \subseteq outcome'[b]
  BY <1>4, <1>5, <1>6
<1>8. TypeOK'
  <2>1. entered' \in [Round -> SUBSET Proc] /\ at' \in [Proc -> SUBSET Round]
    BY <1>1, <1>t, <1>a DEF TypeOK
  <2>2. S \subseteq Unused /\ offer' \in [Round -> [Proc -> SUBSET Unused]]
    BY <1>1, <1>t, <1>a DEF TypeOK
  <2>3. outcome' \in [Round -> SUBSET Id]
    BY <1>3, <1>t, <1>a DEF TypeOK
  <2> QED
    BY <1>1, <1>t, <2>1, <2>2, <2>3 DEF TypeOK
<1>9. IdsExact'
  BY <1>1 DEF IInv, IdsExact
<1>10. OffersStand'
  <2> SUFFICES ASSUME NEW q \in Proc, NEW b \in Round, b \in at'[q]
               PROVE  q \in entered'[b] /\ offer'[b][q] \subseteq mask'[q]
    BY DEF OffersStand
  <2>1. CASE q = p
    BY <2>1, <1>1, <1>4
  <2>2. CASE q # p
    BY <2>2, <1>1, <1>4 DEF IInv, OffersStand
  <2> QED
    BY <2>1, <2>2
<1>11. OutcomesCommon'
  <2> SUFFICES ASSUME NEW b \in Round
               PROVE  /\ takers'[b[1]] \subseteq members'[b[1]]
                      /\ \A i, j \in outcome'[b] : i = j
                      /\ \A i \in outcome'[b] : /\ Over(b)'
                                                /\ \A q \in takers'[b[1]] : i \in offer'[b][q]
    BY DEF OutcomesCommon
  <2>0. takers'[b[1]] \subseteq members'[b[1]]
    BY Rounds
  <2>1. CASE Over(b)
    BY <2>0, <2>1, <1>4, <1>5 DEF IInv, OutcomesCommon
  <2>2. CASE ~Over(b) /\ b # a
    BY <2>0, <2>2, <1>4, <1>6
  <2>3. CASE ~Over(b) /\ b = a
    <3>1. outcome[a] = {}
      BY <2>3, <1>6, <1>a
    <3>2. CASE O = outcome[a]
      BY <2>0, <2>3, <3>1, <3>2, <1>4
    <3>3. CASE /\ entered'[a] = members'[n]
               /\ \A i, j \in O : i = j
               /\ \A i \in O, q \in takers'[n] : i \in offer'[a][q]
      BY <2>0, <2>3, <3>3, <1>1, <1>4, <1>a DEF Over
    <3> QED
      BY <1>3, <3>2, <3>3
  <2> QED
    BY <2>1, <2>2, <2>3
<1>12. SecondRound'
  <2> SUFFICES ASSUME NEW k \in Call, entered'[<<k, 2>>] # {}
               PROVE  Over(<<k, 1>>)' /\ outcome'[<<k, 1>>] = {}
    BY Zenon DEF SecondRound
  <2>1. <<k, 1>> \in Round /\ <<k, 2>> \in Round
    BY Rounds
  <2>2. Over(<<k, 1>>) /\ outcome[<<k, 1>>] = {}
    <3>1. CASE a = <<k, 2>>
      BY <3>1 DEF a
    <3>2. CASE a # <<k, 2>>
      BY <3>2, <2>1, <1>4 DEF IInv, SecondRound
    <3> QED
      BY <3>1, <3>2
  <2> QED
    BY <2>1, <2>2, <1>4, <1>5
<1>13. HeldAreOutcomes'
  <2> SUFFICES ASSUME NEW q \in Proc, NEW h \in held[q]
               PROVE  h[2] \in Unused /\ \E s \in {1, 2} : h[2] \in outcome'[<<h[1], s>>]
    BY <1>1, Zenon DEF HeldAreOutcomes
  <2>1. PICK s \in {1, 2} : h[2] \in outcome[<<h[1], s>>]
    BY DEF IInv, HeldAreOutcomes
  <2>2. <<h[1], s>> \in Round
    BY <1>t DEF TypeOK, Round
  <2> QED
    BY <2>1, <2>2, <1>7 DEF IInv, HeldAreOutcomes
<1> QED
  BY <1>8, <1>9, <1>10, <1>11, <1>12, <1>13 DEF IInv

\* The first member's call.
LEMMA BeginInv ==
  ASSUME IInv, NEW p \in Proc, NEW n \in Call, Begin(p, n)
  PROVE  IInv'
<1>0. PICK M \in SUBSET Proc : /\ members' = [members EXCEPT ![n] = M]
                             /\ \E T \in SUBSET M : takers' = [takers EXCEPT ![n] = T]
  BY Zenon DEF Begin
<1>t. PICK T \in SUBSET M : takers' = [takers EXCEPT ![n] = T]
  BY <1>0, Zenon
<1>1. /\ members[n] = {} /\ T \subseteq M
      /\ members' = [members EXCEPT ![n] = M] /\ takers' = [takers EXCEPT ![n] = T]
      /\ HandIn(p, <<n, 1>>)
  BY <1>0, <1>t, Zenon DEF Begin
<1>2. members' \in [Call -> SUBSET Proc] /\ takers' \in [Call -> SUBSET Proc]
  BY <1>1 DEF IInv, TypeOK
<1>3. \A k \in Call : k # n => members'[k] = members[k] /\ takers'[k] = takers[k]
  BY <1>1 DEF IInv, TypeOK
<1>4. \A k \in Call : takers[k] \subseteq members[k]
  BY Rounds, Zenon DEF IInv, OutcomesCommon
<1>5. \A k \in Call : takers'[k] \subseteq members'[k]
  BY <1>1, <1>3, <1>4 DEF IInv, TypeOK
<1>6. \A k \in Call : \/ members'[k] = members[k] /\ takers'[k] = takers[k]
                      \/ members[k] = {}
  BY <1>1, <1>3
<1>7. 1 \in {1, 2} /\ 1 # 2
  OBVIOUS
<1> QED
  BY <1>1, <1>2, <1>5, <1>6, <1>7, HandInInv, Zenon

\* Another member's call, and the second round.
LEMMA JoinInv ==
  ASSUME IInv, NEW p \in Proc, NEW n \in Call, Join(p, n) \/ Retry(p, n)
  PROVE  IInv'
<1>1. members' = members /\ takers' = takers
  BY DEF Join, Retry
<1>2. members' \in [Call -> SUBSET Proc] /\ takers' \in [Call -> SUBSET Proc]
  BY <1>1 DEF IInv, TypeOK
<1>3. \A k \in Call : takers'[k] \subseteq members'[k]
  BY <1>1, Rounds, Zenon DEF IInv, OutcomesCommon
<1>4. CASE Join(p, n)
  <2>1. HandIn(p, <<n, 1>>)
    BY <1>4 DEF Join
  <2>2. 1 \in {1, 2} /\ 1 # 2
    OBVIOUS
  <2> QED
    BY <1>1, <1>2, <1>3, <2>1, <2>2, HandInInv, Zenon
<1>5. CASE Retry(p, n)
  <2>1. HandIn(p, <<n, 2>>) /\ Over(<<n, 1>>) /\ outcome[<<n, 1>>] = {}
    BY <1>5 DEF Retry
  <2> QED
    BY <1>1, <1>2, <1>3, <2>1, HandInInv
<1> QED
  BY <1>4, <1>5

\* An outcome of a call is the only one: the rounds of a call have not both one.
LEMMA OneOutcome ==
  ASSUME IInv, NEW n \in Call, NEW r \in {1, 2}, NEW s \in {1, 2},
         NEW i \in outcome[<<n, r>>], NEW j \in outcome[<<n, s>>]
  PROVE  i = j
<1>1. <<n, r>> \in Round /\ <<n, s>> \in Round
  BY Rounds, Zenon
<1>2. Over(<<n, r>>) /\ Over(<<n, s>>)
  BY <1>1 DEF IInv, OutcomesCommon
<1>3. ~(r = 1 /\ s = 2) /\ ~(r = 2 /\ s = 1)
  BY <1>2 DEF IInv, SecondRound, Over
<1>4. r = s
  BY <1>3
<1> QED
  BY <1>1, <1>4 DEF IInv, OutcomesCommon

\* The outcome of the round that a process waits in is in its mask.
LEMMA OutcomeIsFree ==
  ASSUME IInv, NEW p \in Proc, NEW n \in Call, NEW r \in {1, 2},
         at[p] = {<<n, r>>}, p \in takers[n], NEW i \in outcome[<<n, r>>]
  PROVE  i \in mask[p]
<1>1. <<n, r>> \in Round /\ <<n, r>>[1] = n
  BY Rounds, Zenon
<1>2. i \in offer[<<n, r>>][p]
  BY <1>1 DEF IInv, OutcomesCommon
<1> QED
  BY <1>1, <1>2 DEF IInv, OffersStand

\* Taking the id: it is in the mask, so that no communicator of the process
\* has it, and those of the same call have the same.
LEMMA TakeInv ==
  ASSUME IInv, NEW p \in Proc, NEW n \in Call, NEW r \in {1, 2}, Take(p, n, r)
  PROVE  IInv'
<1>2. <<n, r>> \in Round /\ <<n, r>>[1] = n
  BY Rounds, Zenon
<1>i. PICK i \in outcome[<<n, r>>] : /\ mask' = [mask EXCEPT ![p] = @ \ {i}]
                                    /\ held' = [held EXCEPT ![p] = @ \cup {<<n, i>>}]
  BY Zenon DEF Take
<1>0. i \in Id
  BY <1>2 DEF IInv, TypeOK
<1>1. /\ at[p] = {<<n, r>>} /\ i \in outcome[<<n, r>>] /\ p \in takers[n]
      /\ mask' = [mask EXCEPT ![p] = @ \ {i}]
      /\ held' = [held EXCEPT ![p] = @ \cup {<<n, i>>}]
      /\ at' = [at EXCEPT ![p] = {}]
      /\ UNCHANGED <<members, takers, entered, offer, outcome>>
  BY <1>i, Zenon DEF Take
<1>3. i \in mask[p]
  BY <1>1, OutcomeIsFree, Zenon
<1>4. i \in Unused
  BY <1>3 DEF IInv, TypeOK
<1>5. TypeOK'
  BY <1>0, <1>1 DEF IInv, TypeOK
<1>6. /\ mask'[p] = mask[p] \ {i} /\ held'[p] = held[p] \cup {<<n, i>>} /\ at'[p] = {}
      /\ \A q \in Proc : q # p => mask'[q] = mask[q] /\ held'[q] = held[q] /\ at'[q] = at[q]
  BY <1>1 DEF IInv, TypeOK
<1>7. \A q \in Proc : \A h \in held'[q] : h \in held[q] \/ (q = p /\ h = <<n, i>>)
  BY <1>6
<1>8. \A q \in Proc : mask'[q] = Unused \ {h[2] : h \in held'[q]}
  <2> SUFFICES ASSUME NEW q \in Proc
               PROVE  mask'[q] = Unused \ {h[2] : h \in held'[q]}
    OBVIOUS
  <2>1. mask[q] = Unused \ {h[2] : h \in held[q]}
    BY DEF IInv, IdsExact
  <2>2. CASE q # p
    BY <2>1, <2>2, <1>6
  <2>3. CASE q = p
    <3>1. held'[p] = held[p] \cup {<<n, i>>} /\ <<n, i>>[2] = i
      BY <1>6
    <3>2. {h[2] : h \in held[p] \cup {<<n, i>>}} = {h[2] : h \in held[p]} \cup {<<n, i>>[2]}
      BY Zenon
    <3> QED
      BY <2>1, <2>3, <3>1, <3>2, <1>6
  <2> QED
    BY <2>2, <2>3
<1>9. \A q \in Proc : \A g, h \in held'[q] : g[2] = h[2] => g = h
  <2>1. \A h \in held[p] : h[2] # i
    BY <1>3 DEF IInv, IdsExact
  <2>2. \A q \in Proc : \A g, h \in held[q] : g[2] = h[2] => g = h
    BY DEF IInv, IdsExact
  <2> QED
    BY <1>7, <2>1, <2>2
<1>10. \A q \in Proc : \A h \in held[q] : h[1] = n => h[2] = i
  <2> SUFFICES ASSUME NEW q \in Proc, NEW h \in held[q], h[1] = n
               PROVE  h[2] = i
    OBVIOUS
  <2>1. PICK s \in {1, 2} : h[2] \in outcome[<<n, s>>]
    BY DEF IInv, HeldAreOutcomes
  <2>2. IInv /\ i \in outcome[<<n, r>>] /\ h[2] \in outcome[<<n, s>>]
    BY <2>1, <1>1
  <2> QED
    BY ONLY <2>2, OneOutcome, n \in Call, r \in {1, 2}, s \in {1, 2}, Zenon
<1>11. \A q, o \in Proc : \A g \in held'[q], h \in held'[o] : g[1] = h[1] => g[2] = h[2]
  <2>1. \A q, o \in Proc : \A g \in held[q], h \in held[o] : g[1] = h[1] => g[2] = h[2]
    BY DEF IInv, IdsExact
  <2> QED
    BY <1>7, <1>10, <2>1
<1>12. IdsExact'
  BY <1>8, <1>9, <1>11 DEF IdsExact
<1>13. OffersStand'
  BY <1>1, <1>6 DEF IInv, OffersStand
<1>14. OutcomesCommon' /\ SecondRound'
  BY <1>1 DEF IInv, OutcomesCommon, SecondRound, Over
<1>15. HeldAreOutcomes'
  <2>1. \A q \in Proc : \A h \in held[q] :
          h[2] \in Unused /\ \E s \in {1, 2} : h[2] \in outcome[<<h[1], s>>]
    BY Zenon DEF IInv, HeldAreOutcomes
  <2> SUFFICES ASSUME NEW q \in Proc, NEW h \in held'[q]
               PROVE  h[2] \in Unused /\ \E s \in {1, 2} : h[2] \in outcome[<<h[1], s>>]
    BY <1>1, Zenon DEF HeldAreOutcomes
  <2>2. CASE h \in held[q]
    BY <2>1, <2>2
  <2>3. CASE h = <<n, i>>
    BY <2>3, <1>1, <1>4
  <2> QED
    BY <1>7, <2>2, <2>3
<1> QED
  BY <1>5, <1>12, <1>13, <1>14, <1>15 DEF IInv

\* Leaving without an id.
LEMMA LeaveInv ==
  ASSUME IInv, NEW p \in Proc, NEW n \in Call, NEW r \in {1, 2}, Leave(p, n, r)
  PROVE  IInv'
<1>1. /\ at' = [at EXCEPT ![p] = {}]
      /\ UNCHANGED <<mask, held, members, takers, entered, offer, outcome>>
  BY DEF Leave
<1>2. TypeOK'
  BY <1>1 DEF IInv, TypeOK
<1>3. \A q \in Proc : at'[q] \subseteq at[q]
  BY <1>1 DEF IInv, TypeOK
<1>4. OffersStand'
  BY <1>1, <1>3 DEF IInv, OffersStand
<1>5. IdsExact' /\ HeldAreOutcomes'
  BY <1>1 DEF IInv, IdsExact, HeldAreOutcomes
<1>6. OutcomesCommon' /\ SecondRound'
  BY <1>1 DEF IInv, OutcomesCommon, SecondRound, Over
<1> QED
  BY <1>2, <1>4, <1>5, <1>6 DEF IInv

\* Giving an id back (MPIR_Free_contextid): no other communicator has it.
LEMMA FreeInv ==
  ASSUME IInv, NEW p \in Proc, NEW n \in Call, Free(p, n)
  PROVE  IInv'
<1>h. PICK x \in held[p] : /\ x[1] = n
                           /\ mask' = [mask EXCEPT ![p] = @ \cup {x[2]}]
                           /\ held' = [held EXCEPT ![p] = @ \ {x}]
  BY Zenon DEF Free
<1> DEFINE i == x[2]
<1>x. x = <<n, i>>
  BY <1>h DEF IInv, TypeOK
<1> HIDE DEF i
<1>1. /\ at[p] = {} /\ <<n, i>> \in held[p]
      /\ mask' = [mask EXCEPT ![p] = @ \cup {i}]
      /\ held' = [held EXCEPT ![p] = @ \ {<<n, i>>}]
      /\ UNCHANGED <<members, takers, entered, offer, outcome, at>>
  BY <1>h, <1>x, Zenon DEF Free, i
<1>2. i \in Unused
  BY <1>1, Zenon DEF IInv, HeldAreOutcomes
<1>3. TypeOK'
  BY <1>1, <1>2 DEF IInv, TypeOK
<1>4. /\ mask'[p] = mask[p] \cup {i} /\ held'[p] = held[p] \ {<<n, i>>}
      /\ \A q \in Proc : q # p => mask'[q] = mask[q] /\ held'[q] = held[q]
  BY <1>1 DEF IInv, TypeOK
<1>5. \A q \in Proc : held'[q] \subseteq held[q]
  BY <1>4
<1>6. \A q \in Proc : mask'[q] = Unused \ {h[2] : h \in held'[q]}
  <2> SUFFICES ASSUME NEW q \in Proc
               PROVE  mask'[q] = Unused \ {h[2] : h \in held'[q]}
    OBVIOUS
  <2>1. mask[q] = Unused \ {h[2] : h \in held[q]}
    BY DEF IInv, IdsExact
  <2>2. CASE q # p
    BY <2>1, <2>2, <1>4
  <2>3. CASE q = p
    <3>1. \A h \in held[p] : h[2] = i => h = <<n, i>>
      BY <1>1 DEF IInv, IdsExact
    <3>2. {h[2] : h \in held'[p]} = {h[2] : h \in held[p]} \ {i}
      BY <3>1, <1>1, <1>4
    <3> QED
      BY <2>1, <2>3, <3>2, <1>2, <1>4
  <2> QED
    BY <2>2, <2>3
<1>7. IdsExact'
  <2>1. \A q \in Proc : \A g, h \in held'[q] : g[2] = h[2] => g = h
    BY <1>5 DEF IInv, IdsExact
  <2>2. \A q, o \in Proc : \A g \in held'[q], h \in held'[o] : g[1] = h[1] => g[2] = h[2]
    BY <1>5 DEF IInv, IdsExact
  <2> QED
    BY <1>6, <2>1, <2>2 DEF IdsExact
<1>8. OffersStand'
  <2>1. \A q \in Proc : mask[q] \subseteq mask'[q]
    BY <1>4
  <2> QED
    BY <1>1, <2>1 DEF IInv, OffersStand
<1>9. OutcomesCommon' /\ SecondRound'
  BY <1>1 DEF IInv, OutcomesCommon, SecondRound, Over
<1>10. HeldAreOutcomes'
  BY <1>1, <1>5, Zenon DEF IInv, HeldAreOutcomes
<1> QED
  BY <1>3, <1>7, <1>8, <1>9, <1>10 DEF IInv

\* Every step preserves the invariant.
LEMMA NextInv == IInv /\ [Next]_vars => IInv'
<1> SUFFICES ASSUME IInv, [Next]_vars PROVE IInv'
  OBVIOUS
<1>1. CASE UNCHANGED vars
  BY <1>1 DEF vars, IInv, TypeOK, IdsExact, OffersStand, OutcomesCommon, SecondRound,
              HeldAreOutcomes, Over
<1>2. CASE Next
  <2>1. PICK p \in Proc, n \in Call :
          \/ Begin(p, n) \/ Join(p, n) \/ Retry(p, n)
          \/ \E r \in {1, 2} : Leave(p, n, r) \/ Take(p, n, r)
          \/ Free(p, n)
    BY <1>2 DEF Next
  <2>2. CASE Begin(p, n)
    BY <2>2, BeginInv
  <2>3. CASE Join(p, n) \/ Retry(p, n)
    BY <2>3, JoinInv
  <2>4. CASE \E r \in {1, 2} : Leave(p, n, r) \/ Take(p, n, r)
    BY <2>4, LeaveInv, TakeInv
  <2>5. CASE Free(p, n)
    BY <2>5, FreeInv
  <2> QED
    BY <2>1, <2>2, <2>3, <2>4, <2>5
<1> QED
  BY <1>1, <1>2

\* The agreement of MPIR_Get_contextid_sparse_group, for any number of
\* processes, calls and ids: whoever makes a communicator together gets the
\* same id for it, no two communicators of a process have the same id, and
\* an id is unused exactly when no communicator of the process has it.
THEOREM IdsAreAgreed == Spec => []IdsExact
<1>1. IInv => IdsExact
  BY DEF IInv
<1> QED
  BY InitInv, NextInv, <1>1, PTL DEF Spec

\* The assertion of allocate_context_bit, for any number of processes, calls
\* and ids: the id that a process takes is unused when it takes it.
THEOREM AllocationAssertion == Spec => AllocatesFree
<1> DEFINE New == \A p \in Proc : \A h \in held'[p] \ held[p] : h[2] \in mask[p]
<1>1. IInv /\ [Next]_vars => [New]_vars
  <2> SUFFICES ASSUME IInv, Next, NEW p \in Proc, NEW h \in held'[p], h \notin held[p]
               PROVE  h[2] \in mask[p]
    BY DEF New
  <2>1. PICK q \in Proc, n \in Call :
          \/ Begin(q, n) \/ Join(q, n) \/ Retry(q, n)
          \/ \E r \in {1, 2} : Leave(q, n, r) \/ Take(q, n, r)
          \/ Free(q, n)
    BY DEF Next
  <2>2. CASE Begin(q, n) \/ Join(q, n) \/ Retry(q, n) \/ \E r \in {1, 2} : Leave(q, n, r)
    BY <2>2, Zenon DEF Begin, Join, Retry, Leave, HandIn
  <2>3. CASE Free(q, n)
    BY <2>3 DEF Free, IInv, TypeOK
  <2>4. CASE \E r \in {1, 2} : Take(q, n, r)
    <3>1. PICK r \in {1, 2} : Take(q, n, r)
      BY <2>4
    <3>2. PICK i \in outcome[<<n, r>>] : held' = [held EXCEPT ![q] = @ \cup {<<n, i>>}]
      BY <3>1, Zenon DEF Take
    <3>3. i \in mask[q]
      BY <3>1, OutcomeIsFree, Zenon DEF Take
    <3>4. p = q /\ h = <<n, i>>
      BY <3>2 DEF IInv, TypeOK
    <3> QED
      BY <3>3, <3>4
  <2> QED
    BY <2>1, <2>2, <2>3, <2>4
<1> QED
  BY InitInv, NextInv, <1>1, PTL DEF Spec, AllocatesFree
=============================================================================
