----------------------------- MODULE ContextIds -----------------------------
(***************************************************************************)
(* What MPIR_Get_contextid_sparse_group (src/mpi/comm/contextid.c)         *)
(* promises: the processes that make a communicator together agree on a    *)
(* context id that none of them uses, although each knows only its own     *)
(* mask of unused ids and others make other communicators at the same      *)
(* time.                                                                   *)
(*                                                                         *)
(* A call has one or two rounds.  In a round every member hands in some of *)
(* the ids its mask has and waits for the others; the outcome is one id    *)
(* that all have handed in, or none.  The rounds are pairs of a call and a *)
(* number.  Communicators, which follows the code, implements this module. *)
(***************************************************************************)
EXTENDS Integers

CONSTANTS Proc,   \* the processes
          Call,   \* the collective calls that make communicators
          Id,     \* context ids
          Unused  \* the ids no predefined communicator has

VARIABLES mask,     \* context_mask of every process: the ids it may allocate
          held,     \* the pairs <<call, id>> of its communicators
          members,  \* the processes that take part in a call
          takers,   \* those that do not pass ignore_id
          entered,  \* who has handed in a mask for a round
          offer,    \* the mask handed in
          outcome,  \* what the round gave: no id, or one
          at        \* the round a process waits in
vars == <<mask, held, members, takers, entered, offer, outcome, at>>

Round == Call \X {1, 2}

TypeOK == /\ mask \in [Proc -> SUBSET Unused]
          /\ held \in [Proc -> SUBSET (Call \X Id)]
          /\ members \in [Call -> SUBSET Proc]
          /\ takers \in [Call -> SUBSET Proc]
          /\ entered \in [Round -> SUBSET Proc]
          /\ offer \in [Round -> [Proc -> SUBSET Unused]]
          /\ outcome \in [Round -> SUBSET Id]
          /\ at \in [Proc -> SUBSET Round]
-----------------------------------------------------------------------------
\* context_id_init.
Init == /\ mask = [p \in Proc |-> Unused]
        /\ held = [p \in Proc |-> {}]
        /\ members = [n \in Call |-> {}] /\ takers = [n \in Call |-> {}]
        /\ entered = [a \in Round |-> {}]
        /\ offer = [a \in Round |-> [p \in Proc |-> {}]]
        /\ outcome = [a \in Round |-> {}]
        /\ at = [p \in Proc |-> {}]

\* Every member has handed in its mask.
Over(a) == members[a[1]] # {} /\ entered[a] = members[a[1]]

\* p hands in some ids for the round a and waits.  The last member to do so
\* decides the outcome.
HandIn(p, a) ==
  /\ at' = [at EXCEPT ![p] = {a}]
  /\ p \in members'[a[1]] \ entered[a]
  /\ entered' = [entered EXCEPT ![a] = @ \cup {p}]
  /\ \E S \in SUBSET mask[p] : offer' = [offer EXCEPT ![a][p] = S]
  /\ \/ entered'[a] # members'[a[1]] /\ UNCHANGED outcome
     \/ /\ entered'[a] = members'[a[1]]
        /\ \E O \in {{}} \cup {{i} : i \in Id} :
             /\ \A i \in O, q \in takers'[a[1]] : i \in offer'[a][q]
             /\ outcome' = [outcome EXCEPT ![a] = O]
  /\ UNCHANGED <<mask, held>>

\* The first member makes the call, on a communicator with the members M of
\* whom T take part in the new one.
Begin(p, n) ==
  /\ at[p] = {} /\ members[n] = {}
  /\ HandIn(p, <<n, 1>>)
  /\ \E M \in SUBSET Proc : /\ members' = [members EXCEPT ![n] = M]
                           /\ \E T \in SUBSET M : takers' = [takers EXCEPT ![n] = T]

\* Another member makes it.
Join(p, n) ==
  /\ at[p] = {} /\ members[n] # {}
  /\ HandIn(p, <<n, 1>>)
  /\ UNCHANGED <<members, takers>>

\* No id in the first round: there is a second.
Retry(p, n) ==
  /\ at[p] = {<<n, 1>>} /\ Over(<<n, 1>>) /\ outcome[<<n, 1>>] = {}
  /\ HandIn(p, <<n, 2>>)
  /\ UNCHANGED <<members, takers>>

\* A process takes the id for its new communicator.
Take(p, n, r) ==
  /\ at[p] = {<<n, r>>} /\ Over(<<n, r>>) /\ p \in takers[n]
  /\ at' = [at EXCEPT ![p] = {}]
  /\ \E i \in outcome[<<n, r>>] : /\ mask' = [mask EXCEPT ![p] = @ \ {i}]
                                /\ held' = [held EXCEPT ![p] = @ \cup {<<n, i>>}]
  /\ UNCHANGED <<members, takers, entered, offer, outcome>>

\* A process leaves without: it is in no new communicator, or there is no id.
Leave(p, n, r) ==
  /\ at[p] = {<<n, r>>} /\ Over(<<n, r>>)
  /\ at' = [at EXCEPT ![p] = {}]
  /\ UNCHANGED <<mask, held, members, takers, entered, offer, outcome>>

\* MPIR_Free_contextid.
Free(p, n) ==
  /\ at[p] = {}
  /\ \E h \in held[p] : /\ h[1] = n
                        /\ mask' = [mask EXCEPT ![p] = @ \cup {h[2]}]
                        /\ held' = [held EXCEPT ![p] = @ \ {h}]
  /\ UNCHANGED <<members, takers, entered, offer, outcome, at>>

Next == \E p \in Proc, n \in Call :
          \/ Begin(p, n) \/ Join(p, n) \/ Retry(p, n)
          \/ \E r \in {1, 2} : Leave(p, n, r) \/ Take(p, n, r)
          \/ Free(p, n)

Spec == Init /\ [][Next]_vars
-----------------------------------------------------------------------------
\* MPIR_Get_contextid_sparse_group and MPIR_Free_contextid: an id is unused
\* exactly when no communicator of the process has it, no two communicators
\* of a process have the same id, and those that made one in the same call
\* have the same id for it.
IdsExact ==
  /\ \A p \in Proc : mask[p] = Unused \ {h[2] : h \in held[p]}
  /\ \A p \in Proc : \A g, h \in held[p] : g[2] = h[2] => g = h
  /\ \A p, q \in Proc : \A g \in held[p], h \in held[q] : g[1] = h[1] => g[2] = h[2]

\* allocate_context_bit asserts that the bit it clears is set: an id that a
\* process takes for a communicator is in its mask, although the mask was
\* read before the wait.
AllocatesFree == [][\A p \in Proc : \A h \in held'[p] \ held[p] : h[2] \in mask[p]]_vars

\* A waiting process has handed in ids that its mask still has, ...
OffersStand ==
  \A p \in Proc, a \in Round :
    a \in at[p] => p \in entered[a] /\ offer[a][p] \subseteq mask[p]

\* ... the outcome of a round was handed in by all who take part, ...
OutcomesCommon ==
  \A a \in Round :
    /\ takers[a[1]] \subseteq members[a[1]]
    /\ \A i, j \in outcome[a] : i = j
    /\ \A i \in outcome[a] : Over(a) /\ \A q \in takers[a[1]] : i \in offer[a][q]

\* ... there is a second round only if the first gave no id, ...
SecondRound ==
  \A n \in Call : entered[<<n, 2>>] # {} => Over(<<n, 1>>) /\ outcome[<<n, 1>>] = {}

\* ... and what a process holds is the outcome of a round of its call.
HeldAreOutcomes ==
  \A p \in Proc : \A h \in held[p] : h[2] \in Unused /\ \E r \in {1, 2} : h[2] \in outcome[<<h[1], r>>]

IInv == TypeOK /\ IdsExact /\ OffersStand /\ OutcomesCommon /\ SecondRound /\ HeldAreOutcomes
=============================================================================
