------------------------------ MODULE CoBarrier ------------------------------
(***************************************************************************)
(* The hierarchical barrier of FG-MPI, barrier_smp_intra in                *)
(* src/mpi/coll/barrier.c.  The processes that share an OS process meet in *)
(* shared variables (co_barrier_vars): the last to come raises             *)
(* leader_signal, their leader then takes part in the barriers of the node *)
(* and of the node roots, and releases them by flipping coproclet_signal.  *)
(* A waiting process yields and looks again; between two yields nothing    *)
(* else runs, so each action is what a process does between two looks.     *)
(*                                                                         *)
(* The collectives among the leaders are what their callers rely on: a     *)
(* process leaves the barrier on node_comm or node_roots_comm when all its *)
(* members have come to it (DissemBarrier models the algorithm), and the   *)
(* broadcast of node_comm when its root has called it.  A communicator     *)
(* with one member is NULL in the code, and its collective is no wait here.*)
(*                                                                         *)
(* The variables entered, left, atNode, atRoots and cast count the calls   *)
(* of each process; the code has none of them.                             *)
(***************************************************************************)
EXTENDS Integers, FiniteSets

CONSTANTS
    Rank,        \* the processes of the communicator
    LeaderOf,    \* the leader of the OS process of each: rank 0 of osproc_colocated_comm
    RootOf,      \* rank 0 of the node_comm of each leader
    MaxRounds    \* how often each process may call MPI_Barrier

Leader == {p \in Rank : LeaderOf[p] = p}
Others(l) == {p \in Rank \ {l} : LeaderOf[p] = l}
Root == {l \in Leader : RootOf[l] = l}

ASSUME RankAssumption ==
    /\ IsFiniteSet(Rank)
    /\ LeaderOf \in [Rank -> Rank] /\ \A p \in Rank : LeaderOf[p] \in Leader
    /\ RootOf \in [Leader -> Leader] /\ \A l \in Leader : RootOf[l] \in Root
    /\ MaxRounds \in Nat

VARIABLES
    counter,     \* coproclet_counter of each OS process, named by its leader
    leaderSig,   \* leader_signal
    signal,      \* coproclet_signal
    sense,       \* colocated_sense, a local variable of each process
    pc,          \* where each process is
    entered, left, atNode, atRoots, cast

shared == <<counter, leaderSig, signal>>
calls == <<atNode, atRoots, cast>>
vars == <<shared, sense, pc, entered, left, calls>>

TypeOK ==
    /\ counter \in [Leader -> Nat]
    /\ leaderSig \in [Leader -> {0, 1}] /\ signal \in [Leader -> {0, 1}]
    /\ sense \in [Rank -> {0, 1}]
    /\ pc \in [Rank -> {"out", "wait", "lead", "node", "roots", "bcast", "free"}]
    /\ entered \in [Rank -> Nat] /\ left \in [Rank -> Nat]
    /\ atNode \in [Leader -> Nat] /\ atRoots \in [Root -> Nat] /\ cast \in [Root -> Nat]

\* The variables as MPID_Init sets them for MPI_COMM_WORLD.
Init ==
    /\ counter = [l \in Leader |-> 0]
    /\ leaderSig = [l \in Leader |-> 0] /\ signal = [l \in Leader |-> 0]
    /\ sense = [p \in Rank |-> 0]
    /\ pc = [p \in Rank |-> "out"]
    /\ entered = [p \in Rank |-> 0] /\ left = [p \in Rank |-> 0]
    /\ atNode = [l \in Leader |-> 0]
    /\ atRoots = [l \in Root |-> 0] /\ cast = [l \in Root |-> 0]

Enters(p) == /\ pc[p] = "out" /\ entered[p] < MaxRounds
             /\ entered' = [entered EXCEPT ![p] = @ + 1]

\* Plausible error: the leader is counted among those that are waited for.
Bug_CountsLeader(l) == counter[l] = Cardinality(Others(l))

\* The process that comes now is the last one but the leader.
IsLast(l) == counter[l] + 1 = Cardinality(Others(l))

\* A process that is not the leader counts itself, and waits.
Arrive(p) ==
    LET l == LeaderOf[p]
    IN /\ p \notin Leader /\ Enters(p)
       /\ sense' = [sense EXCEPT ![p] = signal[l]]
       /\ counter' = [counter EXCEPT ![l] = @ + 1]
       /\ leaderSig' = [leaderSig EXCEPT ![l] = IF IsLast(l) THEN 1 ELSE @]
       /\ pc' = [pc EXCEPT ![p] = "wait"]
       /\ UNCHANGED <<signal, left, calls>>

\* It leaves once the signal is no longer what it was when it came.
Depart(p) ==
    /\ pc[p] = "wait" /\ signal[LeaderOf[p]] # sense[p]
    /\ pc' = [pc EXCEPT ![p] = "out"]
    /\ left' = [left EXCEPT ![p] = @ + 1]
    /\ UNCHANGED <<shared, sense, entered, calls>>

\* The leader comes, and waits for the others unless it is alone.
ArriveLeader(l) ==
    /\ Enters(l)
    /\ pc' = [pc EXCEPT ![l] = "lead"]
    /\ UNCHANGED <<shared, sense, left, calls>>

\* It goes on to the barrier of its node.
Gathered(l) ==
    /\ pc[l] = "lead"
    /\ Others(l) = {} \/ leaderSig[l] # 0
    /\ pc' = [pc EXCEPT ![l] = "node"]
    /\ atNode' = [atNode EXCEPT ![l] = @ + 1]
    /\ UNCHANGED <<shared, sense, entered, left, atRoots, cast>>

\* It leaves that barrier; rank 0 of the node comes to the one of the roots, the
\* others to the broadcast.
NodeBarrier(l) ==
    /\ pc[l] = "node"
    /\ \A k \in Leader : RootOf[k] = RootOf[l] => atNode[k] >= atNode[l]
    /\ \/ /\ l \in Root
          /\ pc' = [pc EXCEPT ![l] = "roots"]
          /\ atRoots' = [atRoots EXCEPT ![l] = @ + 1]
       \/ /\ l \notin Root
          /\ pc' = [pc EXCEPT ![l] = "bcast"]
          /\ UNCHANGED atRoots
    /\ UNCHANGED <<shared, sense, entered, left, atNode, cast>>

\* A root leaves the barrier of the roots and broadcasts.
RootsBarrier(l) ==
    /\ l \in Root /\ pc[l] = "roots"
    /\ \A k \in Root : atRoots[k] >= atRoots[l]
    /\ pc' = [pc EXCEPT ![l] = "free"]
    /\ cast' = [cast EXCEPT ![l] = @ + 1]
    /\ UNCHANGED <<shared, sense, entered, left, atNode, atRoots>>

\* Plausible error: the release of the node is forgotten.
Bug_NoBroadcast(l) == pc[l] \in {"free", "bcast"}

\* The collectives among the leaders are over for l.
Through(l) == \/ pc[l] = "free"
              \/ pc[l] = "bcast" /\ cast[RootOf[l]] >= atNode[l]

\* The leader resets the variables, flips the signal and leaves.
Release(l) ==
    /\ Through(l)
    /\ leaderSig' = [leaderSig EXCEPT ![l] = 0]
    /\ counter' = [counter EXCEPT ![l] = 0]
    /\ signal' = [signal EXCEPT ![l] = 1 - @]
    /\ pc' = [pc EXCEPT ![l] = "out"]
    /\ left' = [left EXCEPT ![l] = @ + 1]
    /\ UNCHANGED <<sense, entered, calls>>

LeaderStep(l) == \/ ArriveLeader(l) \/ Gathered(l) \/ NodeBarrier(l)
                 \/ RootsBarrier(l) \/ Release(l)

Next == \/ \E p \in Rank : Arrive(p) \/ Depart(p)
        \/ \E l \in Leader : LeaderStep(l)

\* Every waiting process is scheduled again: the run list is a FIFO queue.
\* Nobody is obliged to call MPI_Barrier.
Fairness ==
    /\ \A p \in Rank : WF_vars(Depart(p))
    /\ \A l \in Leader : WF_vars(Gathered(l) \/ NodeBarrier(l) \/ RootsBarrier(l) \/ Release(l))

Spec == Init /\ [][Next]_vars /\ Fairness
-----------------------------------------------------------------------------
(* Properties.                                                             *)

\* Nobody leaves a barrier that some process has not entered, although
\* coproclet_counter, leader_signal and coproclet_signal are used again at once
\* for the next barrier.
NobodyLeavesEarly == \A p, q \in Rank : left[p] <= entered[q]

\* barrier_smp_intra does what Barrier says.
Abstract == INSTANCE Barrier
ImplementsBarrier == Abstract!Spec

\* A barrier that everybody has entered ends for everybody: no process misses
\* the flip of coproclet_signal, even when the signal flips again later.
BarrierEnds ==
    \A r \in 1 .. MaxRounds :
      (\A p \in Rank : entered[p] >= r) ~> (\A p \in Rank : left[p] >= r)

\* Those that coproclet_counter counts.  The leader l has left left[l] barriers.
Counted(l) == {p \in Others(l) : pc[p] = "wait" /\ sense[p] = signal[l]}

Position(p, l) ==
    \/ pc[p] = "out" /\ entered[p] = left[l] /\ left[p] = left[l]
    \/ pc[p] = "wait" /\ sense[p] = signal[l] /\ entered[p] = left[l] + 1 /\ left[p] = left[l]
    \/ pc[p] = "wait" /\ sense[p] # signal[l] /\ entered[p] = left[l] /\ left[p] = left[l] - 1

LeaderPosition(l) ==
    /\ pc[l] \in {"out", "lead", "node", "roots", "bcast", "free"}
    /\ pc[l] \in {"roots", "free"} => l \in Root
    /\ entered[l] = IF pc[l] = "out" THEN left[l] ELSE left[l] + 1
    /\ atNode[l] = IF pc[l] \in {"out", "lead"} THEN left[l] ELSE left[l] + 1

RootPosition(l) ==
    /\ pc[l] # "bcast"
    /\ atRoots[l] = IF pc[l] \in {"roots", "free"} THEN left[l] + 1 ELSE left[l]
    /\ cast[l] = IF pc[l] = "free" THEN left[l] + 1 ELSE left[l]

\* The leader's part of the variables: leader_signal says that everybody is
\* counted, and everybody is while the leader is beyond its wait.
Gathering(l) ==
    /\ counter[l] = Cardinality(Counted(l))
    /\ leaderSig[l] = 1 \/ pc[l] \in {"node", "roots", "bcast", "free"}
          => Counted(l) = Others(l)

\* The inductive invariant: every process is at most one barrier away from its
\* leader, coproclet_counter counts those that have seen the present signal, and
\* nobody is ahead of what the collectives among the leaders allow.
IInv ==
    /\ TypeOK
    /\ \A p \in Rank \ Leader : Position(p, LeaderOf[p])
    /\ \A l \in Leader : LeaderPosition(l)
    /\ \A l \in Root : RootPosition(l)
    /\ \A l \in Leader : Gathering(l)
    /\ \A l \in Leader : atRoots[RootOf[l]] <= atNode[l]
    /\ \A k, l \in Root : cast[k] <= atRoots[l]
    /\ \A l \in Leader : left[l] <= cast[RootOf[l]]
==============================================================================
