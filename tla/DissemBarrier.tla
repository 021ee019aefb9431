---------------------------- MODULE DissemBarrier ----------------------------
(***************************************************************************)
(* The dissemination barrier of a communicator without nested              *)
(* communicators: MPIR_Barrier_intra in src/mpi/coll/barrier.c, on top of  *)
(* MPIC_Sendrecv in src/mpi/coll/helper_fns.c.  In each round a process    *)
(* sends an empty message mask ranks ahead and receives one from mask      *)
(* ranks behind, and mask doubles.  Every message has the same tag, so a   *)
(* message of the next barrier may be waiting behind one of this barrier.  *)
(*                                                                         *)
(* A send between collocated processes completes when it is matched, one   *)
(* to another OS process completes at once (MPIDI_Isend_self and the eager *)
(* protocol).  Communication errors are not modelled.                      *)
(***************************************************************************)
EXTENDS Integers

CONSTANTS
    MaxSize,     \* the largest size of the communicator
    MaxRounds    \* how often each process may call MPI_Barrier

ASSUME SizeAssumption == MaxSize \in Nat \ {0} /\ MaxRounds \in Nat

VARIABLES
    size,        \* local_size of the communicator
    width,       \* how many consecutive ranks share an OS process
    mask,        \* mask of each process, 0 outside the barrier
    sending, receiving,  \* whose send and receive of this round are incomplete
    flight,      \* messages sent from one rank to another and not matched yet
    entered, left

vars == <<size, width, mask, sending, receiving, flight, entered, left>>

Rank == 0 .. size - 1

TypeOK ==
    /\ size \in 1 .. MaxSize /\ width \in 1 .. MaxSize
    /\ mask \in [Rank -> 0 .. MaxSize]
    /\ sending \subseteq Rank /\ receiving \subseteq Rank
    /\ flight \in [Rank \X Rank -> 0 .. 2]
    /\ entered \in [Rank -> 0 .. MaxRounds] /\ left \in [Rank -> 0 .. MaxRounds]

Init ==
    /\ size \in 1 .. MaxSize /\ width \in 1 .. size
    /\ mask = [p \in Rank |-> 0]
    /\ sending = {} /\ receiving = {}
    /\ flight = [c \in Rank \X Rank |-> 0]
    /\ entered = [p \in Rank |-> 0] /\ left = [p \in Rank |-> 0]

Dst(p, k) == (p + k) % size
Src(p, k) == (p - k + size) % size
Collocated(p, q) == p \div width = q \div width

\* MPIC_Sendrecv up to its waits: post the receive and send the message.
MPIC_Sendrecv(p, k) ==
    /\ mask' = [mask EXCEPT ![p] = k]
    /\ receiving' = receiving \cup {p}
    /\ sending' = IF Collocated(p, Dst(p, k)) THEN sending \cup {p} ELSE sending
    /\ flight' = [flight EXCEPT ![<<p, Dst(p, k)>>] = @ + 1]

\* Entry of MPIR_Barrier_intra; it is trivial for a single process.
Enter(p) ==
    /\ mask[p] = 0 /\ entered[p] < MaxRounds
    /\ entered' = [entered EXCEPT ![p] = @ + 1]
    /\ \/ /\ size = 1
          /\ left' = [left EXCEPT ![p] = @ + 1]
          /\ UNCHANGED <<mask, sending, receiving, flight>>
       \/ /\ size > 1
          /\ MPIC_Sendrecv(p, 1)
          /\ UNCHANGED left
    /\ UNCHANGED <<size, width>>

\* Plausible error: the message stays queued for another receive.
Bug_MatchKeeps(p) ==
    LET s == Src(p, mask[p])
    IN /\ p \in receiving /\ flight[<<s, p>>] > 0
       /\ receiving' = receiving \ {p}
       /\ sending' = IF Collocated(s, p) THEN sending \ {s} ELSE sending
       /\ UNCHANGED <<size, width, mask, flight, entered, left>>

\* Plausible error: the receive is posted after the wait for the send.
Bug_SendFirst(p) ==
    LET s == Src(p, mask[p])
    IN /\ p \in receiving /\ p \notin sending /\ flight[<<s, p>>] > 0
       /\ receiving' = receiving \ {p}
       /\ sending' = IF Collocated(s, p) THEN sending \ {s} ELSE sending
       /\ flight' = [flight EXCEPT ![<<s, p>>] = @ - 1]
       /\ UNCHANGED <<size, width, mask, entered, left>>

\* The message from the source of this round meets the receive of p.
Match(p) ==
    LET s == Src(p, mask[p])
    IN /\ p \in receiving /\ flight[<<s, p>>] > 0
       /\ receiving' = receiving \ {p}
       /\ sending' = IF Collocated(s, p) THEN sending \ {s} ELSE sending
       /\ flight' = [flight EXCEPT ![<<s, p>>] = @ - 1]
       /\ UNCHANGED <<size, width, mask, entered, left>>

\* Plausible error: the last round, which crosses half the ring, is dropped.
Bug_Again(p) == mask[p] * 2 < size - 1

\* The loop condition after mask <<= 1.
Again(p) == mask[p] * 2 < size

\* Both waits of MPIC_Sendrecv are over: the next round, or out of the barrier.
Advance(p) ==
    /\ mask[p] # 0 /\ p \notin sending /\ p \notin receiving
    /\ \/ /\ Again(p)
          /\ MPIC_Sendrecv(p, mask[p] * 2)
          /\ UNCHANGED left
       \/ /\ ~Again(p)
          /\ mask' = [mask EXCEPT ![p] = 0]
          /\ left' = [left EXCEPT ![p] = @ + 1]
          /\ UNCHANGED <<sending, receiving, flight>>
    /\ UNCHANGED <<size, width, entered>>

Next == \E p \in Rank : Enter(p) \/ Match(p) \/ Advance(p)

\* Messages arrive and waiting processes are scheduled; nobody is obliged to
\* call MPI_Barrier.
Fairness == \A p \in 0 .. MaxSize - 1 : WF_vars(p \in Rank /\ (Match(p) \/ Advance(p)))

Spec == Init /\ [][Next]_vars /\ Fairness
-----------------------------------------------------------------------------
\* Nobody leaves a barrier before everybody has entered it, for sizes that are
\* no power of two as well: the rounds of MPIR_Barrier_intra reach every rank.
NobodyLeavesEarly == \A p, q \in Rank : left[p] <= entered[q]

\* When everybody is out of the same barrier all its messages are used up: none
\* is left to meet a receive of a later barrier, whose tag is the same.
NoneLeftOver ==
    (\A p \in Rank : left[p] = entered[p] /\ left[p] = left[0])
       => \A c \in Rank \X Rank : flight[c] = 0

\* A barrier that everybody has entered ends for everybody: MPIC_Sendrecv posts
\* the receive before it waits for the send, so no ring of sends can block.
BarrierEnds ==
    \A r \in 1 .. MaxRounds :
      (\A p \in Rank : entered[p] >= r) ~> (\A p \in Rank : left[p] >= r)
==============================================================================
