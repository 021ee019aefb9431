------------------------------- MODULE Barrier -------------------------------
(***************************************************************************)
(* What MPI_Barrier promises to the processes of a communicator: nobody    *)
(* leaves a barrier before everybody has entered it.  A process may be in  *)
(* the next barrier while others have not left the last one yet.           *)
(***************************************************************************)
EXTENDS Integers

CONSTANTS Rank, MaxRounds

VARIABLES entered, left   \* how many barriers each process has entered and left

vars == <<entered, left>>

Init == entered = [p \in Rank |-> 0] /\ left = [p \in Rank |-> 0]

Enter(p) == /\ entered[p] = left[p] /\ entered[p] < MaxRounds
            /\ entered' = [entered EXCEPT ![p] = @ + 1]
            /\ UNCHANGED left

Leave(p) == /\ left[p] < entered[p]
            /\ \A q \in Rank : entered[q] >= entered[p]
            /\ left' = [left EXCEPT ![p] = @ + 1]
            /\ UNCHANGED entered

Next == \E p \in Rank : Enter(p) \/ Leave(p)

Spec == Init /\ [][Next]_vars
==============================================================================
