---------------------------- MODULE MatchQueues ----------------------------
(***************************************************************************)
(* What the receive queues of src/mpid/ch3/src/ch3u_recvq.c promise.       *)
(*                                                                         *)
(* Every MPI process has two queues: the receives it has posted and the    *)
(* messages that came before a receive wanted them.  A receive takes the   *)
(* oldest message it matches or is posted; a message is given to the       *)
(* oldest receive that matches it or is kept.  Entries may also be         *)
(* withdrawn: cancelled, revoked with their communicator, or failed with   *)
(* the process they come from.                                             *)
(*                                                                         *)
(* Operations are numbered in the order they happen, so that the queues    *)
(* are plain sets: the order of a queue is the order of the numbers.       *)
(* RecvQ, which follows the pointers of the code, implements this module.  *)
(***************************************************************************)
EXTENDS Integers

CONSTANTS Dest,      \* the receiving processes
          Pattern,   \* what a receive may ask for: source, tag, context
          Envelope,  \* what a message carries
          Match      \* the pairs <<pattern, envelope>> that fit

VARIABLES posted,      \* receives waiting for a message
          unexpected,  \* messages waiting for a receive
          pairs,       \* the pairs <<receive, message>> made so far
          number       \* operations so far
vars == <<posted, unexpected, pairs, number>>

Entry(What) == [id : Nat, dest : Dest, match : What]

Fits(r, m) == r.dest = m.dest /\ <<r.match, m.match>> \in Match
IsOldest(e, S) == \A f \in S : e.id <= f.id

TypeOK == /\ posted \subseteq Entry(Pattern)
          /\ unexpected \subseteq Entry(Envelope)
          /\ pairs \subseteq Entry(Pattern) \X Entry(Envelope)
          /\ number \in Nat
-----------------------------------------------------------------------------
Init == posted = {} /\ unexpected = {} /\ pairs = {} /\ number = 0

\* A receive is issued: MPIDI_CH3U_Recvq_FDU_or_AEP.
Receive(d, p) ==
  LET r == [id |-> number, dest |-> d, match |-> p]
      fitting == {m \in unexpected : Fits(r, m)}
  IN /\ number' = number + 1
     /\ \/ /\ fitting = {}
           /\ posted' = posted \cup {r}
           /\ UNCHANGED <<unexpected, pairs>>
        \/ \E m \in fitting : /\ IsOldest(m, fitting)
                              /\ unexpected' = unexpected \ {m}
                              /\ pairs' = pairs \cup {<<r, m>>}
                              /\ UNCHANGED posted

\* A message comes in: MPIDI_CH3U_Recvq_FDP_or_AEU.
Arrive(d, e) ==
  LET m == [id |-> number, dest |-> d, match |-> e]
      fitting == {r \in posted : Fits(r, m)}
  IN /\ number' = number + 1
     /\ \/ /\ fitting = {}
           /\ unexpected' = unexpected \cup {m}
           /\ UNCHANGED <<posted, pairs>>
        \/ \E r \in fitting : /\ IsOldest(r, fitting)
                              /\ posted' = posted \ {r}
                              /\ pairs' = pairs \cup {<<r, m>>}
                              /\ UNCHANGED unexpected

\* A receive from a process known to have failed is completed at once.
Refuse == number' = number + 1 /\ UNCHANGED <<posted, unexpected, pairs>>

\* Entries leave the queues unmatched.
Withdraw == /\ posted' \in SUBSET posted
            /\ unexpected' \in SUBSET unexpected
            /\ UNCHANGED <<pairs, number>>

Next == \/ \E d \in Dest, p \in Pattern : Receive(d, p)
        \/ \E d \in Dest, e \in Envelope : Arrive(d, e)
        \/ Refuse
        \/ Withdraw

Spec == Init /\ [][Next]_vars
-----------------------------------------------------------------------------
\* No receive is left waiting while a message it could take is queued.
NoMissedMatch == \A r \in posted, m \in unexpected : ~Fits(r, m)

\* MPI's non-overtaking rule.  Of two receives and two messages that all fit
\* each other, the earlier receive got the earlier message.
NonOvertaking ==
  \A x, y \in pairs :
     /\ Fits(x[1], y[2]) /\ Fits(y[1], x[2])
     /\ x[1].id < y[1].id
     => x[2].id < y[2].id

\* The entries that exist have distinct numbers that were given out.
Numbered == /\ \A e \in posted \cup unexpected : e.id < number
            /\ \A x \in pairs : x[1].id < number /\ x[2].id < number
            /\ \A e, f \in posted : e.id = f.id => e = f
            /\ \A e, f \in unexpected : e.id = f.id => e = f
            /\ \A x \in pairs : \A m \in unexpected : x[2].id # m.id
            /\ \A x \in pairs : \A r \in posted : x[1].id # r.id

\* A message still queued is younger than any message a fitting receive took;
\* a receive still posted is younger than any receive a fitting message got.
YoungerWait ==
  /\ \A x \in pairs, m \in unexpected : Fits(x[1], m) => x[2].id < m.id
  /\ \A x \in pairs, r \in posted : Fits(r, x[2]) => x[1].id < r.id

IInv == TypeOK /\ NoMissedMatch /\ NonOvertaking /\ Numbered /\ YoungerWait
=============================================================================
