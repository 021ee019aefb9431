------------------------------- MODULE PidMap --------------------------------
(***************************************************************************)
(* Where a process of MPI_COMM_WORLD runs.  At start every OS process      *)
(* publishes which world ranks it runs and reads what the others published *)
(* (publish_fg in src/mpid/ch3/src/mpid_vc.c); later every send looks the  *)
(* OS process of a world rank up by binary search (FGI_worldrank_to_pid in *)
(* src/mpi/init/fginit.c).  The key-value space and the barrier are those  *)
(* of the process manager (PMI).                                           *)
(*                                                                         *)
(* A search runs without a switch on a table that no longer changes, so it *)
(* is enough to follow one search at a time.                               *)
(***************************************************************************)
EXTENDS Integers

CONSTANTS
    MaxPid,      \* the largest number of OS processes
    Tuple        \* the values of FGP_tuple_t: start rank and number of ranks

ASSUME TupleAssumption ==
    /\ MaxPid \in Nat \ {0}
    /\ Tuple \subseteq [start : Nat, num : Nat \ {0}]

None == [start |-> -1, num |-> 0]
Idle == [at |-> "idle", who |-> 0, rank |-> 0, low |-> 0, high |-> 0]

VARIABLES
    size,        \* number of OS processes
    layout,      \* which ranks mpiexec told each OS process to run
    stage,       \* where each OS process is in publish_fg
    kvs,         \* the pairs numfgps[i], fgpstartrank[i] in the key-value space
    table,       \* pid_to_fgps of each OS process
    search       \* the variables of FGI_worldrank_to_pid

vars == <<size, layout, stage, kvs, table, search>>

Pid == 0 .. size - 1
World == 0 .. layout[size - 1].start + layout[size - 1].num - 1
Runs(i, r) == layout[i].start <= r /\ r < layout[i].start + layout[i].num

\* mpiexec hands out the world ranks in the order of the OS processes.
Partition ==
    /\ \A i, j \in Pid : i < j => layout[i].start + layout[i].num <= layout[j].start
    /\ \A r \in World : \E i \in Pid : Runs(i, r)

Init ==
    /\ size \in 1 .. MaxPid
    /\ layout \in [Pid -> Tuple] /\ Partition
    /\ stage = [p \in Pid |-> "start"]
    /\ kvs = [p \in Pid |-> None]
    /\ table = [p \in Pid |-> [i \in Pid |-> None]]
    /\ search = Idle

\* PMI_KVS_Put and PMI_KVS_Commit; a single OS process publishes nothing.
Publish(p) ==
    /\ stage[p] = "start"
    /\ \/ size > 1 /\ kvs' = [kvs EXCEPT ![p] = layout[p]]
       \/ size = 1 /\ UNCHANGED kvs
    /\ stage' = [stage EXCEPT ![p] = "barrier"]
    /\ UNCHANGED <<size, layout, table, search>>

\* Plausible error: the barrier between the puts and the gets is missing.
Bug_NoBarrier(p) == stage[p] = "barrier"

\* PMI_Barrier: all OS processes have committed.
PMI_Barrier(p) == stage[p] = "barrier" /\ \A q \in Pid : stage[q] # "start"

\* The loop of PMI_KVS_Get; a key that is not there is an error.
ReadAll(p) ==
    /\ PMI_Barrier(p)
    /\ table' = [table EXCEPT ![p] = [i \in Pid |-> IF i = p THEN layout[p] ELSE kvs[i]]]
    /\ stage' = [stage EXCEPT ![p] =
                    IF \A i \in Pid \ {p} : kvs[i] # None THEN "ready" ELSE "failed"]
    /\ UNCHANGED <<size, layout, kvs, search>>

\* FG_worldrank_to_pid is called on p for world rank r.
Lookup(p, r) ==
    /\ stage[p] = "ready" /\ search.at # "loop"
    /\ search' = [at |-> "loop", who |-> p, rank |-> r, low |-> 0, high |-> size - 1]
    /\ UNCHANGED <<size, layout, stage, kvs, table>>

\* Plausible error: the end of a range is taken for its last rank.
Bug_EndIncluded(r, t) == r > t.start + t.num

\* FG_is_within(r, t.start, t.num): EQUAL is neither.
Less(r, t) == r < t.start
Greater(r, t) == r >= t.start + t.num

\* Plausible error: the upper half starts with the middle.
Bug_MiddleKept(s, t) ==
    LET mid == (s.low + s.high) \div 2
    IN IF s.low > s.high THEN [s EXCEPT !.at = "abort"]
       ELSE IF Less(s.rank, t[mid]) THEN [s EXCEPT !.high = mid - 1]
       ELSE IF Greater(s.rank, t[mid]) THEN [s EXCEPT !.low = mid]
       ELSE [s EXCEPT !.at = "found", !.low = mid, !.high = mid]

\* One iteration on table t, with what FG_worldrank_to_pid makes of its end: it
\* aborts when nothing is found.  What is found is kept in low and high.
Iteration(s, t) ==
    LET mid == (s.low + s.high) \div 2
    IN IF s.low > s.high THEN [s EXCEPT !.at = "abort"]
       ELSE IF Less(s.rank, t[mid]) THEN [s EXCEPT !.high = mid - 1]
       ELSE IF Greater(s.rank, t[mid]) THEN [s EXCEPT !.low = mid + 1]
       ELSE [s EXCEPT !.at = "found", !.low = mid, !.high = mid]

Iterate ==
    /\ search.at = "loop"
    /\ search' = Iteration(search, table[search.who])
    /\ UNCHANGED <<size, layout, stage, kvs, table>>

Next == \/ \E p \in Pid : Publish(p) \/ ReadAll(p)
        \/ \E p \in Pid, r \in World : Lookup(p, r)
        \/ Iterate

\* A search is plain code: it goes on.
Spec == Init /\ [][Next]_vars /\ WF_vars(Iterate)
-----------------------------------------------------------------------------
(* Properties.                                                             *)

\* The pid that FG_worldrank_to_pid returns, on any OS process, is the one that
\* runs the rank.
LookupRight == search.at = "found" => search.low \in Pid /\ Runs(search.low, search.rank)

\* No PMI_KVS_Get fails, and the place that "should not be reached" in
\* FG_worldrank_to_pid is not reached.
NeverFails == search.at # "abort" /\ \A p \in Pid : stage[p] # "failed"

\* FGI_worldrank_to_pid ends.
LookupEnds == search.at = "loop" ~> search.at # "loop"

TypeOK ==
    /\ size \in Nat \ {0}
    /\ layout \in [Pid -> Tuple]
    /\ stage \in [Pid -> {"start", "barrier", "ready", "failed"}]
    /\ kvs \in [Pid -> Tuple \cup {None}]
    /\ table \in [Pid -> [Pid -> Tuple \cup {None}]]
    /\ search \in [at : {"idle", "loop", "found", "abort"}, who : Pid,
                   rank : Int, low : Int, high : Int]

\* The inductive invariant: what is published or read is true, everybody has
\* published before anybody reads, and the rank that is looked for is run by an
\* OS process between low and high.
IInv ==
    /\ TypeOK /\ Partition
    /\ \A p \in Pid : stage[p] # "start" /\ size > 1 => kvs[p] = layout[p]
    /\ \A p \in Pid : stage[p] = "ready" => table[p] = layout
    /\ NeverFails /\ LookupRight
    /\ search.at = "loop" =>
         /\ stage[search.who] = "ready"
         /\ 0 <= search.low /\ search.high < size
         /\ \E i \in Pid : search.low <= i /\ i <= search.high /\ Runs(i, search.rank)
==============================================================================
