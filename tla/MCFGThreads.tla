----------------------------- MODULE MCFGThreads -----------------------------
(* Instances of FGThreads for TLC.                                         *)
EXTENDS FGThreads, TLC

CONSTANTS main, t1, t2, pt, null

\* Main, the progress thread and two spawned processes.
MCThread4 == {main, t1, t2, pt}
MCRank4 == main :> 0 @@ t1 :> 1 @@ t2 :> 2 @@ pt :> -200

\* FG_Scheduler_progress_loop only polls (which notifies), yields and, after
\* the last finalisation, returns.  FGThreads lets the progress thread make
\* any call; this is the part of its behaviours the program has.
ProgressLoop ==
    \/ \E r \in Rank \ {WorldRank[Progress]} : thread_notify_on_event(Progress, r)
    \/ thread_yield(Progress)
    \/ thread_exit(Progress)

MCNext ==
    \/ Scheduler \/ Terminated \/ ProgressLoop
    \/ \E t \in Thread \ {Progress} : Switch(t) \/ Call(t)

MCFairSpec == Init /\ [][MCNext]_vars /\ Fairness
====
