------------------------------ MODULE FGThreads ------------------------------
(***************************************************************************)
(* The cooperative thread library of FG-MPI (src/fgutil/src/threadlib.c)   *)
(* and its three schedulers (sched_global_rr.c).  All MPI processes that   *)
(* share an OS process are coroutines of one kernel thread, so everything  *)
(* between two coroutine switches is atomic: every action below is one     *)
(* library call of the running coroutine, up to the switch it ends with,   *)
(* or one turn of the scheduler loop.                                      *)
(*                                                                         *)
(* Data is abstracted as follows.  A thread is its identity; stacks,       *)
(* names, errno, return values and timers are left out.  The sleep queue   *)
(* is the sequence of sleeping threads in deadline order; which of them    *)
(* have timed out when the scheduler looks is a nondeterministic prefix    *)
(* (the arithmetic that decides it is module SleepQueue).                  *)
(*                                                                         *)
(* An operator named Bug_... is a plausible mistake in the definition that *)
(* follows it.  No definition uses it; the properties must reject it.      *)
(***************************************************************************)
EXTENDS Integers, Sequences, PointerLists, FiniteSets

CONSTANTS
    Thread,      \* the identities of the coroutines, main and progress included
    Main,        \* main_thread
    Progress,    \* the coroutine of FG_Scheduler_progress_loop
    NoThread,    \* NULL
    WorldRank    \* my_fgrank of each coroutine: the key of the block list

ASSUME ThreadAssumption ==
    /\ IsFiniteSet(Thread)
    /\ Main \in Thread /\ Progress \in Thread \ {Main}
    /\ NoThread \notin Thread

ASSUME RankAssumption ==
    /\ WorldRank \in [Thread -> Int]
    /\ \A t, u \in Thread : WorldRank[t] = WorldRank[u] => t = u

Rank == {WorldRank[t] : t \in Thread}

VARIABLES
    sched,        \* which scheduler pick_scheduler installed
    state,        \* t->state; "NONE" before new_thread
    joinable,     \* t->joinable
    daemon,       \* t->daemon
    joinThread,   \* t->join_thread
    joining,      \* the thread t waits for inside thread_join (t's stack)
    numRunnable, numSuspended, numZombie, numDaemon,
    runlist,      \* runlist
    blocklist,    \* blocklist, the hash table keyed by world rank
    sleepq,       \* sleepq
    current,      \* current_thread; NoThread after a turn with an empty run list
    inScheduler,  \* in_scheduler
    exitedFlag,   \* current_thread_exited
    ptRunning,    \* progress_thread_running
    done          \* main came back from thread_exit: the OS process ends

counts == <<numRunnable, numSuspended, numZombie, numDaemon>>
attrs  == <<joinable, daemon>>
queues == <<runlist, blocklist, sleepq>>
vars   == <<sched, state, attrs, joinThread, joining, counts, queues,
            current, inScheduler, exitedFlag, ptRunning, done>>

Alive(t) == state[t] \in {"RUNNABLE", "SUSPENDED"}

\* threadlist: every thread that was created and not freed.
threadlist == {t \in Thread : state[t] \in {"RUNNABLE", "SUSPENDED", "ZOMBIE"}}

Bit(b) == IF b THEN 1 ELSE 0

-----------------------------------------------------------------------------
(* The schedulers.                                                         *)

\* Every scheduler appends to the run list and takes its head; only the
\* inverse round robin differs, and only while the processes initialise.
Bug_AddAtHead(rl, t) == <<t>> \o rl

sched_add_thread(rl, t) == Append(rl, t)

sched_add_init_thread(rl, t) ==
    IF sched = "invrr" THEN <<t>> \o rl ELSE Append(rl, t)

sched_next_init_thread(rl) ==
    IF sched = "invrr" THEN ll_view_tail(rl) ELSE Head(rl)

RestAfterNextInit(rl) ==
    IF sched = "invrr" THEN pl_remove_tail(rl) ELSE Tail(rl)

\* hshinsert keeps the entry that is already stored under the key.
SchedulerHashInsert(bl, r, t) ==
    IF bl[r] = NoThread THEN [bl EXCEPT ![r] = t] ELSE bl

\* sched_unblock_thread: only the block scheduler looks; a notification for
\* a rank that is not stored is dropped.
Unblockable(bl, r) == sched = "block" /\ bl[r] # NoThread

UnblockedRunlist(rl, bl, r) ==
    IF Unblockable(bl, r) THEN sched_add_thread(rl, bl[r]) ELSE rl

Bug_FindWithoutRemove(bl, r) == bl

UnblockedBlocklist(bl, r) ==
    IF Unblockable(bl, r) THEN [bl EXCEPT ![r] = NoThread] ELSE bl

-----------------------------------------------------------------------------
(* thread_init, executed before main(): main is the only thread; the yield *)
(* at its end has already come back to it.                                 *)
Init ==
    /\ sched \in {"rr", "invrr", "block"}
    /\ state = [t \in Thread |-> IF t = Main THEN "RUNNABLE" ELSE "NONE"]
    /\ joinable = [t \in Thread |-> FALSE]
    /\ daemon = [t \in Thread |-> FALSE]
    /\ joinThread = [t \in Thread |-> NoThread]
    /\ joining = [t \in Thread |-> NoThread]
    /\ numRunnable = 1 /\ numSuspended = 0 /\ numZombie = 0 /\ numDaemon = 0
    /\ runlist = <<>>
    /\ blocklist = [r \in Rank |-> NoThread]
    /\ sleepq = <<>>
    /\ current = Main
    /\ inScheduler = FALSE
    /\ exitedFlag = FALSE
    /\ ptRunning = FALSE
    /\ done = FALSE

\* The running coroutine is executing code outside the library.
Running(t) ==
    /\ ~done /\ ~inScheduler
    /\ current = t
    /\ joining[t] = NoThread

\* CO_CALL(scheduler_thread->coro)
SwitchToScheduler ==
    /\ inScheduler' = TRUE
    /\ UNCHANGED current

NoSwitch == UNCHANGED <<current, inScheduler>>

-----------------------------------------------------------------------------
(* Library calls of the running coroutine.                                 *)

\* new_thread: t creates u with the attributes j (joinable) and d (daemon).
thread_spawn(t, u, j, d) ==
    /\ Running(t)
    /\ u # Progress
    /\ state[u] = "NONE"
    /\ state' = [state EXCEPT ![u] = "RUNNABLE"]
    /\ joinable' = [joinable EXCEPT ![u] = j]
    /\ daemon' = [daemon EXCEPT ![u] = d]
    /\ numDaemon' = numDaemon + Bit(d)
    /\ numRunnable' = numRunnable + 1
    /\ runlist' = sched_add_thread(runlist, u)
    /\ NoSwitch
    /\ UNCHANGED <<sched, joinThread, joining, numSuspended, numZombie,
                   blocklist, sleepq, exitedFlag, ptRunning, done>>

\* sched_init_progress_thread: the block scheduler creates the progress
\* thread and stores it in the block list; the others do nothing.
sched_init_progress_thread(t) ==
    /\ Running(t)
    /\ sched = "block" /\ state[Progress] = "NONE" /\ ~ptRunning
    /\ state' = [state EXCEPT ![Progress] = "RUNNABLE"]
    /\ joinable' = [joinable EXCEPT ![Progress] = TRUE]
    /\ numRunnable' = numRunnable + 1
    /\ blocklist' = SchedulerHashInsert(blocklist, WorldRank[Progress], Progress)
    /\ NoSwitch
    /\ UNCHANGED <<sched, daemon, joinThread, joining, numSuspended, numZombie,
                   numDaemon, runlist, sleepq, exitedFlag, ptRunning, done>>

\* sched_start_progress_thread, called by FG_Finalize.
sched_start_progress_thread(t) ==
    /\ Running(t)
    /\ sched = "block" /\ ~ptRunning
    /\ runlist' = UnblockedRunlist(runlist, blocklist, WorldRank[Progress])
    /\ blocklist' = UnblockedBlocklist(blocklist, WorldRank[Progress])
    /\ ptRunning' = TRUE
    /\ NoSwitch
    /\ UNCHANGED <<sched, state, attrs, joinThread, joining, counts, sleepq,
                   exitedFlag, done>>

\* thread_yield
thread_yield(t) ==
    /\ Running(t)
    /\ runlist' = sched_add_thread(runlist, t)
    /\ SwitchToScheduler
    /\ UNCHANGED <<sched, state, attrs, joinThread, joining, counts, blocklist,
                   sleepq, exitedFlag, ptRunning, done>>

\* thread_yield_on_event with a BLOCK event: start the progress thread the
\* first time, then park t under its world rank (rr and invrr just requeue).
thread_yield_on_event(t) ==
    LET starts == sched = "block" /\ ~ptRunning
        rl == IF starts
              THEN UnblockedRunlist(runlist, blocklist, WorldRank[Progress])
              ELSE runlist
        bl == IF starts
              THEN UnblockedBlocklist(blocklist, WorldRank[Progress])
              ELSE blocklist
    IN /\ Running(t)
       /\ ptRunning' = (ptRunning \/ starts)
       /\ IF sched = "block"
          THEN /\ runlist' = rl
               /\ blocklist' = SchedulerHashInsert(bl, WorldRank[t], t)
          ELSE /\ runlist' = sched_add_thread(rl, t)
               /\ blocklist' = bl
       /\ SwitchToScheduler
       /\ UNCHANGED <<sched, state, attrs, joinThread, joining, counts, sleepq,
                      exitedFlag, done>>

\* thread_notify_on_event with an UNBLOCK notification for rank r.
thread_notify_on_event(t, r) ==
    /\ Running(t)
    /\ runlist' = UnblockedRunlist(runlist, blocklist, r)
    /\ blocklist' = UnblockedBlocklist(blocklist, r)
    /\ NoSwitch
    /\ UNCHANGED <<sched, state, attrs, joinThread, joining, counts, sleepq,
                   exitedFlag, ptRunning, done>>

\* fgmpi_sleepq_check: the first n sleepers have timed out.
Woken(n) == SubSeq(sleepq, 1, n)

StateAfterWake(n) ==
    [t \in Thread |-> IF t \in Range(Woken(n)) THEN "RUNNABLE" ELSE state[t]]

RunlistAfterWake(n) == runlist \o Woken(n)

SleepqAfterWake(n) == SubSeq(sleepq, n + 1, Len(sleepq))

\* thread_suspend_self(0): only thread_resume ends it.
thread_suspend_self(t) ==
    /\ Running(t)
    /\ state' = [state EXCEPT ![t] = "SUSPENDED"]
    /\ numSuspended' = numSuspended + 1
    /\ numRunnable' = numRunnable - 1
    /\ SwitchToScheduler
    /\ UNCHANGED <<sched, attrs, joinThread, joining, numZombie, numDaemon,
                   queues, exitedFlag, ptRunning, done>>

\* thread_suspend_self(timeout): fgmpi_sleepq_add_thread first wakes the n
\* sleepers whose time has come, then inserts t at the place its deadline
\* gives it.
thread_usleep(t, n) ==
    /\ Running(t)
    /\ state' = [StateAfterWake(n) EXCEPT ![t] = "SUSPENDED"]
    /\ numSuspended' = numSuspended + 1 - n
    /\ numRunnable' = numRunnable - 1 + n
    /\ runlist' = RunlistAfterWake(n)
    /\ \E i \in 1..Len(SleepqAfterWake(n)) + 1 :
          sleepq' = ll_insert_before(SleepqAfterWake(n), i, t)
    /\ SwitchToScheduler
    /\ UNCHANGED <<sched, attrs, joinThread, joining, numZombie, numDaemon,
                   blocklist, exitedFlag, ptRunning, done>>

\* fgmpi_sleepq_remove_thread, called when t->sleep is set.
Bug_StaysInSleepq(u) == sleepq

SleepqWithout(u) ==
    IF u \in Range(sleepq)
    THEN ll_remove_entry(sleepq, CHOOSE i \in DOMAIN sleepq : sleepq[i] = u)
    ELSE sleepq

\* thread_resume: leaves the sleep queue if it is in it, then wakes it if it
\* is suspended.
thread_resume(t, u) ==
    /\ Running(t)
    /\ state[u] = "SUSPENDED" /\ joining[u] = NoThread
    /\ sleepq' = SleepqWithout(u)
    /\ state' = [state EXCEPT ![u] = "RUNNABLE"]
    /\ numSuspended' = numSuspended - 1
    /\ numRunnable' = numRunnable + 1
    /\ runlist' = sched_add_thread(runlist, u)
    /\ NoSwitch
    /\ UNCHANGED <<sched, attrs, joinThread, joining, numZombie, numDaemon,
                   blocklist, exitedFlag, ptRunning, done>>

\* thread_set_daemon, of a thread that has not exited and is not main.
thread_set_daemon(t, u) ==
    /\ Running(t)
    /\ u # Main /\ Alive(u) /\ ~daemon[u]
    /\ daemon' = [daemon EXCEPT ![u] = TRUE]
    /\ numDaemon' = numDaemon + 1
    /\ NoSwitch
    /\ UNCHANGED <<sched, state, joinable, joinThread, joining, numRunnable,
                   numSuspended, numZombie, queues, exitedFlag, ptRunning, done>>

\* free_thread
Bug_FreeWithoutCount(u) ==
    /\ state' = [state EXCEPT ![u] = "GHOST"]
    /\ UNCHANGED numZombie

free_thread(u) ==
    /\ state' = [state EXCEPT ![u] = "GHOST"]
    /\ numZombie' = numZombie - 1

\* "A thread can be joined only once".
Bug_JoinTwice(u) == joinable[u]

MayJoin(u) == joinable[u] /\ joinThread[u] = NoThread

\* thread_join up to the wait.  A thread that is not joinable (EINVAL) or has
\* a joiner already (EACCES) is refused and nothing changes.
thread_join(t, u) ==
    /\ Running(t)
    /\ u \in threadlist \ {t}
    /\ MayJoin(u)
    /\ joinThread' = [joinThread EXCEPT ![u] = t]
    /\ joining' = [joining EXCEPT ![t] = u]
    /\ IF state[u] = "ZOMBIE"
       THEN NoSwitch /\ UNCHANGED <<state, numSuspended, numRunnable>>
       ELSE /\ state' = [state EXCEPT ![t] = "SUSPENDED"]
            /\ numSuspended' = numSuspended + 1
            /\ numRunnable' = numRunnable - 1
            /\ SwitchToScheduler
    /\ UNCHANGED <<sched, attrs, numZombie, numDaemon, queues, exitedFlag,
                   ptRunning, done>>

\* The rest of thread_join: collect the return value and free_thread.
thread_join_return(t) ==
    LET u == joining[t] IN
    /\ ~done /\ ~inScheduler /\ current = t
    /\ u # NoThread
    /\ free_thread(u)
    /\ joining' = [joining EXCEPT ![t] = NoThread]
    /\ NoSwitch
    /\ UNCHANGED <<sched, attrs, joinThread, numRunnable, numSuspended,
                   numDaemon, queues, exitedFlag, ptRunning, done>>

DaemonsAfterExit(t) == numDaemon - Bit(daemon[t])

\* A thread nobody can join is left to the scheduler to free.
Bug_ReapsJoinable(t) == TRUE

LeftToScheduler(t) == exitedFlag \/ ~joinable[t]

\* thread_exit: become a zombie, tell the scheduler to free a thread nobody
\* can join, wake the joiner.
thread_exit(t) ==
    LET j     == joinThread[t]
        wakes == joinable[t] /\ j # NoThread /\ state[j] = "SUSPENDED"
    IN /\ Running(t)
       /\ state' = [x \in Thread |-> IF x = t THEN "ZOMBIE"
                                     ELSE IF wakes /\ x = j THEN "RUNNABLE"
                                     ELSE state[x]]
       /\ numRunnable' = numRunnable - 1 + Bit(wakes)
       /\ numSuspended' = numSuspended - Bit(wakes)
       /\ numZombie' = numZombie + 1
       /\ numDaemon' = DaemonsAfterExit(t)
       /\ exitedFlag' = LeftToScheduler(t)
       /\ runlist' = IF wakes THEN sched_add_thread(runlist, j) ELSE runlist
       /\ sleepq' = IF wakes THEN SleepqWithout(j) ELSE sleepq
       /\ SwitchToScheduler
       /\ UNCHANGED <<sched, attrs, joinThread, joining, blocklist, ptRunning, done>>

\* runlist_init: hand over to the next process that still has to initialise,
\* without going through the scheduler.
runlist_init(t) ==
    LET rl == sched_add_init_thread(runlist, t) IN
    /\ Running(t)
    /\ current' = sched_next_init_thread(rl)
    /\ runlist' = RestAfterNextInit(rl)
    /\ UNCHANGED <<sched, state, attrs, joinThread, joining, counts, blocklist,
                   sleepq, inScheduler, exitedFlag, ptRunning, done>>

-----------------------------------------------------------------------------
(* do_scheduler.                                                           *)

\* After the coroutine came back: free a thread that exited and that nobody
\* may join.  Main is never freed.
SchedulerReap ==
    /\ ~done /\ inScheduler /\ exitedFlag
    /\ exitedFlag' = FALSE
    /\ IF current # Main
       THEN free_thread(current)
       ELSE UNCHANGED <<state, numZombie>>
    /\ UNCHANGED <<sched, attrs, joinThread, joining, numRunnable, numSuspended,
                   numDaemon, queues, current, inScheduler, ptRunning, done>>

WakeSleepers(n) ==
    /\ state' = StateAfterWake(n)
    /\ numSuspended' = numSuspended - n
    /\ numRunnable' = numRunnable + n
    /\ sleepq' = SleepqAfterWake(n)

Bug_IgnoresSuspended(n) == numRunnable + n = numDaemon

OnlyDaemonsLeft(n) == numSuspended - n = 0 /\ numRunnable + n = numDaemon

\* One turn of the loop that ends in a dispatch, or, with an empty run list,
\* in `continue'.
SchedulerDispatch(n) ==
    LET rl == RunlistAfterWake(n) IN
    /\ ~done /\ inScheduler /\ ~exitedFlag
    /\ ~OnlyDaemonsLeft(n)
    /\ WakeSleepers(n)
    /\ IF rl = <<>>
       THEN /\ current' = NoThread
            /\ UNCHANGED <<runlist, inScheduler>>
       ELSE /\ current' = Head(rl)
            /\ runlist' = Tail(rl)
            /\ inScheduler' = FALSE
    /\ UNCHANGED <<sched, attrs, joinThread, joining, numZombie, numDaemon,
                   blocklist, exitedFlag, ptRunning, done>>

\* Only daemons are left: go back to main, which returns into exit().
SchedulerReturnToMain(n) ==
    /\ ~done /\ inScheduler /\ ~exitedFlag
    /\ OnlyDaemonsLeft(n)
    /\ WakeSleepers(n)
    /\ runlist' = RunlistAfterWake(n)
    /\ current' = Main
    /\ inScheduler' = FALSE
    /\ done' = TRUE
    /\ UNCHANGED <<sched, attrs, joinThread, joining, numZombie, numDaemon,
                   blocklist, exitedFlag, ptRunning>>

Scheduler ==
    \/ SchedulerReap
    \/ \E n \in 0..Len(sleepq) : SchedulerDispatch(n) \/ SchedulerReturnToMain(n)

Terminated == done /\ UNCHANGED vars

\* The calls that end the turn of the running coroutine.
Switch(t) ==
    \/ thread_yield(t)
    \/ thread_yield_on_event(t)
    \/ thread_suspend_self(t)
    \/ \E n \in 0..Len(sleepq) : thread_usleep(t, n)
    \/ thread_join_return(t)
    \/ thread_exit(t)

\* Those that do not, or do not always.
Call(t) ==
    \/ \E u \in Thread, j, d \in BOOLEAN : thread_spawn(t, u, j, d)
    \/ sched_init_progress_thread(t)
    \/ sched_start_progress_thread(t)
    \/ \E r \in Rank \ {WorldRank[Progress]} : thread_notify_on_event(t, r)
    \/ \E u \in Thread : \/ thread_resume(t, u)
                         \/ thread_set_daemon(t, u)
                         \/ thread_join(t, u)
    \/ runlist_init(t)

Next == Scheduler \/ Terminated \/ \E t \in Thread : Switch(t) \/ Call(t)

Spec == Init /\ [][Next]_vars

-----------------------------------------------------------------------------
(* Properties.                                                             *)

\* The type of every variable; no counter ever becomes negative.
TypeOK ==
    /\ sched \in {"rr", "invrr", "block"}
    /\ state \in [Thread -> {"NONE", "RUNNABLE", "SUSPENDED", "ZOMBIE", "GHOST"}]
    /\ joinable \in [Thread -> BOOLEAN] /\ daemon \in [Thread -> BOOLEAN]
    /\ joinThread \in [Thread -> Thread \cup {NoThread}]
    /\ joining \in [Thread -> Thread \cup {NoThread}]
    /\ numRunnable \in Nat /\ numSuspended \in Nat
    /\ numZombie \in Nat /\ numDaemon \in Nat
    /\ runlist \in Seq(Thread) /\ sleepq \in Seq(Thread)
    /\ blocklist \in [Rank -> Thread \cup {NoThread}]
    /\ current \in Thread \cup {NoThread}
    /\ inScheduler \in BOOLEAN /\ exitedFlag \in BOOLEAN
    /\ ptRunning \in BOOLEAN /\ done \in BOOLEAN

Runs(t)      == ~done /\ ~inScheduler /\ current = t
InRunlist(t) == t \in Range(runlist)
Asleep(t)    == t \in Range(sleepq)
Blocked(t)   == blocklist[WorldRank[t]] = t

\* sanity_check_threadcounts (threadlib.c:91), strengthened: the four
\* counters the scheduler decides termination by are the numbers of threads
\* in each state, and the library's sum equals the length of threadlist.
SanityCounts ==
    /\ numRunnable = Cardinality({t \in Thread : state[t] = "RUNNABLE"})
    /\ numSuspended = Cardinality({t \in Thread : state[t] = "SUSPENDED"})
    /\ numZombie = Cardinality({t \in Thread : state[t] = "ZOMBIE"})
    /\ numDaemon = Cardinality({t \in Thread : Alive(t) /\ daemon[t]})
    /\ numRunnable + numSuspended + numZombie = Cardinality(threadlist)

\* No runnable thread is lost and none is queued twice: a runnable thread is
\* running, or once in the run list, or in the block list under its own
\* rank, and in one of these places only; a thread in any other state is in
\* none of them.  The scheduler would otherwise resume a coroutine that has
\* ended, or never resume one that has not.
PlacedOnce ==
    /\ IsInjective(runlist)
    /\ \A r \in Rank : blocklist[r] # NoThread => WorldRank[blocklist[r]] = r
    /\ \A t \in Thread :
          /\ state[t] = "RUNNABLE" <=> Runs(t) \/ InRunlist(t) \/ Blocked(t)
          /\ ~(Runs(t) /\ InRunlist(t))
          /\ ~(Runs(t) /\ Blocked(t))
          /\ ~(InRunlist(t) /\ Blocked(t))

\* The assertion of do_scheduler (threadlib.c:193) that the thread it takes
\* from the run list is not in the sleep queue, and that of
\* fgmpi_sleepq_add_thread that a sleeper is inserted once.
SleepersSuspended ==
    /\ IsInjective(sleepq)
    /\ \A t \in Thread : Asleep(t) => state[t] = "SUSPENDED"

\* The join handshake: the joiner of a thread that has not exited is
\* suspended in thread_join, so thread_exit wakes it; and a thread whose join
\* is about to return finds a zombie (the assertion in free_thread,
\* threadlib.c:332), which nobody else has freed.
JoinHandshake ==
    /\ \A u \in Thread : Alive(u) /\ joinThread[u] # NoThread =>
          state[joinThread[u]] = "SUSPENDED" /\ joining[joinThread[u]] = u
    /\ \A t \in Thread : joining[t] # NoThread /\ state[t] = "RUNNABLE" =>
          state[joining[t]] = "ZOMBIE"

\* current_thread_exited concerns the thread the scheduler is about to free:
\* it came from thread_exit, is a zombie and can have no joiner that would
\* free it again (threadlib.c:206; the comment at threadlib.c:639 describes
\* the wrong thread being freed).
ReapsTheExited ==
    exitedFlag => /\ inScheduler /\ current # NoThread
                  /\ state[current] = "ZOMBIE" /\ ~joinable[current]

\* "go back to mainthread, which should now be in exit_func()"
\* (threadlib.c:168): when the scheduler finds only daemons left, main has
\* called thread_exit and no thread that is not a daemon is still alive.
MainInExit ==
    done => /\ state[Main] = "ZOMBIE"
            /\ \A t \in Thread : Alive(t) => daemon[t] /\ state[t] = "RUNNABLE"

\* Under the FIFO schedulers a thread in the run list gets its turn, as long
\* as every running coroutine comes back to the library.  (The inverse
\* scheduler is last-in first-out during initialisation.)
NoStarvation ==
    \A t \in Thread : (InRunlist(t) /\ sched # "invrr") ~> (Runs(t) \/ done)

\* Every running coroutine comes back to the library and the scheduler always
\* switches to another.  Either is enabled as long as it is in control, so
\* this is weak fairness of Scheduler and of Switch(t), on the states.
Fairness == []<>(inScheduler \/ done) /\ []<>~inScheduler

FairSpec == Spec /\ Fairness

-----------------------------------------------------------------------------
(* The inductive invariant of the proofs (module FGThreadsProofs).         *)

\* Who waits in thread_join: an alive thread, not asleep, for a joinable
\* thread that names it as its joiner and has not been freed.
Joining ==
    \A t \in Thread : joining[t] # NoThread =>
        /\ Alive(t) /\ ~Asleep(t)
        /\ joinThread[joining[t]] = t /\ joining[t] # t
        /\ joinable[joining[t]] /\ joining[t] \in threadlist
        /\ state[t] = "SUSPENDED" => Alive(joining[t])

\* Main is never a daemon, never joinable and never freed; a thread that
\* was not created has no joiner.
Untouched ==
    /\ ~daemon[Main] /\ ~joinable[Main] /\ state[Main] \notin {"NONE", "GHOST"}
    /\ \A t \in Thread : state[t] = "NONE" => joinThread[t] = NoThread /\ ~daemon[t]
    /\ ~done /\ ~inScheduler => current \in Thread
    /\ done => ~inScheduler /\ ~exitedFlag

\* The inductive invariant: the safety properties above together with what
\* the library calls keep to themselves about joins, main and done.
IInv ==
    /\ TypeOK /\ SanityCounts /\ PlacedOnce /\ SleepersSuspended
    /\ JoinHandshake /\ ReapsTheExited /\ MainInExit
    /\ Joining /\ Untouched
====
