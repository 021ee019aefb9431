----------------------------- MODULE FGLifecycle -----------------------------
(***************************************************************************)
(* The life of one OS process (HWP) of FG-MPI: FGmpiexec initialises MPI,  *)
(* spawns the collocated MPI processes, waits until all have called        *)
(* MPI_Init, and runs the application; the processes exchange messages,    *)
(* block, are woken by each other and by the progress thread, and leave    *)
(* through MPI_Finalize (src/mpi/init/fginit.c, init.c, finalize.c,        *)
(* pt2pt/recv.c, mpir_request.c, nemesis ch3_progress.c).                  *)
(*                                                                         *)
(* The coroutine switch is the one of FGThreads, reduced to what matters   *)
(* here: a run list, a block list and the running coroutine.  A process    *)
(* runs a program, a sequence of MPI calls; nothing else it computes       *)
(* matters.  MPI_Barrier in MPI_Finalize is the barrier that CoBarrier     *)
(* implements: its waiters yield until everybody has entered.              *)
(***************************************************************************)
EXTENDS Integers, Sequences, FiniteSets

CONSTANTS
    N,          \* numfgps: processes 0 .. N - 1, of which 0 is the main coroutine
    PT,         \* the progress thread
    Net,        \* the source of messages from other OS processes
    NULL,
    Programs,   \* the applications: a sequence of calls for each process
    MaxColocatedYields

Proc == 0 .. N - 1
Co == Proc \cup {PT}

ASSUME LifecycleAssumption ==
    /\ N \in Nat \ {0} /\ MaxColocatedYields \in Nat
    /\ PT \notin Proc /\ Net \notin Proc /\ NULL \notin Proc \cup {PT, Net}

VARIABLES
    sched,          \* the scheduler: rr, invrr or block
    runlist, blocked, current,
    prog,           \* what each process still has to do
    pc,             \* where each coroutine is
    init_state,     \* FGP_init_state
    inits,          \* FGP_inits
    spawner,        \* IS_SPAWNER of the main coroutine
    twice,          \* the processes that were told **inittwice
    ptRunning,      \* progress_thread_running
    posted,         \* the source of the receive a process waits for, or NULL
    sent,           \* unexpected messages: pairs of source and destination
    arrived,        \* destinations of the packets in the receive queue of the HWP
    coming,         \* destinations of the packets that are still to come
    count,          \* MPIDI_CH3I_progress_completion_count
    seen,           \* progress_state.completion_count of a process
    yields,         \* num_of_colocated_yields of a process
    finalizing,     \* the processes that are in, or past, the barrier of MPI_Finalize
    finalizations   \* FGP_finalizations

coroutines == <<sched, runlist, blocked, current, ptRunning>>
start == <<init_state, inits, spawner, twice>>
messages == <<posted, sent, arrived, coming, count, seen, yields>>
ends == <<finalizing, finalizations>>
vars == <<coroutines, start, messages, ends, prog, pc>>

TypeOK ==
    /\ sched \in {"rr", "invrr", "block"}
    /\ runlist \in Seq(Co) /\ blocked \subseteq Co /\ current \in Co \cup {NULL}
    /\ pc \in [Co -> {"none", "new", "spawning", "init", "app", "recv", "wait", "send",
                      "barrier", "join", "test", "yield", "suspended", "exited"}]
    /\ init_state \in {"PRE_INIT", "POST_INIT", "ALL_POST_INIT"}
    /\ inits \in 0 .. N /\ spawner \in 0 .. 2 /\ twice \subseteq Proc
    /\ ptRunning \in BOOLEAN
    /\ posted \in [Proc -> Proc \cup {Net, NULL}] /\ sent \subseteq (Proc \cup {Net}) \X Proc
    /\ arrived \in Seq(Proc) /\ coming \subseteq Proc
    /\ count \in Nat /\ seen \in [Proc -> Nat]
    /\ yields \in [Proc -> 0 .. MaxColocatedYields]
    /\ finalizing \subseteq Proc /\ finalizations \in 0 .. N

Init ==
    /\ sched \in {"rr", "invrr", "block"}
    /\ runlist = <<>> /\ blocked = {} /\ current = 0
    /\ prog \in Programs
    /\ pc = [c \in Co |-> IF c = 0 THEN "new" ELSE "none"]
    /\ init_state = "PRE_INIT" /\ inits = 0 /\ spawner = 0 /\ twice = {}
    /\ ptRunning = FALSE
    /\ posted = [p \in Proc |-> NULL] /\ sent = {} /\ arrived = <<>>
    /\ coming = {p \in Proc : \E i \in DOMAIN prog[p] : prog[p][i] = <<"recv", Net>>}
    /\ count = 0 /\ seen = [p \in Proc |-> 0] /\ yields = [p \in Proc |-> 0]
    /\ finalizing = {} /\ finalizations = 0

-----------------------------------------------------------------------------
(* Coroutine switches.  rl is the run list and bl the block list that the  *)
(* rest of the handler leaves behind.                                      *)

Switch(rl) ==
    /\ current' = IF rl = <<>> THEN NULL ELSE Head(rl)
    /\ runlist' = IF rl = <<>> THEN <<>> ELSE Tail(rl)

Stay(rl) == current' = current /\ runlist' = rl

\* FG_Yield: nothing happens when no other coroutine could run.
FG_yield(c, rl) == IF N > 1 /\ rl # <<>> THEN Switch(Append(rl, c)) ELSE Stay(rl)

\* sched_block_queue_start_progress_thread
Started(rl, bl) == IF PT \in bl /\ ~ptRunning THEN Append(rl, PT) ELSE rl
StartedBlocked(bl) == IF ~ptRunning THEN bl \ {PT} ELSE bl

\* FG_Yield_on_event with action BLOCK; only the block scheduler blocks.
Bug_BlocksUnserved(p, rl, bl) ==
    IF N > 1 /\ rl # <<>>
    THEN /\ IF sched = "block" THEN Switch(rl) /\ blocked' = bl \cup {p}
            ELSE Switch(Append(rl, p)) /\ blocked' = bl
         /\ UNCHANGED ptRunning
    ELSE Stay(rl) /\ blocked' = bl /\ UNCHANGED ptRunning

FG_yield_on_event(p, rl, bl) ==
    IF N > 1 /\ rl # <<>>
    THEN IF sched = "block"
         THEN /\ Switch(Started(rl, bl))
              /\ blocked' = StartedBlocked(bl) \cup {p}
              /\ ptRunning' = TRUE
         ELSE Switch(Append(rl, p)) /\ blocked' = bl /\ UNCHANGED ptRunning
    ELSE Stay(rl) /\ blocked' = bl /\ UNCHANGED ptRunning

\* FG_Notify_on_event: the run list and the block list afterwards.
Notified(p) == IF p \in blocked THEN Append(runlist, p) ELSE runlist
Bug_StaysBlocked(p) == blocked
NotifiedBlocked(p) == blocked \ {p}

\* runlist_init: straight to another coroutine, past the scheduler loop.
runlist_init(c) ==
    LET rl == IF sched = "invrr" THEN <<c>> \o runlist ELSE Append(runlist, c)
    IN IF sched = "invrr"
       THEN current' = rl[Len(rl)] /\ runlist' = SubSeq(rl, 1, Len(rl) - 1)
       ELSE current' = Head(rl) /\ runlist' = Tail(rl)
-----------------------------------------------------------------------------
(* Start.                                                                  *)

At(c, where) == current = c /\ pc[c] = where
Goto(c, where) == pc' = [pc EXCEPT ![c] = where]

\* The next call of process p is op; it is done when the rest is left.
Calls(p, op) == At(p, "app") /\ prog[p] # <<>> /\ Head(prog[p]) = op
Done(p) == prog' = [prog EXCEPT ![p] = Tail(@)]

\* Where FGmpiexec leaves a coroutine: with nobody to spawn it goes straight on
\* to the application, and FGP_inits stays 0.
Spawned(c) == CASE c = 0 -> IF N > 1 THEN "spawning" ELSE "app"
                [] c = PT -> "none"
                [] c \in Proc \ {0} -> "new"

\* FGmpiexec up to the first barrier: MPI_Init of the main coroutine, then
\* FG_Spawn_threads creates the other processes, if there are any.
Bug_StateTooFar ==
    /\ At(0, "new")
    /\ init_state' = "ALL_POST_INIT" /\ spawner' = 1
    /\ runlist' = [i \in 1 .. N - 1 |-> i]
    /\ pc' = [c \in Co |-> Spawned(c)]
    /\ UNCHANGED <<sched, blocked, current, ptRunning, inits, twice, messages, ends, prog>>

FGmpiexec ==
    /\ At(0, "new")
    /\ init_state' = IF N > 1 THEN "POST_INIT" ELSE "ALL_POST_INIT"
    /\ spawner' = 1
    /\ runlist' = [i \in 1 .. N - 1 |-> i]
    /\ pc' = [c \in Co |-> Spawned(c)]
    /\ UNCHANGED <<sched, blocked, current, ptRunning, inits, twice, messages, ends, prog>>

\* The barrier of FG_Spawn_threads; then the progress thread is created, which
\* stays in the block list.
FG_Spawn_threads ==
    /\ At(0, "spawning")
    /\ \/ /\ inits < N - 1
          /\ runlist_init(0)
          /\ UNCHANGED <<blocked, inits, init_state, pc>>
       \/ /\ inits >= N - 1
          /\ inits' = inits + 1 /\ init_state' = "ALL_POST_INIT"
          /\ blocked' = IF sched = "block" THEN blocked \cup {PT} ELSE blocked
          /\ pc' = [pc EXCEPT ![0] = "app", ![PT] = IF sched = "block" THEN "test" ELSE @]
          /\ UNCHANGED <<runlist, current>>
    /\ UNCHANGED <<sched, ptRunning, spawner, twice, messages, ends, prog>>

\* MPI_Init.  The first call of a spawned process registers it and enters
\* FG_Init; a later call is an error, except the one the program of the main
\* coroutine makes after FGmpiexec has called MPI_Init for it.
MPI_Init(p) ==
    /\ \/ /\ At(p, "new") /\ p # 0 /\ prog[p] # <<>> /\ Head(prog[p]) = <<"init">>
          /\ inits' = inits + 1
          /\ Goto(p, "init")
          /\ UNCHANGED <<spawner, twice>>
       \/ /\ Calls(p, <<"init">>) /\ p = 0 /\ spawner = 1 /\ init_state = "ALL_POST_INIT"
          /\ spawner' = 2
          /\ UNCHANGED <<inits, twice, pc>>
       \/ /\ Calls(p, <<"init">>) /\ ~(p = 0 /\ spawner = 1 /\ init_state = "ALL_POST_INIT")
          /\ twice' = twice \cup {p}
          /\ UNCHANGED <<inits, spawner, pc>>
    /\ Done(p)
    /\ UNCHANGED <<coroutines, init_state, messages, ends>>

\* The loop of FG_Init.
Bug_MainNotCounted(p) ==
    /\ At(p, "init")
    /\ \/ /\ inits < N - 1
          /\ runlist_init(p) /\ UNCHANGED pc
       \/ /\ inits >= N - 1
          /\ Goto(p, "app") /\ UNCHANGED <<runlist, current>>
    /\ UNCHANGED <<sched, blocked, ptRunning, start, messages, ends, prog>>

FG_Init(p) ==
    /\ At(p, "init")
    /\ \/ /\ inits < N
          /\ runlist_init(p) /\ UNCHANGED pc
       \/ /\ inits >= N
          /\ Goto(p, "app") /\ UNCHANGED <<runlist, current>>
    /\ UNCHANGED <<sched, blocked, ptRunning, start, messages, ends, prog>>
-----------------------------------------------------------------------------
(* Messages.                                                               *)

\* MPI_Send to a collocated process: MPIDI_Isend_self hands the data to a
\* posted receive, or leaves a message and waits until a receive takes it.
MPI_Send(p, q) ==
    /\ Calls(p, <<"send", q>>)
    /\ \/ /\ posted[q] = p
          /\ posted' = [posted EXCEPT ![q] = NULL] /\ count' = count + 1
          /\ runlist' = Notified(q) /\ blocked' = NotifiedBlocked(q)
          /\ UNCHANGED <<sent, pc>>
       \/ /\ posted[q] # p
          /\ sent' = sent \cup {<<p, q>>}
          /\ Goto(p, "send")
          /\ UNCHANGED <<posted, count, runlist, blocked>>
    /\ Done(p)
    /\ UNCHANGED <<sched, current, ptRunning, start, ends, arrived, coming, seen, yields>>

\* MPIR_Progress_wait_send_request, collocated case.
MPIR_Progress_wait_send_request(p) ==
    /\ At(p, "send")
    /\ \/ /\ \E q \in Proc : <<p, q>> \in sent
          /\ FG_yield(p, runlist) /\ UNCHANGED pc
       \/ /\ \A q \in Proc : <<p, q>> \notin sent
          /\ Goto(p, "app") /\ UNCHANGED <<runlist, current>>
    /\ UNCHANGED <<sched, blocked, ptRunning, start, messages, ends, prog>>

\* MPI_Recv: take an unexpected message, or post the receive.
MPI_Recv(p, s) ==
    /\ Calls(p, <<"recv", s>>)
    /\ \/ /\ <<s, p>> \in sent
          /\ sent' = sent \ {<<s, p>>} /\ count' = count + 1
          /\ UNCHANGED <<posted, seen, yields, pc>>
       \/ /\ <<s, p>> \notin sent
          /\ posted' = [posted EXCEPT ![p] = s]
          /\ seen' = [seen EXCEPT ![p] = count] /\ yields' = [yields EXCEPT ![p] = 0]
          /\ Goto(p, "recv")
          /\ UNCHANGED <<sent, count>>
    /\ Done(p)
    /\ UNCHANGED <<coroutines, start, ends, arrived, coming>>

\* The loop of MPI_Recv: a few block events for a collocated sender, then the
\* progress engine.
RecvLoop(p) ==
    /\ At(p, "recv")
    /\ \/ /\ posted[p] = NULL
          /\ Goto(p, "app")
          /\ UNCHANGED <<coroutines, yields>>
       \/ /\ posted[p] \in Proc /\ yields[p] < MaxColocatedYields
          /\ yields' = [yields EXCEPT ![p] = @ + 1]
          /\ FG_yield_on_event(p, runlist, blocked)
          /\ UNCHANGED <<sched, pc>>
       \/ /\ posted[p] # NULL /\ ~(posted[p] \in Proc /\ yields[p] < MaxColocatedYields)
          /\ Goto(p, "wait")
          /\ UNCHANGED <<coroutines, yields>>
    /\ UNCHANGED <<start, ends, prog, posted, sent, arrived, coming, count, seen>>

\* One pass over the receive queue: what the first packet leaves behind.
Polled ==
    IF arrived = <<>>
    THEN [posted |-> posted, sent |-> sent, arrived |-> arrived, count |-> count,
          rl |-> runlist, bl |-> blocked]
    ELSE LET d == Head(arrived)
         IN IF posted[d] = Net
            THEN [posted |-> [posted EXCEPT ![d] = NULL], sent |-> sent,
                  arrived |-> Tail(arrived), count |-> count + 1,
                  rl |-> Notified(d), bl |-> NotifiedBlocked(d)]
            ELSE [posted |-> posted, sent |-> sent \cup {<<Net, d>>},
                  arrived |-> Tail(arrived), count |-> count, rl |-> runlist, bl |-> blocked]

Poll == /\ posted' = Polled.posted /\ sent' = Polled.sent
        /\ arrived' = Polled.arrived /\ count' = Polled.count

\* MPIDI_CH3I_Progress, blocking, in MPI_Recv: leave when anything completed
\* since the caller last looked, and block if that was not the receive.
MPID_Progress_wait(p) ==
    /\ At(p, "wait")
    /\ Poll
    /\ \/ /\ seen[p] = Polled.count
          /\ FG_yield(p, Polled.rl) /\ blocked' = Polled.bl
          /\ UNCHANGED <<ptRunning, seen, pc>>
       \/ /\ seen[p] # Polled.count /\ Polled.posted[p] = NULL
          /\ seen' = [seen EXCEPT ![p] = Polled.count]
          /\ Stay(Polled.rl) /\ blocked' = Polled.bl
          /\ Goto(p, "app") /\ UNCHANGED ptRunning
       \/ /\ seen[p] # Polled.count /\ Polled.posted[p] # NULL
          /\ seen' = [seen EXCEPT ![p] = Polled.count]
          /\ FG_yield_on_event(p, Polled.rl, Polled.bl)
          /\ Goto(p, "recv")
    /\ UNCHANGED <<sched, start, ends, prog, coming, yields>>

\* A packet of another OS process reaches the receive queue.
Arrive(d) ==
    /\ d \in coming
    /\ coming' = coming \ {d} /\ arrived' = Append(arrived, d)
    /\ UNCHANGED <<coroutines, start, ends, prog, pc, posted, sent, count, seen, yields>>
-----------------------------------------------------------------------------
(* The end.                                                                *)

\* The coroutine that main joins next, in the order of FG_Finalize.
JoinTarget ==
    LET left == {i \in 1 .. N - 1 : pc[i] # "exited"}
    IN IF left = {} THEN PT ELSE CHOOSE i \in left : \A j \in left : i <= j

\* thread_exit: the thread that joins this one is resumed.
Exit(c) ==
    /\ pc' = [pc EXCEPT ![c] = "exited",
                        ![0] = IF @ = "suspended" /\ JoinTarget = c THEN "join" ELSE @]
    /\ Switch(IF pc[0] = "suspended" /\ JoinTarget = c THEN Append(runlist, 0) ELSE runlist)

\* FG_Scheduler_progress_loop: MPID_Progress_test yields when nothing was
\* completed, and the loop yields after it.
Bug_OnlyYields ==
    /\ At(PT, "test")
    /\ \/ /\ finalizations < N
          /\ FG_yield(PT, runlist)
          /\ Goto(PT, "yield")
       \/ /\ finalizations >= N
          /\ Exit(PT)
    /\ UNCHANGED <<sched, blocked, ptRunning, start, ends, prog, messages>>

FG_Scheduler_progress_loop ==
    /\ At(PT, "test")
    /\ \/ /\ finalizations < N
          /\ Poll
          /\ IF Polled.count = count THEN FG_yield(PT, Polled.rl) ELSE Stay(Polled.rl)
          /\ blocked' = Polled.bl
          /\ Goto(PT, "yield")
       \/ /\ finalizations >= N
          /\ Exit(PT)
          /\ UNCHANGED <<blocked, posted, sent, arrived, count>>
    /\ UNCHANGED <<sched, ptRunning, start, ends, prog, coming, seen, yields>>

ProgressYield ==
    /\ At(PT, "yield")
    /\ FG_yield(PT, runlist) /\ Goto(PT, "test")
    /\ UNCHANGED <<sched, blocked, ptRunning, start, messages, ends, prog>>

\* MPI_Finalize: the barrier; then a spawned process returns and exits, and
\* main goes on to FG_Finalize.
MPI_Finalize(p) ==
    /\ \/ /\ Calls(p, <<"finalize">>)
          /\ finalizing' = finalizing \cup {p} /\ Goto(p, "barrier") /\ Done(p)
          /\ UNCHANGED <<runlist, current, finalizations>>
       \/ /\ At(p, "barrier") /\ finalizing # Proc
          /\ FG_yield(p, runlist)
          /\ UNCHANGED <<finalizing, finalizations, pc, prog>>
       \/ /\ At(p, "barrier") /\ finalizing = Proc
          /\ finalizations' = finalizations + 1
          /\ IF p = 0 THEN Goto(0, "join") /\ UNCHANGED <<runlist, current>> ELSE Exit(p)
          /\ UNCHANGED <<finalizing, prog>>
    /\ UNCHANGED <<sched, blocked, ptRunning, start, messages>>

\* FG_Finalize: join the processes, then the progress thread, which is started
\* for that if nobody ever blocked.
Bug_NotStarted ==
    /\ At(0, "join")
    /\ \/ /\ JoinTarget # PT \/ pc[PT] \notin {"none", "exited"}
          /\ Switch(runlist) /\ Goto(0, "suspended")
       \/ /\ JoinTarget = PT /\ pc[PT] \in {"none", "exited"}
          /\ Goto(0, "exited") /\ UNCHANGED <<runlist, current>>
    /\ UNCHANGED <<sched, blocked, ptRunning, start, messages, ends, prog>>

FG_Finalize ==
    /\ At(0, "join")
    /\ \/ /\ JoinTarget # PT
          /\ Switch(runlist) /\ Goto(0, "suspended")
          /\ UNCHANGED <<blocked, ptRunning>>
       \/ /\ JoinTarget = PT /\ pc[PT] \notin {"none", "exited"}
          /\ Switch(Started(runlist, blocked)) /\ blocked' = StartedBlocked(blocked)
          /\ ptRunning' = TRUE
          /\ Goto(0, "suspended")
       \/ /\ JoinTarget = PT /\ pc[PT] \in {"none", "exited"}
          /\ Goto(0, "exited")
          /\ UNCHANGED <<runlist, current, blocked, ptRunning>>
    /\ UNCHANGED <<sched, start, messages, ends, prog>>
-----------------------------------------------------------------------------
Run == \/ FGmpiexec \/ FG_Spawn_threads \/ FG_Finalize
       \/ FG_Scheduler_progress_loop \/ ProgressYield
       \/ \E p \in Proc : \/ MPI_Init(p) \/ FG_Init(p) \/ MPI_Finalize(p)
                          \/ MPIR_Progress_wait_send_request(p)
                          \/ RecvLoop(p) \/ MPID_Progress_wait(p)
                          \/ \E q \in Proc : MPI_Send(p, q)
                          \/ \E s \in Proc \cup {Net} : MPI_Recv(p, s)

Next == Run \/ \E d \in Proc : Arrive(d)

\* The OS runs the process, and the network delivers what was sent to it.
Fairness == WF_vars(Run) /\ \A d \in Proc : WF_vars(Arrive(d))

Spec == Init /\ [][Next]_vars /\ Fairness
-----------------------------------------------------------------------------
(* Properties.                                                             *)

\* FG_Init lets nobody into the application before every process of the HWP
\* has called MPI_Init and main has left FG_Spawn_threads, so that the block
\* scheduler has its progress thread (a single process has none).
InitBarrier ==
    (\E p \in Proc : pc[p] \notin {"none", "new", "spawning", "init"})
      => /\ \A p \in Proc : pc[p] \notin {"none", "new", "spawning"}
         /\ N > 1 /\ sched = "block" => pc[PT] # "none"

\* The assertions on the way there: MPI_Init of a spawned process finds
\* FGP_POST_INIT (init.c:263), and nobody has asked for the progress thread
\* before it is created (sched_global_rr.c:195).
InitAssertions ==
    /\ \A p \in Proc \ {0} : At(p, "new") => init_state = "POST_INIT"
    /\ At(0, "spawning") => ~ptRunning

\* A process in the block list waits for a receive that is not complete: the
\* completion and the test before blocking cannot miss each other.
NoLostWakeup == \A p \in blocked \cap Proc : pc[p] = "recv" /\ posted[p] # NULL

\* Whenever a process is blocked, the progress thread runs or is queued, so
\* packets for it are handled whatever the other processes do.
BlockedIsServed ==
    blocked \cap Proc # {}
      => PT = current \/ \E i \in DOMAIN runlist : runlist[i] = PT

\* The scheduler always finds a coroutine to run: they never all wait.
NeverIdle == current # NULL

\* Every application whose sends and receives match comes to its end, and main
\* returns from MPI_Finalize, with each of the schedulers.
Termination == <>(pc[0] = "exited" /\ \A p \in Proc : prog[p] = <<>>)
==============================================================================
