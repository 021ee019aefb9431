# FG-MPI: specifications, model checking and proofs

FG-MPI is an MPICH in which several MPI processes share one OS process. Such a
process ("proclet") is a coroutine. A thread library in user space schedules
the coroutines of an OS process ("HWP") cooperatively: the code between two
switches runs alone, and everything interleaves at the switches. This directory
specifies that library, what FG-MPI builds on it (start and end of the
processes, blocking receives, barriers, the map from ranks to OS processes),
the message queues through which the processes meet, the agreement on new
communicators with what collocated processes share of them, and the
shared-memory channel between the OS processes of a node.

Paths below are relative to `src/src/`.

## 1. The system

| Part | Source | State | Operations | Module |
|---|---|---|---|---|
| Thread library | `fgutil/src/threadlib.c` | state of each thread, four counters, thread list, `current_thread`, join links | spawn, yield, suspend, resume, sleep, join, exit, daemon, scheduler loop | `FGThreads` |
| Schedulers rr, invrr, block | `fgutil/src/sched_global_rr.c`, `hash/hashmap.c` | run list, block list keyed by world rank, `progress_thread_running` | add, next, block, unblock, start progress thread | `FGThreads` |
| Sleep queue | `threadlib.c:910-1130` | delta-encoded queue, `max_sleep_time`, `last_check_time` | add, remove, check | `SleepQueue`, abstract `Timers` |
| Lists | `fgutil/src/util/linked_list.c` | sequences | view, insert, remove | `PointerLists` |
| Life of an OS process | `mpi/init/fginit.c`, `init.c`, `finalize.c`, `mpi/pt2pt/recv.c`, nemesis `ch3_progress.c` | `FGP_init_state`, `FGP_inits`, `FGP_finalizations`, posted receives, messages | FGmpiexec, MPI_Init, send, receive, progress loop, MPI_Finalize | `FGLifecycle` |
| Receive queues | `mpid/ch3/src/ch3u_recvq.c` and its callers | linked queues with head and tail per process, requests, pending counts | post, probe, arrive, data, cancel, revoke, connection loss | `RecvQ`, abstract `MatchQueues` |
| Barrier among and within OS processes | `mpi/coll/barrier.c:70-187` | `coproclet_counter`, `coproclet_signal`, `leader_signal` | `barrier_smp_intra` | `CoBarrier`, abstract `Barrier` |
| Barrier by messages | `mpi/coll/barrier.c:194-248` | messages under way, mask | `MPIR_Barrier_intra` | `DissemBarrier` |
| World ranks | `mpid/ch3/src/mpid_vc.c:704-781`, `fginit.c:240-298` | key-value space, `pid_to_fgps` | `publish_fg`, `FG_worldrank_to_pid` | `PidMap` |
| Communicators | `mpi/comm/contextid.c`, `commutil.c`, `comm_split.c`, `comm_free.c` | context mask of each rank, table of shared blocks, rank maps, reference counts | dup, split, smaller copy, free | `Communicators`, abstract `ContextIds` |
| Hash tables | `fgutil/src/hash/hashlib.c` | slots, tombstones, counters | find, insert, delete, reorganize | `HashLib` |
| Channel inside a node | nemesis `mpid_nem_queue.h`, `mpid_nem_inline.h`, `mpid_nem_fbox.h`, `ch3_progress.c` | lock-free queues of cells, fast boxes, sequence numbers, send queue | enqueue, dequeue, send, poll, progress | `NemChannel` |

How the parts interact. A receive that is not matched posts a request
(`RecvQ`), and its process yields or blocks in the scheduler (`FGThreads`); the
process that completes the request notifies it. Under the block scheduler a
progress thread polls the network while others are blocked. `FGLifecycle` is
the composition of these for a whole run: it takes the coroutine switch of
`FGThreads` and the matching of `MatchQueues` in reduced form. `CoBarrier` uses
the barrier of the leaders by its contract, which `DissemBarrier` models.
`PidMap` decides which sends are collocated. `Communicators` contains `HashLib`
as the table in which collocated processes find the block (barrier variables and
rank map) that the first of them created. `NemChannel` is what carries the
packets that `RecvQ` sees arriving from other OS processes of the node, in order.

What makes it hard: any library call can follow any other; wakeups come from
four places and are dropped if nobody is blocked; counters kept by hand decide
when the program ends; queues are unlinked in the middle; request handles are
reused; shared barrier variables are used again at once; context ids become
free at each member at another time; cells come back to their owner late; a fast
box overtakes the queue.

## 2. Modules

Each definition that stands for code is listed with its lines under `map` in
`PROJECT.json`. Definitions named `Bug_...` are erroneous variants; they take no
part in any specification, and show which mistake a property would notice.

* `FGThreads`: one action per library call and one per step of `do_scheduler`.
  The block list is a set, the run list a sequence; the sleep queue is reduced
  to who is in it and who may time out, because `SleepQueue` has the times.
  Contract assumed of callers: no `thread_resume` of a thread inside
  `thread_join`, no `thread_set_daemon` of an exited thread or of main.
* `SleepQueue`: the deltas with their assertions as recorded outcomes; the clock
  may stand still, jump or be set back. `Timers` gives each sleeper a timer of
  its own; `SleepQueue` refines it.
* `MatchQueues`: which receive takes which message, for an arbitrary matching
  relation. `RecvQ`: the same on linked queues, requests and handlers; refines
  `MatchQueues`. A context is a context id and its use (point to point or
  collective); communicators without a common member may have the same id, as those
  of one `MPI_Comm_split` do. A rank in a communicator is written as the process that
  has it. No network hardware matches messages, so the branch for a request that the
  channel has matched (`ch3u_recvq.c:1007-1012`) is left out; packets of a connection
  stay in order; a remote peer reuses one request handle. A remote message is eager,
  synchronous or a request to send (rendezvous) whose data follows once the sender was told to send. Revoke packets
  and reference counts are left out.
* `FGLifecycle`: a process runs a program, a sequence of MPI calls. Programs have
  a receive for each send. Nobody sleeps there. With one process FGmpiexec spawns
  nobody (`fginit.c:155`): there is no start barrier and no progress thread.
* `CoBarrier`: an action is what a process does between two looks at the shared
  variables. Collectives among leaders keep their contract. `Barrier` is the
  promise: nobody leaves before all have entered. `DissemBarrier` has no
  communication errors.
* `PidMap`: mpiexec hands out ranks in the order of OS processes
  (`pm/hydra/utils/alloc/alloc.c:431-494` and `pmip_cb.c`; the comment at
  `fginit.c:257` requires it), which is a condition on the initial state; PMI's store
  and barrier are external.
* `ContextIds`: the agreement by itself. Members hand in the ids they have free,
  everybody takes the same one from the intersection or retries. `Communicators`
  follows the code: masks in words, eager words first, the splitting of a parent,
  blocks and maps with their counts; a step is what a process does between two
  waits. It refines `ContextIds`. The calls follow MPI: same order at all members,
  free last. The allgather of a split comes before a process reads its mask, which
  only that process changes, and is left out. Split keys keep the order of the
  parent, copies have at least two members, and running out of ids returns an error,
  after one more allreduce. The table starts with the blocks of `MPI_COMM_WORLD` and
  those of the collocated parts of it and of `MPIR_ICOMM_WORLD`. At least two words
  are not eager, as the code asserts (`contextid.c:425`).
  Left out: groups, intercommunicators, `MPI_Comm_idup`, the node communicators
  inside a communicator, and requests that outlive `MPI_Comm_free`. No call is made
  on a communicator whose map of ranks is not its own.
* `HashLib`: a table as a record, its operations as operators: probing, tombstones,
  growth and rebuilding at the same size. `hshkill` and `hshwalk` are left out.
* `NemChannel`: a step is one access to shared memory with the private work next
  to it. Memory is sequentially consistent, which is what the code's barriers are
  for. Left out: packets that handlers send from inside the progress loop,
  noncontiguous data (same steps as contiguous) and blocking receives, which
  FG-MPI never calls.
* `PointerLists` holds the list operations.

## 3. Runs

| Run | Shows | Bounds | Distinct states |
|---|---|---|---|
| `threads` | counters, queues, joins, reaping, process end; a queued coroutine gets its turn (FIFO schedulers) | 4 coroutines, 3 schedulers | 342,384 |
| `sleepq` | deltas implement timers; assertions but two hold | 3 sleepers, clock to 4 | 75,037 |
| `recvq` | linked queues implement matching; cancels, data in parts, synchronous and rendezvous messages, connection loss, revocation | 6 programs, 2 to 4 requests | 253,537 |
| `recvq_cancel` | violation: a collocated send cannot be cancelled | 3 requests | - |
| `recvq_revoke` | violation: a revocation reaches another communicator with the same id | one program, 2 requests | - |
| `lifecycle` | from start to end: no early start, no lost wakeup, termination | 3 processes, 9 programs | 8,572 |
| `smp_barrier` | three barriers in a row | 6 ranks, 3 OS processes, 2 nodes | 2,472 |
| `dissem_barrier` | two barriers in a row | 1 to 5 ranks, every width | 24,648 |
| `pidmap` | publication and every lookup | 1 to 4 OS processes | 58,860 |
| `nemchannel` | assertions of the queues, order restored, everything delivered | 3 OS processes, 4 cells, 2 programs | 377,104 |
| `communicators` | ids agreed on, one block for the members in an OS process, exact counts, sound table, every call returns | 3 ranks, 2 layouts, 8 ids, 6 programs | 23,184 |
| `communicators_reuse` | violation: a new communicator finds the block of an older one | one program | - |

Why the bounds are enough.

* `threads`: four coroutines are main, the progress thread, a joiner and its
  target, so every pair of roles meets. `Spec` lets the progress thread make any
  call; the run gives it those of `FG_Scheduler_progress_loop` (`ProgressLoop`:
  poll, which notifies, yield, return).
* `sleepq`: three sleepers give the queue a head, a middle and an end; timeouts of
  1 to 3 on a clock to 4 give equal deadlines and checks before, at and after them.
* `recvq`: three or four requests give a queue with a middle. One program has a
  process and a remote peer (4 operations), one the three modes of remote sends
  (3), two have collocated processes that revoke (3), with ordinary messages and
  with those of the recovery collectives, one has everybody at once (2), and one two
  communicators with the same id, each with one of the collocated processes (2).
* The barriers: six ranks have an OS process with two waiters, one with one and
  one with none, and two nodes, one with two leaders. Five ranks is a size that is
  no power of two with three rounds.
* `pidmap`: four OS processes make the search take both halves.
* `nemchannel`: processes with two, one and one cells send more than they have, to
  one another and two to a third, so that senders wait for cells, queues get
  concurrent producers and run empty under one. Sequence numbers wrap at 3
  (`Seqnos`, 2^16 in the code), so that a whole round of them is used.
* `communicators`: the ranks are in one OS process or two and one. Words of 2 bits,
  two of four eager, give 8 ids, 3 of them predefined, so that the eager words are
  used up and the second round happens. The rank that runs out of ids keeps the
  first three of its communicators (`keep`), the others may be freed at any time. The programs are overlapping groups with
  the same leader, a rank that runs out of ids, groups that form at the same time
  and are duplicated or outlive a duplicate of the whole, a group duplicated while
  the whole is, and duplicates of duplicates with a smaller copy. Hash tables have 7, 11 or 23
  slots (17, 211, ... in the code) and keep half free (an eighth in the code):
  they grow twice, are rebuilt at the same size, and searches pass tombstones.

Bounds on counters: `MaxOps` (operations on the queues), `MaxReq` (requests),
`MaxRounds` (barriers), `MaxClock`, `MaxColocatedYields` (2, as
`MAX_COLOCATED_YIELDS` in `include/fgmpiimpl.h:15`).

Deadlock is checked in `threads`, `sleepq` and `pidmap`. It is off where the
system may stop: an application need not call more operations (`RecvQ`, the
barriers, `NemChannel` and `Communicators`, whose programs end; `Delivered` and
`Returns` say that this is how they stop), and an OS process ends (`FGLifecycle`,
with `Termination`).

Fairness:

* `FGThreads`: the scheduler is entered again and again until the program is done,
  and it is left again and again. The second holds because the loop runs, the first
  because a running coroutine reaches a switch (cooperative scheduling promises
  nothing for one that never does).
* `FGLifecycle`: the OS runs the process, and a packet that was sent arrives.
  There is no fairness among coroutines: their order is the scheduler's.
* `CoBarrier`, `DissemBarrier`: a process inside a barrier is scheduled again,
  which is what `NoStarvation` says of the FIFO schedulers. No process is
  obliged to enter one.
* `PidMap`: the search loop goes on.
* `NemChannel`: the operating system runs every process, and each keeps calling
  the progress engine, as it does while it waits: weak fairness of its steps.
* `Communicators`: a process whose allreduce all members have entered returns from
  it, since its messages arrive and it is scheduled: weak fairness of `Resume`,
  written out with the condition under which that is enabled (`AllIn`).

### Disagreements found

* `recvq_cancel`: `MPID_Cancel_send` searches for a collocated message with the
  destination's rank where the message carries the source's, so a cancel between
  two different ranks fails; `test/mpi/pt2pt/scancel.c:56` (below `src/`) counts
  that as an error.
* `recvq_revoke`: `MPIDI_CH3U_Clean_recvq` goes through the queues of all collocated
  processes and takes out what carries the context id of the revoked communicator.
  Two communicators of one split have the same id (`mpi/comm/comm_split.c:255`), so
  a process fails receives of its neighbour on a communicator it is not in; the
  comment at `mpid/ch3/src/ch3u_recvq.c:1142` says that requests are dequeued that
  "involved the provided communicator". `RevokeCleans` states what the code does,
  by id.
* `communicators_reuse`: `MPIR_Comm_split_impl` takes whatever block the table
  holds under the new id and leader. If the leader has freed a communicator that a
  collocated member still holds, its id is free for a group without that member,
  and the new communicator gets the rank map and the barrier variables of the old
  one, against the comments at `include/fgmpiimpl.h:122` and `:129`. The blocks of
  collocated parts are never released, which leads to the same violation even when
  all members have freed the old communicator.

Formulas that are defined, that no run checks, and that TLC refutes when put in
place of the invariants: `SanityHolds` of `SleepQueue` (two sleepers with the same
deadline and a check exactly at it leave an entry with a delta of 0 while
`max_sleep_time` is 0, which the assertion at `fgutil/src/threadlib.c:920` excludes),
`InsertPositive` and (as a property) `AllTimedOutWoken`, for the same cause;
`FirstWakeIsHead`, because the first sleeper does not set `first_wake_usecs`
(`pl_view_head` of an empty list is not NULL); and `LengthsAgree` of `RecvQ`,
when a communicator is revoked. `SenderHasMessage` excepts revoked context ids
and failed peers, without which it is refuted too. The hazard list in
`PROJECT.json` says where they bite.

The type invariants have no run. Those of the modules with proofs are proved (that
of `SleepQueue` also says which of its assertions can fail); those of `RecvQ`,
`NemChannel` and `Communicators` document the state.

## 4. Proofs

All theorems hold for every value of the constants under the named assumptions.

| Module | Proves | Assumes of the constants |
|---|---|---|
| `FGThreadsProofs` | type, counters, placement, sleepers, joins, reaping, process end | finitely many threads with different ranks |
| `SleepQueueProofs` | entries add up; who is told of a time-out; four of the six assertions hold; `Spec => RefinesTimers` | finitely many threads, positive timeouts |
| `FGLifecycleProofs` | start barrier, its assertions, no lost wakeup, blocked processes are served, a switch always finds a coroutine | at least one process (none is spawned if there is only one); `PT`, `Net`, `NULL` are no processes |
| `MatchQueuesProofs` | no missed match, non-overtaking | nothing |
| `CoBarrierProofs` | nobody leaves early; `Spec => ImplementsBarrier` | finitely many ranks, each with a leader, each of these with a root |
| `DissemBarrierProofs` | nobody leaves early; no message is left over | a largest size |
| `PidMapProofs` | lookup right, never fails | at least one OS process, none empty |
| `ContextIdsProofs` | members hold the same ids and no id twice; what is allocated was free | nothing |

* `FGThreads`. `IInv` is the conjunction of the safety properties with `Joining`
  (a thread inside `thread_join` is named by its target and is not asleep) and
  `Untouched` (main is never a daemon, joinable or freed; a thread not yet created
  has no joiner; what `done` and the scheduler flag exclude). None of the properties
  is inductive by itself: a count is right only if each queue entry is unique,
  and a join is safe only if nothing else resumes the joiner. The lemmas before the
  steps say what the list operations do to the set of queued threads.
* `SleepQueue`. The entries are differences, and each operation changes one or two
  of them, so nothing can be said of an entry by itself. The argument goes through
  the wake times: `ByWakeTime` shows that a queue whose entries are the differences
  of a sequence of wake times in order has these as its sums, and for appending,
  inserting, removing and checking a lemma gives the wake times of the new queue
  (`AppendTimes`, `InsertTimes`, `RemoveTimes`, `CheckTimes`): those of everybody
  else stay, or are all less by the time that passed. `IInv` adds that the sleepers
  are the threads in the queue and who set `t->timeout`. The refinement of `Timers`
  then is that the time left of each thread, read off the queue, changes as its own
  timer would, by every action, failing assertions included. Proved for any timeouts
  and a clock that may be set back, with assertions compiled in or out.
* `FGLifecycle`. `IInv` says where every coroutine is (`Placed`: in the run list, the
  block list or running, once, unless it is idle), how `FGP_inits` and
  `FGP_finalizations` follow from that (`Beginning`, `Finishing`), and that whoever is
  blocked has posted a receive and left a progress thread behind (`Blocking`).
  That a switch finds somebody is the hard part: it takes a process in the barrier,
  the process main joins, or the progress thread, which ends after all others. It
  holds for any number of processes, any programs and all three schedulers.
* `MatchQueues`. Entries carry numbers; `YoungerWait` says that whatever still
  waits is younger than what was matched in its place.
* `CoBarrier`. `NobodyLeavesEarly` needs to know where each process is relative
  to its leader (`Position`), that the counter counts those that have seen the
  present signal (`Gathering`), and that no leader is ahead of what the
  collectives allow. The refinement needs only those.
* `DissemBarrier`. `Accounts` counts: what is under way between two ranks a mask apart
  is the sends of one less the receives of the other, since different masks have
  different destinations. `Heard`: when a receive at distance k is over, the 2k ranks
  up to the receiver have entered. The loop ends when 2k reaches the size, so
  everybody has. The masks are defined as a least set (`Masks`), which makes
  induction over the rounds a matter of instantiating that set.
* `PidMap`. Everybody has published before anybody reads, and the rank sought
  stays between `low` and `high`.
* `ContextIds`. That an id taken is free at the taker is not inductive: the taker
  handed in its mask some steps ago. `OffersStand` says that what a
  waiting process handed in is still free there, `OutcomesCommon` that an outcome
  was handed in by everybody who takes it, `SecondRound` that nobody is in the second round before the first came
  out empty, and `HeldAreOutcomes` that what a rank holds is what its call decided.

`MatchQueues` and `ContextIds` have no run of their own. `RecvQ` and
`Communicators` are checked to refine them, so what is proved of them
(`NoMissedMatch`, `NonOvertaking`; `IdsExact`, `AllocatesFree`) holds of the code's
models wherever the refinement does.

The inductive invariants were checked with TLC on the instances of the runs
before they were proved; that of `SleepQueue` with assertions compiled in (75,037
states) and out (74,155).

Induction over data is needed in two places, and no theorem with an operator
parameter can be used for it. `SleepQueueProofs` gets it from the least element of a
set of numbers (`Least`, `UpTo`), which also shows that the recursive sums exist
(`SumsExist`); `DissemBarrierProofs` from the definition of `Masks`.

What `FGThreadsProofs` and `FGLifecycleProofs` need of cardinalities is gathered in a
definition, `Counting`, which their lemmas assume. `CountingHolds` proves it at the
end of each module from the library's theorems on finite sets, so that no theorem
depends on it.

Only model-checked: all liveness properties, which are out of reach of the prover;
the refinements `RefinesMatchQueues` and `RefinesContextIds`; the other properties
of `RecvQ`, `NemChannel` and `Communicators`. `RecvQ` would need the shape of its
linked queues as an invariant over paths, `NemChannel` one over the
half-done steps of its lock-free queues; `Communicators` contains `HashLib`, which searches by
recursive operators, and these are out of reach of the prover too. `DissemBarrier`
is not shown to implement `Barrier`, whose set of ranks is a constant while the size
of the communicator is a variable here; what the abstract barrier promises is
proved of it directly.

## 5. Not modelled

Datatypes and packing, one-sided communication, MPI-IO, groups, topologies,
attributes and error codes; collectives other than the barrier and the barrier
between intercommunicators; the schedule engine of nonblocking collectives; large
messages inside a node, TCP between nodes and the close protocol; stack allocation
and the machine-level switch; the process manager. `components` in `PROJECT.json`
gives each reason. These are most of MPICH by size: the models keep to what
FG-MPI changed or depends on.

## 6. Plan

In this order:

1. The block list of the scheduler as the hash table it is, with `hshwalk` and
   `hshkill`, and the lists on pointers with the object pool: `FGThreads` takes
   both for granted.
2. The shared-memory ring of long messages, composed with `RecvQ`; completion
   without a notification is the hazard there.
3. `MPI_Comm_create` with its groups, and requests that hold a communicator.
4. The schedule engine of nonblocking collectives (`mpid_sched.c`).
5. The TCP connection state machine and the close protocol of connections; the
   intercommunicator barrier.
6. Proofs: the pointer queues of `RecvQ` keep their tails and implement
   `MatchQueues`; the order restored by `NemChannel`.
