----------------------------- MODULE SleepQueue -----------------------------
(***************************************************************************)
(* The sleep queue of threadlib.c.  Each entry holds the time between the  *)
(* wake-up before it and its own; max_sleep_time is their sum.  Every      *)
(* action runs between two coroutine switches and is atomic.  An assertion *)
(* that fails ends the program, unless it is compiled out (NDEBUG).        *)
(***************************************************************************)
EXTENDS Integers, Sequences, PointerLists, FiniteSets

CONSTANTS
    Thread,
    Timeout,     \* arguments of thread_usleep
    MaxClock,    \* bound on the wall clock
    NDEBUG       \* assertions are compiled out

ASSUME SleepAssumption ==
    /\ IsFiniteSet(Thread)
    /\ Timeout \subseteq Nat \ {0}
    /\ MaxClock \in Nat
    /\ NDEBUG \in BOOLEAN

VARIABLES
    tq,       \* the static variables of the sleep queue and t->sleep, t->timeout
    clock,    \* current_usecs()
    place,    \* where each thread is: in the sleep queue, in the run list, running
    wokenBy,  \* who ended the sleep of a thread that has not run since
    failed    \* the assertion that ended the program, if any

vars == <<tq, clock, place, wokenBy, failed>>

NotQueued == -1

\* The sum of the first i entries of q.
TotalTo(q, sleep, i) ==
    LET total[k \in 0 .. Len(q)] == IF k = 0 THEN 0 ELSE total[k - 1] + sleep[q[k]]
    IN total[i]

\* fgmpi_sleepq_sanity_check
Sane(s) == (s.max_sleep_time > 0) <=> (s.sleepq # <<>>)

Init ==
    /\ tq = [sleepq |-> <<>>, sleep |-> [t \in Thread |-> NotQueued],
             timeout |-> [t \in Thread |-> FALSE],
             max_sleep_time |-> 0, last_check_time |-> 0, first_wake_usecs |-> 0]
    /\ clock \in 0..MaxClock
    /\ place = [t \in Thread |-> "running"]
    /\ wokenBy = [t \in Thread |-> "nobody"]
    /\ failed = "none"

\* fgmpi_sleepq_check after its shortcut: `gone' is how many entries the loop
\* removes from the head, `left' the part of the interval it has then not
\* used, which is taken from the entry that is now first.
Interval(s) == IF clock > s.last_check_time THEN clock - s.last_check_time ELSE 0

TimesOut(s, i) == /\ TotalTo(s.sleepq, s.sleep, i - 1) < Interval(s)
                  /\ TotalTo(s.sleepq, s.sleep, i) <= Interval(s)

Gone(s) == CHOOSE n \in 0 .. Len(s.sleepq) :
              /\ \A i \in 1 .. n : TimesOut(s, i)
              /\ n < Len(s.sleepq) => ~TimesOut(s, n + 1)

TimedOut(s) == Range(SubSeq(s.sleepq, 1, Gone(s)))

Checked(s) ==
    LET rest == SubSeq(s.sleepq, Gone(s) + 1, Len(s.sleepq))
        left == Interval(s) - TotalTo(s.sleepq, s.sleep, Gone(s))
        runs == rest # <<>> /\ left > 0
    IN [sleepq           |-> rest,
        sleep            |-> [t \in Thread |->
                                IF t \in TimedOut(s) THEN NotQueued
                                ELSE IF runs /\ t = Head(rest) THEN s.sleep[t] - left
                                ELSE s.sleep[t]],
        timeout          |-> [t \in Thread |-> s.timeout[t] \/ t \in TimedOut(s)],
        max_sleep_time   |-> IF s.max_sleep_time < Interval(s) THEN 0
                             ELSE s.max_sleep_time - Interval(s),
        last_check_time  |-> clock,
        first_wake_usecs |-> IF rest = <<>> THEN 0
                             ELSE IF runs THEN clock + s.sleep[Head(rest)] - left
                             ELSE s.first_wake_usecs]

\* fgmpi_sleepq_add_thread after its call of fgmpi_sleepq_check.  Appending
\* never sets first_wake_usecs: pl_view_head of an empty list is -1, which
\* the code compares with NULL.
Appended(s, t, d) ==
    [s EXCEPT !.sleepq = Append(s.sleepq, t),
              !.sleep[t] = d - s.max_sleep_time,
              !.max_sleep_time = d]

\* The place found by the walk from the tail: the last entry whose
\* predecessors' times add up to no more than d.
Before(s, d) ==
    CHOOSE i \in DOMAIN s.sleepq :
        /\ TotalTo(s.sleepq, s.sleep, i - 1) <= d
        /\ \A k \in DOMAIN s.sleepq : k > i => TotalTo(s.sleepq, s.sleep, k - 1) > d

Bug_InsertedNextUnchanged(s, t, d) ==
    LET i     == Before(s, d)
        total == TotalTo(s.sleepq, s.sleep, i - 1)
    IN [s EXCEPT !.sleepq = ll_insert_before(s.sleepq, i, t), !.sleep[t] = d - total]

Inserted(s, t, d) ==
    LET i     == Before(s, d)
        total == TotalTo(s.sleepq, s.sleep, i - 1)
    IN [s EXCEPT !.sleepq = ll_insert_before(s.sleepq, i, t),
                 !.sleep[t] = d - total,
                 !.sleep[s.sleepq[i]] = @ - (d - total),
                 !.first_wake_usecs = IF total = 0 THEN clock + d ELSE @]

\* fgmpi_sleepq_remove_thread
Bug_RemovedAsLast(s, t) ==
    LET i == CHOOSE k \in DOMAIN s.sleepq : s.sleepq[k] = t
    IN [s EXCEPT !.sleepq = ll_remove_entry(s.sleepq, i), !.sleep[t] = NotQueued,
                 !.max_sleep_time = @ - s.sleep[t]]

Removed(s, t) ==
    LET i == CHOOSE k \in DOMAIN s.sleepq : s.sleepq[k] = t
    IN IF i = Len(s.sleepq)
       THEN [s EXCEPT !.sleepq = ll_remove_entry(s.sleepq, i), !.sleep[t] = NotQueued,
                      !.max_sleep_time = @ - s.sleep[t]]
       ELSE [s EXCEPT !.sleepq = ll_remove_entry(s.sleepq, i), !.sleep[t] = NotQueued,
                      !.sleep[s.sleepq[i + 1]] = @ + s.sleep[t]]

-----------------------------------------------------------------------------
\* The first assertion that does not hold ends the program; the queue is
\* then of no further use and is left as it was.
Assertion(name, holds) == IF holds \/ NDEBUG THEN {} ELSE {name}

Abort(broken) ==
    /\ failed' = CHOOSE a \in broken : TRUE
    /\ UNCHANGED <<tq, clock, place, wokenBy>>

\* _thread_resume of every thread that timed out, then t, if any, sleeps.
Places(woken, sleeper) ==
    /\ place' = [t \in Thread |-> IF t \in sleeper THEN "asleep"
                                  ELSE IF t \in woken THEN "runnable" ELSE place[t]]
    /\ wokenBy' = [t \in Thread |-> IF t \in sleeper THEN "nobody"
                                    ELSE IF t \in woken THEN "timer" ELSE wokenBy[t]]

\* fgmpi_sleepq_check(0), at every turn of do_scheduler.
fgmpi_sleepq_check ==
    LET broken == Assertion("sanity", Sane(tq) /\ Sane(Checked(tq))) IN
    /\ failed = "none"
    /\ IF tq.max_sleep_time = 0
       THEN tq' = [tq EXCEPT !.first_wake_usecs = 0] /\ UNCHANGED <<clock, place, wokenBy, failed>>
       ELSE \/ broken # {} /\ Abort(broken)
            \/ /\ broken = {}
               /\ tq' = Checked(tq)
               /\ Places(TimedOut(tq), {})
               /\ UNCHANGED <<clock, failed>>

\* thread_usleep(d) = thread_suspend_self(d) by the running thread t.
thread_usleep(t, d) ==
    LET s       == Checked(tq)
        appends == d >= s.max_sleep_time
        n       == IF appends THEN Appended(s, t, d) ELSE Inserted(s, t, d)
        next    == s.sleepq[Before(s, d)]
        early   == Assertion("sanity", Sane(tq) /\ Sane(s))
                   \cup Assertion("queued", s.sleep[t] = NotQueued)
        late    == IF appends
                   THEN Assertion("append", n.sleep[t] >= 0)
                   ELSE Assertion("insert", n.sleep[t] > 0)
                        \cup Assertion("next", n.sleep[next] > 0)
        broken  == IF early # {} THEN early ELSE late \cup Assertion("sanity", Sane(n))
    IN /\ failed = "none"
       /\ place[t] = "running"
       /\ \/ broken # {} /\ Abort(broken)
          \/ /\ broken = {}
             /\ tq' = n
             /\ Places(TimedOut(tq), {t})
             /\ UNCHANGED <<clock, failed>>

\* thread_resume of a sleeper by another thread.  (A thread that is not in
\* the queue has been made runnable already, and nothing happens.)
thread_resume(t) ==
    LET broken == Assertion("sanity", Sane(tq) /\ Sane(Removed(tq, t)))
                  \cup Assertion("timeout", ~tq.timeout[t])
    IN /\ failed = "none"
       /\ place[t] = "asleep"
       /\ \/ broken # {} /\ Abort(broken)
          \/ /\ broken = {}
             /\ tq' = Removed(tq, t)
             /\ place' = [place EXCEPT ![t] = "runnable"]
             /\ wokenBy' = [wokenBy EXCEPT ![t] = "resume"]
             /\ UNCHANGED <<clock, failed>>

\* The end of _thread_yield_internal, when t runs again: TIMEDOUT is returned
\* if t->timeout is set, which is then cleared.
Bug_KeepsTimeout(t) ==
    /\ failed = "none"
    /\ place[t] = "runnable"
    /\ place' = [place EXCEPT ![t] = "running"]
    /\ wokenBy' = [wokenBy EXCEPT ![t] = "nobody"]
    /\ UNCHANGED <<tq, clock, failed>>

thread_usleep_return(t) ==
    /\ failed = "none"
    /\ place[t] = "runnable"
    /\ tq' = [tq EXCEPT !.timeout[t] = FALSE]
    /\ place' = [place EXCEPT ![t] = "running"]
    /\ wokenBy' = [wokenBy EXCEPT ![t] = "nobody"]
    /\ UNCHANGED <<clock, failed>>

\* The wall clock moves, and may be set back.
current_usecs ==
    /\ failed = "none"
    /\ clock' \in (0..MaxClock) \ {clock}
    /\ UNCHANGED <<tq, place, wokenBy, failed>>

Stopped == failed # "none" /\ UNCHANGED vars

Next ==
    \/ fgmpi_sleepq_check \/ current_usecs \/ Stopped
    \/ \E t \in Thread :
          \/ \E d \in Timeout : thread_usleep(t, d)
          \/ thread_resume(t)
          \/ thread_usleep_return(t)

Spec == Init /\ [][Next]_vars

-----------------------------------------------------------------------------
(* Properties.                                                             *)

\* The type of every variable.  Of the assertions of the sleep queue only two
\* ever fail, the one of fgmpi_sleepq_sanity_check and the one after an
\* insertion (see SanityHolds and InsertPositive).
TypeOK ==
    /\ tq.sleepq \in Seq(Thread) /\ tq.sleep \in [Thread -> Int]
    /\ tq.timeout \in [Thread -> BOOLEAN]
    /\ tq.max_sleep_time \in Nat /\ tq.last_check_time \in 0..MaxClock
    /\ tq.first_wake_usecs \in Nat
    /\ clock \in 0..MaxClock
    /\ place \in [Thread -> {"running", "asleep", "runnable"}]
    /\ wokenBy \in [Thread -> {"nobody", "timer", "resume"}]
    /\ failed \in {"none", "sanity", "insert"}

\* The sanity check that threadlib.c:924-939 keeps disabled: no entry is
\* negative and the entries add up to max_sleep_time; and t->sleep is set
\* for exactly the threads in the queue.
DeltasAddUp ==
    /\ TotalTo(tq.sleepq, tq.sleep, Len(tq.sleepq)) = tq.max_sleep_time
    /\ \A t \in Thread : /\ tq.sleep[t] >= NotQueued
                         /\ tq.sleep[t] # NotQueued <=> t \in Range(tq.sleepq)
                         /\ t \in Range(tq.sleepq) <=> place[t] = "asleep"
    /\ IsInjective(tq.sleepq)

\* _thread_yield_internal: "returns FALSE if time-out actually happens, TRUE
\* if waken up by other threads": t->timeout, which decides, is set when t
\* comes back from a sleep that the timer ended, and then only.
TimeoutTellsWho ==
    \A t \in Thread : tq.timeout[t] <=> place[t] = "runnable" /\ wokenBy[t] = "timer"

\* The remaining time of each sleeper, read off the queue.
Remaining ==
    [t \in Thread |->
        IF t \in Range(tq.sleepq)
        THEN TotalTo(tq.sleepq, tq.sleep, CHOOSE i \in DOMAIN tq.sleepq : tq.sleepq[i] = t)
        ELSE NotQueued]

T == INSTANCE Timers WITH remaining <- Remaining, lastLook <- tq.last_check_time

\* The queue implements one timer per thread: nobody is woken early, and no
\* check that looks at the clock (one that does not take the shortcut for
\* max_sleep_time = 0) leaves anybody asleep who is overdue, whatever was
\* inserted and removed in between.
RefinesTimers == T!Spec

\* fgmpi_sleepq_sanity_check (threadlib.c:920) never fails.
SanityHolds == failed # "sanity"

\* `assert( t->sleep > 0 )' after an insertion (threadlib.c:1057).
InsertPositive == failed # "insert"

\* "check sleep queue to wake up all timed-out threads" (threadlib.c:960):
\* a check after which time has passed leaves no thread with no time left.
AllTimedOutWoken ==
    [][fgmpi_sleepq_check => \A t \in Thread : Remaining[t] # NotQueued =>
          (Remaining[t])' = NotQueued \/ (Remaining[t])' > 0]_vars

\* "wall clock time of the wake time of the first sleeping thread"
\* (threadlib.c:120).
FirstWakeIsHead ==
    tq.sleepq # <<>> => tq.first_wake_usecs = tq.last_check_time + tq.sleep[Head(tq.sleepq)]
====
