-------------------------- MODULE FGLifecycleProofs --------------------------
(***************************************************************************)
(* The safety properties of FGLifecycle, for every number of processes,    *)
(* every application and each of the three schedulers.                     *)
(*                                                                         *)
(* IInv says where the coroutines are (Placed: each in one of run list,    *)
(* block list and processor), how the two counters of the start and the    *)
(* end follow from that (Beginning, Finishing), and who may be blocked     *)
(* (Blocking).  A switch always finds a coroutine because somebody who is  *)
(* neither idle nor blocked is left: a process in the barrier, the one     *)
(* main joins, or the progress thread, which a process that blocks starts  *)
(* and which ends after all the others.                                    *)
(***************************************************************************)
EXTENDS FGLifecycle, TLAPS

\* The coroutines of a run list, and that none is queued twice.
Queued(rl) == {rl[i] : i \in DOMAIN rl}
OnceEach(rl) == \A i, j \in DOMAIN rl : rl[i] = rl[j] => i = j

\* A coroutine that is put at the end of a run list it was not in (add_qelem_tail).
LEMMA Appended ==
  ASSUME NEW S, NEW s \in Seq(S), NEW x \in S
  PROVE  /\ Append(s, x) \in Seq(S) /\ Append(s, x) # <<>>
         /\ Queued(Append(s, x)) = Queued(s) \cup {x}
         /\ OnceEach(s) /\ x \notin Queued(s) => OnceEach(Append(s, x))
  <1> DEFINE a == Append(s, x)
             n == Len(s)
  <1>1. /\ a \in Seq(S) /\ n \in Nat /\ Len(a) = n + 1 /\ a[n + 1] = x
        /\ \A i \in 1 .. n : a[i] = s[i]
    OBVIOUS
  <1>2. DOMAIN s = 1 .. n /\ DOMAIN a = 1 .. n + 1
    BY <1>1
  <1> HIDE DEF a, n
  <1>3. a # <<>>
    BY <1>1
  <1>4. Queued(a) = Queued(s) \cup {x}
    BY <1>1, <1>2 DEF Queued
  <1>5. OnceEach(s) /\ x \notin Queued(s) => OnceEach(a)
    BY <1>1, <1>2 DEF Queued, OnceEach
  <1>6. QED
    BY <1>1, <1>3, <1>4, <1>5 DEF a

\* The same at the head of the list (runlist_init of the inverse round robin).
LEMMA Consed ==
  ASSUME NEW S, NEW s \in Seq(S), NEW x \in S
  PROVE  /\ <<x>> \o s \in Seq(S) /\ <<x>> \o s # <<>>
         /\ Queued(<<x>> \o s) = Queued(s) \cup {x}
         /\ OnceEach(s) /\ x \notin Queued(s) => OnceEach(<<x>> \o s)
  <1> DEFINE a == <<x>> \o s
             n == Len(s)
  <1>1. /\ a \in Seq(S) /\ n \in Nat /\ Len(a) = n + 1 /\ a[1] = x
        /\ \A i \in 1 .. n : a[i + 1] = s[i]
    OBVIOUS
  <1>2. DOMAIN s = 1 .. n /\ DOMAIN a = 1 .. n + 1
    BY <1>1
  <1> HIDE DEF a, n
  <1>3. \A i \in 2 .. n + 1 : i - 1 \in 1 .. n /\ a[i] = s[i - 1]
    <2>1. \A i \in 2 .. n + 1 : i - 1 \in 1 .. n /\ (i - 1) + 1 = i
      BY <1>1
    <2>2. QED
      BY <1>1, <2>1
  <1>4. a # <<>>
    BY <1>1
  <1>5. Queued(a) = Queued(s) \cup {x}
    <2>1. ASSUME NEW i \in DOMAIN a PROVE a[i] \in Queued(s) \cup {x}
      <3>1. i = 1 \/ i \in 2 .. n + 1
        BY <1>1, <1>2
      <3>2. QED
        BY <1>1, <1>2, <1>3, <3>1 DEF Queued
    <2>2. ASSUME NEW i \in DOMAIN s PROVE s[i] \in Queued(a)
      <3>1. i + 1 \in DOMAIN a /\ a[i + 1] = s[i]
        BY <1>1, <1>2
      <3>2. QED
        BY <3>1 DEF Queued
    <2>3. 1 \in DOMAIN a /\ a[1] = x
      BY <1>1, <1>2
    <2>4. x \in Queued(a)
      BY <2>3 DEF Queued
    <2>5. Queued(a) \subseteq Queued(s) \cup {x}
      BY <2>1 DEF Queued
    <2>6. Queued(s) \subseteq Queued(a)
      BY <2>2 DEF Queued
    <2>7. QED
      BY <2>4, <2>5, <2>6
  <1>6. OnceEach(s) /\ x \notin Queued(s) => OnceEach(a)
    <2> SUFFICES ASSUME OnceEach(s), x \notin Queued(s), NEW i \in DOMAIN a, NEW j \in DOMAIN a,
                        a[i] = a[j]
                 PROVE  i = j
      BY DEF OnceEach
    <2>1. \A k \in 2 .. n + 1 : a[k] # x
      BY <1>2, <1>3 DEF Queued
    <2>2. CASE i = 1 \/ j = 1
      BY <1>1, <1>2, <2>1, <2>2
    <2>3. CASE i # 1 /\ j # 1
      <3>1. i \in 2 .. n + 1 /\ j \in 2 .. n + 1
        BY <1>1, <1>2, <2>3
      <3>2. i - 1 = j - 1
        BY <1>2, <1>3, <3>1 DEF OnceEach
      <3>3. QED
        BY <1>1, <3>1, <3>2
    <2>4. QED
      BY <2>2, <2>3
  <1>7. QED
    BY <1>1, <1>4, <1>5, <1>6 DEF a

\* What taking the head of a run list leaves (the scheduler's next coroutine).
LEMMA HeadTaken ==
  ASSUME NEW S, NEW s \in Seq(S), s # <<>>
  PROVE  /\ Head(s) \in S /\ Tail(s) \in Seq(S)
         /\ Queued(s) = Queued(Tail(s)) \cup {Head(s)}
         /\ OnceEach(s) => OnceEach(Tail(s)) /\ Head(s) \notin Queued(Tail(s))
  <1> DEFINE a == Tail(s)
             n == Len(s)
  <1>1. /\ a \in Seq(S) /\ n \in Nat \ {0} /\ Len(a) = n - 1 /\ Head(s) = s[1] /\ s[1] \in S
        /\ \A i \in 1 .. n - 1 : a[i] = s[i + 1]
    OBVIOUS
  <1>2. DOMAIN s = 1 .. n /\ DOMAIN a = 1 .. n - 1
    BY <1>1
  <1> HIDE DEF a, n
  <1>3. \A i \in 2 .. n : i - 1 \in 1 .. n - 1 /\ a[i - 1] = s[i]
    <2>1. \A i \in 2 .. n : i - 1 \in 1 .. n - 1 /\ (i - 1) + 1 = i
      BY <1>1
    <2>2. QED
      BY <1>1, <2>1
  <1>4. Queued(s) = Queued(a) \cup {s[1]}
    <2>1. ASSUME NEW i \in DOMAIN s PROVE s[i] \in Queued(a) \cup {s[1]}
      <3>1. i = 1 \/ i \in 2 .. n
        BY <1>1, <1>2
      <3>2. QED
        BY <1>2, <1>3, <3>1 DEF Queued
    <2>2. ASSUME NEW i \in DOMAIN a PROVE a[i] \in Queued(s)
      <3>1. i + 1 \in DOMAIN s /\ a[i] = s[i + 1]
        BY <1>1, <1>2
      <3>2. QED
        BY <3>1 DEF Queued
    <2>3. 1 \in DOMAIN s
      BY <1>1, <1>2
    <2>4. QED
      BY <2>1, <2>2, <2>3 DEF Queued
  <1>5. OnceEach(s) => OnceEach(a) /\ s[1] \notin Queued(a)
    <2> SUFFICES ASSUME OnceEach(s) PROVE OnceEach(a) /\ s[1] \notin Queued(a)
      OBVIOUS
    <2>1. \A i \in 1 .. n - 1 : i + 1 \in 1 .. n /\ i + 1 # 1 /\ 1 \in 1 .. n
      BY <1>1
    <2>2. s[1] \notin Queued(a)
      BY <1>1, <1>2, <2>1 DEF Queued, OnceEach
    <2>3. ASSUME NEW i \in DOMAIN a, NEW j \in DOMAIN a, a[i] = a[j] PROVE i = j
      <3>1. i + 1 = j + 1
        BY <1>1, <1>2, <2>1, <2>3 DEF OnceEach
      <3>2. QED
        BY <1>1, <1>2, <3>1
    <2>4. QED
      BY <2>2, <2>3 DEF OnceEach
  <1>6. QED
    BY <1>1, <1>4, <1>5 DEF a

\* What taking the tail leaves (the next coroutine of the inverse round robin).
LEMMA LastTaken ==
  ASSUME NEW S, NEW s \in Seq(S), s # <<>>
  PROVE  /\ s[Len(s)] \in S /\ SubSeq(s, 1, Len(s) - 1) \in Seq(S)
         /\ Queued(s) = Queued(SubSeq(s, 1, Len(s) - 1)) \cup {s[Len(s)]}
         /\ OnceEach(s) => /\ OnceEach(SubSeq(s, 1, Len(s) - 1))
                           /\ s[Len(s)] \notin Queued(SubSeq(s, 1, Len(s) - 1))
  <1> DEFINE n == Len(s)
             a == SubSeq(s, 1, n - 1)
  <1>1. n \in Nat \ {0} /\ DOMAIN s = 1 .. n /\ s[n] \in S
    OBVIOUS
  <1>2. a \in Seq(S) /\ Len(a) = n - 1 /\ \A i \in 1 .. n - 1 : a[i] = s[i]
    BY <1>1
  <1>3. DOMAIN a = 1 .. n - 1
    BY <1>1, <1>2
  <1> HIDE DEF a, n
  <1>4. Queued(s) = Queued(a) \cup {s[n]}
    BY <1>1, <1>2, <1>3 DEF Queued
  <1>5. OnceEach(s) => OnceEach(a) /\ s[n] \notin Queued(a)
    BY <1>1, <1>2, <1>3 DEF Queued, OnceEach
  <1>6. QED
    BY <1>1, <1>2, <1>4, <1>5 DEF a, n
-----------------------------------------------------------------------------
\* A coroutine in one of these places is in no list and does not run: not created
\* yet, suspended in thread_join, or ended.
Idle == {"none", "suspended", "exited"}

\* Every coroutine that is not idle is in exactly one place: the run list rl, the
\* block list bl or the set C of what runs; f says where each coroutine is.
Layout(rl, bl, C, f) ==
    /\ rl \in Seq(Co) /\ bl \in SUBSET Co /\ C \in SUBSET Co
    /\ OnceEach(rl)
    /\ Queued(rl) \cap bl = {} /\ Queued(rl) \cap C = {} /\ bl \cap C = {}
    /\ Queued(rl) \cup bl \cup C = {c \in Co : f[c] \notin Idle}

\* FG_Notify_on_event moves a coroutine from the block list to the run list.
LEMMA LayoutWake ==
  ASSUME NEW rl, NEW bl, NEW C, NEW f, Layout(rl, bl, C, f), NEW q \in bl
  PROVE  Layout(Append(rl, q), bl \ {q}, C, f)
  <1>1. /\ Append(rl, q) \in Seq(Co) /\ OnceEach(Append(rl, q))
        /\ Queued(Append(rl, q)) = Queued(rl) \cup {q}
    BY Appended DEF Layout
  <1>2. QED
    BY <1>1 DEF Layout

\* A yield puts the running coroutine at the end of the run list.
LEMMA LayoutQueue ==
  ASSUME NEW rl, NEW bl, NEW c, NEW f, Layout(rl, bl, {c}, f)
  PROVE  Layout(Append(rl, c), bl, {}, f) /\ Append(rl, c) # <<>>
  <1>1. /\ Append(rl, c) \in Seq(Co) /\ OnceEach(Append(rl, c))
        /\ Queued(Append(rl, c)) = Queued(rl) \cup {c} /\ Append(rl, c) # <<>>
    BY Appended DEF Layout
  <1>2. QED
    BY <1>1 DEF Layout

\* The yield of the inverse round robin puts it at the head.
LEMMA LayoutCons ==
  ASSUME NEW rl, NEW bl, NEW c, NEW f, Layout(rl, bl, {c}, f)
  PROVE  Layout(<<c>> \o rl, bl, {}, f) /\ <<c>> \o rl # <<>>
  <1> DEFINE s == <<c>> \o rl
  <1>1. /\ s \in Seq(Co) /\ OnceEach(s)
        /\ Queued(s) = Queued(rl) \cup {c} /\ s # <<>>
    BY Consed DEF Layout
  <1> HIDE DEF s
  <1>2. Layout(s, bl, {}, f) /\ s # <<>>
    BY <1>1 DEF Layout
  <1>3. QED
    BY <1>2 DEF s

\* FG_Yield_on_event puts it in the block list.
LEMMA LayoutBlock ==
  ASSUME NEW rl, NEW bl, NEW c, NEW f, Layout(rl, bl, {c}, f)
  PROVE  Layout(rl, bl \cup {c}, {}, f)
  BY DEF Layout

\* A coroutine that suspends or exits leaves the scheduler's lists alone.
LEMMA LayoutStop ==
  ASSUME NEW rl, NEW bl, NEW c, NEW f, NEW g, Layout(rl, bl, {c}, f),
         g[c] \in Idle, \A d \in Co \ {c} : g[d] = f[d]
  PROVE  Layout(rl, bl, {}, g)
  BY DEF Layout

\* thread_resume, and the creation of a thread, queue a coroutine that was idle.
LEMMA LayoutResume ==
  ASSUME NEW rl, NEW bl, NEW C, NEW f, NEW g, NEW c \in Co, Layout(rl, bl, C, f),
         f[c] \in Idle, g[c] \notin Idle, \A d \in Co \ {c} : g[d] = f[d]
  PROVE  Layout(Append(rl, c), bl, C, g) /\ Append(rl, c) # <<>>
  <1>1. c \notin Queued(rl) /\ c \notin bl /\ c \notin C
    BY DEF Layout
  <1>2. /\ Append(rl, c) \in Seq(Co) /\ OnceEach(Append(rl, c))
        /\ Queued(Append(rl, c)) = Queued(rl) \cup {c} /\ Append(rl, c) # <<>>
    BY <1>1, Appended DEF Layout
  <1>3. QED
    BY <1>1, <1>2 DEF Layout

\* The scheduler runs the first coroutine of the run list,
LEMMA LayoutSwitch ==
  ASSUME NEW rl, NEW bl, NEW f, Layout(rl, bl, {}, f), rl # <<>>
  PROVE  Layout(Tail(rl), bl, {Head(rl)}, f) /\ Head(rl) \in Co
  <1>1. /\ Head(rl) \in Co /\ Tail(rl) \in Seq(Co)
        /\ Queued(rl) = Queued(Tail(rl)) \cup {Head(rl)}
        /\ OnceEach(Tail(rl)) /\ Head(rl) \notin Queued(Tail(rl))
    BY HeadTaken DEF Layout
  <1>2. QED
    BY <1>1 DEF Layout

\* or the last one with the inverse round robin.
LEMMA LayoutLast ==
  ASSUME NEW rl, NEW bl, NEW f, Layout(rl, bl, {}, f), rl # <<>>
  PROVE  Layout(SubSeq(rl, 1, Len(rl) - 1), bl, {rl[Len(rl)]}, f) /\ rl[Len(rl)] \in Co
  <1> DEFINE a == SubSeq(rl, 1, Len(rl) - 1)
             x == rl[Len(rl)]
  <1>1. /\ x \in Co /\ a \in Seq(Co)
        /\ Queued(rl) = Queued(a) \cup {x}
        /\ OnceEach(a) /\ x \notin Queued(a)
    BY LastTaken DEF Layout
  <1> HIDE DEF a, x
  <1>2. Layout(a, bl, {x}, f) /\ x \in Co
    BY <1>1 DEF Layout
  <1>3. QED
    BY <1>2 DEF a, x

\* Nothing moves while no coroutine starts or stops being idle.
LEMMA LayoutSame ==
  ASSUME NEW rl, NEW bl, NEW C, NEW f, NEW g, Layout(rl, bl, C, f),
         \A c \in Co : g[c] \in Idle <=> f[c] \in Idle
  PROVE  Layout(rl, bl, C, g)
  BY DEF Layout
-----------------------------------------------------------------------------
\* A switch from a run list that is not empty runs one of its coroutines.
LEMMA Switched ==
  ASSUME NEW rl, NEW bl, NEW f, Layout(rl, bl, {}, f), rl # <<>>, Switch(rl)
  PROVE  Layout(runlist', bl, {current'}, f) /\ current' \in Co
  BY LayoutSwitch DEF Switch

\* FG_Yield keeps every coroutine placed once, whether it switches or not.
LEMMA Yielded ==
  ASSUME NEW rl, NEW bl, NEW c, NEW f, Layout(rl, bl, {c}, f), current = c,
         FG_yield(c, rl)
  PROVE  Layout(runlist', bl, {current'}, f) /\ current' \in Co
  <1>1. CASE N > 1 /\ rl # <<>>
    <2>1. Layout(Append(rl, c), bl, {}, f) /\ Append(rl, c) # <<>> /\ Switch(Append(rl, c))
      BY <1>1, LayoutQueue DEF FG_yield
    <2>2. QED
      BY <2>1, Switched, Zenon
  <1>2. CASE ~(N > 1 /\ rl # <<>>)
    BY <1>2 DEF FG_yield, Stay, Layout
  <1>3. QED
    BY <1>1, <1>2

\* sched_block_queue_start_progress_thread moves the progress thread out of the
\* block list, where it is as long as it was never started.
LEMMA StartedLayout ==
  ASSUME NEW rl, NEW bl, NEW C, NEW f, Layout(rl, bl, C, f), PT \in bl => ~ptRunning
  PROVE  /\ Layout(Started(rl, bl), StartedBlocked(bl), C, f)
         /\ StartedBlocked(bl) = bl \ {PT}
         /\ rl # <<>> \/ PT \in bl => Started(rl, bl) # <<>>
  <1>1. CASE PT \in bl
    <2>1. Append(rl, PT) # <<>>
      BY <1>1, Appended DEF Layout
    <2>2. QED
      BY <1>1, <2>1, LayoutWake DEF Started, StartedBlocked
  <1>2. CASE PT \notin bl
    <2>1. bl \ {PT} = bl
      BY <1>2
    <2>2. Started(rl, bl) = rl /\ StartedBlocked(bl) = bl
      BY <1>2, <2>1 DEF Started, StartedBlocked
    <2>3. QED
      BY <1>2, <2>1, <2>2
  <1>3. QED
    BY <1>1, <1>2

\* FG_Yield_on_event: afterwards the caller is blocked only under the block
\* scheduler, and then the progress thread has been started.
LEMMA Blocks ==
  ASSUME NEW rl, NEW bl, NEW p \in Proc, NEW f, Layout(rl, bl, {p}, f), current = p,
         PT \in bl => ~ptRunning, ptRunning \in BOOLEAN, FG_yield_on_event(p, rl, bl)
  PROVE  /\ Layout(runlist', blocked', {current'}, f) /\ current' \in Co
         /\ ptRunning' \in BOOLEAN /\ (PT \in blocked' => ~ptRunning')
         /\ blocked' \subseteq bl \cup {p}
         /\ p \in blocked' => N > 1 /\ sched = "block" /\ ptRunning'
         /\ ptRunning => ptRunning'
  <1> USE LifecycleAssumption
  <1>0. p # PT /\ p \notin bl
    BY DEF Layout
  <1>1. CASE N > 1 /\ rl # <<>> /\ sched = "block"
    <2> DEFINE r == Started(rl, bl)
               b == StartedBlocked(bl)
    <2>1. Layout(r, b, {p}, f) /\ b = bl \ {PT} /\ r # <<>>
      BY <1>1, StartedLayout
    <2>2. Switch(r) /\ blocked' = b \cup {p} /\ ptRunning' = TRUE
      BY <1>1 DEF FG_yield_on_event
    <2> HIDE DEF r, b
    <2>3. Layout(r, b \cup {p}, {}, f)
      BY <2>1, LayoutBlock, Zenon
    <2>4. Layout(runlist', blocked', {current'}, f) /\ current' \in Co
      BY <2>1, <2>2, <2>3, Switched
    <2>5. QED
      BY <1>0, <1>1, <2>1, <2>2, <2>4
  <1>2. CASE N > 1 /\ rl # <<>> /\ sched # "block"
    <2>1. Layout(Append(rl, p), bl, {}, f) /\ Append(rl, p) # <<>>
      BY LayoutQueue
    <2>2. Switch(Append(rl, p)) /\ blocked' = bl /\ ptRunning' = ptRunning
      BY <1>2 DEF FG_yield_on_event
    <2>3. Layout(runlist', bl, {current'}, f) /\ current' \in Co
      BY <2>1, <2>2, Switched, Zenon
    <2>4. QED
      BY <1>0, <2>2, <2>3
  <1>3. CASE ~(N > 1 /\ rl # <<>>)
    <2>1. runlist' = rl /\ current' = p /\ blocked' = bl /\ ptRunning' = ptRunning
      BY <1>3 DEF FG_yield_on_event, Stay
    <2>2. QED
      BY <1>0, <2>1 DEF Layout
  <1>4. QED
    BY <1>1, <1>2, <1>3

\* runlist_init, the yield of the two barriers of the start.
LEMMA Spins ==
  ASSUME NEW bl, NEW c, NEW f, Layout(runlist, bl, {c}, f), runlist_init(c)
  PROVE  Layout(runlist', bl, {current'}, f) /\ current' \in Co
  <1>1. CASE sched = "invrr"
    <2> DEFINE s == <<c>> \o runlist
    <2>1. Layout(s, bl, {}, f) /\ s # <<>>
      BY LayoutCons
    <2>2. current' = s[Len(s)] /\ runlist' = SubSeq(s, 1, Len(s) - 1)
      BY <1>1 DEF runlist_init
    <2> HIDE DEF s
    <2>3. QED
      BY <2>1, <2>2, LayoutLast
  <1>2. CASE sched # "invrr"
    <2> DEFINE s == Append(runlist, c)
    <2>1. Layout(s, bl, {}, f) /\ s # <<>>
      BY LayoutQueue
    <2>2. current' = Head(s) /\ runlist' = Tail(s)
      BY <1>2 DEF runlist_init
    <2> HIDE DEF s
    <2>3. QED
      BY <2>1, <2>2, LayoutSwitch
  <1>3. QED
    BY <1>1, <1>2

\* FG_Notify_on_event, whether or not the process is blocked.
LEMMA Notifies ==
  ASSUME NEW C, NEW f, Layout(runlist, blocked, C, f), NEW q
  PROVE  Layout(Notified(q), NotifiedBlocked(q), C, f)
  <1>1. CASE q \in blocked
    BY <1>1, LayoutWake DEF Notified, NotifiedBlocked
  <1>2. CASE q \notin blocked
    <2>1. blocked \ {q} = blocked
      BY <1>2
    <2>2. QED
      BY <1>2, <2>1 DEF Notified, NotifiedBlocked
  <1>3. QED
    BY <1>1, <1>2
-----------------------------------------------------------------------------
\* The places of a coroutine, and those between FG_Init and MPI_Finalize.
Where == {"none", "new", "spawning", "init", "app", "recv", "wait", "send",
          "barrier", "join", "test", "yield", "suspended", "exited"}

Middle == {"app", "recv", "wait", "send"}

\* Who has called MPI_Init, is past the barrier of FG_Init, has entered
\* MPI_Finalize, and has left the barrier in it.
Called(f) == {p \in Proc : f[p] \notin {"none", "new", "spawning"}}
InApp(f) == {p \in Proc : f[p] \notin {"none", "new", "spawning", "init"}}
Ending(f) == {p \in Proc : f[p] \in {"barrier", "join", "suspended", "exited"}}
Ended(f) == {p \in Proc : f[p] \in {"join", "suspended", "exited"}}

\* Only the main coroutine spawns and joins, and only the progress thread runs the
\* progress loop.
Places ==
    /\ pc[0] \notin {"none", "init", "test", "yield"}
    /\ \A p \in Proc \ {0} : pc[p] \notin {"spawning", "join", "suspended", "test", "yield"}
    /\ pc[PT] \in {"none", "test", "yield", "exited"}

\* Every coroutine is in one place; when main has returned, nothing runs.
Placed ==
    /\ Layout(runlist, blocked, IF pc[0] = "exited" THEN {} ELSE {current}, pc)
    /\ current \in Co

\* FGP_inits counts the callers of MPI_Init, if main is not alone.  While main is in FG_Spawn_threads
\* nobody is past FG_Init and the progress thread neither exists nor was asked for;
\* once main has left, everybody has called MPI_Init.
Beginning ==
    /\ N > 1 => inits = Cardinality(Called(pc))
    /\ InApp(pc) # {} => pc[0] \notin {"new", "spawning"}
    /\ pc[0] \notin {"new", "spawning"} =>
          Called(pc) = Proc /\ (N > 1 /\ sched = "block" => pc[PT] # "none")
    /\ pc[0] = "new" => ~ptRunning /\ \A c \in Co \ {0} : pc[c] = "none"
    /\ pc[0] = "spawning" =>
          N > 1 /\ init_state = "POST_INIT" /\ pc[PT] = "none" /\ ~ptRunning

\* The progress thread is in the block list only until it is first started, and
\* it has been started as soon as a process blocks.
Blocking ==
    /\ PT \in blocked => ~ptRunning
    /\ blocked \cap Proc # {} => N > 1 /\ sched = "block" /\ ptRunning
    /\ NoLostWakeup

\* FGP_finalizations counts those who left the barrier of MPI_Finalize.  Nobody
\* leaves before everybody has entered, and the progress thread ends, and main
\* returns, only after everybody has left.
Finishing ==
    /\ finalizing = Ending(pc)
    /\ finalizations = Cardinality(Ended(pc))
    /\ Ended(pc) # {} => Ending(pc) = Proc
    /\ pc[PT] = "exited" => Ended(pc) = Proc
    /\ pc[0] = "exited" => /\ current = 0 /\ pc[PT] \in {"none", "exited"}
                           /\ Ended(pc) = Proc

\* The inductive invariant.
IInv == TypeOK /\ Places /\ Placed /\ Beginning /\ Blocking /\ Finishing

\* The main coroutine, the progress thread, the network and NULL are different.
LEMMA Distinct ==
  /\ 0 \in Proc /\ PT # 0 /\ PT \in Co /\ 0 \in Co /\ PT \notin Proc
  /\ Proc \subseteq Co /\ NULL \notin Co /\ Net # NULL /\ Net \notin Proc /\ NULL \notin Proc
  BY LifecycleAssumption DEF Proc, Co

\* A process that was spawned: main is not alone.
LEMMA NotAlone == Proc \ {0} # {} => N > 1
  BY LifecycleAssumption DEF Proc

\* Counting sets of processes: FGP_inits = numfgps and FGP_finalizations = numfgps
\* say that all are in, and FGP_inits >= numfgps - 1 that all but main are.
ProcCount ==
  /\ IsFiniteSet(Proc) /\ Cardinality(Proc) = N /\ N \in Nat
  /\ \A S \in SUBSET Proc :
       /\ IsFiniteSet(S) /\ Cardinality(S) \in 0 .. N
       /\ Cardinality(S) >= N => S = Proc
       /\ \A p \in Proc \ S : Cardinality(S \cup {p}) = Cardinality(S) + 1
       /\ 0 \notin S /\ Cardinality(S) >= N - 1 => S = Proc \ {0}

\* A set of ranks that is not empty has a least one.
Least == \A T \in SUBSET Nat : T # {} => \E i \in T : \A j \in T : i <= j

\* ProcCount and Least hold in every model: ProcCounted and LeastExists prove them
\* from the library.  Its theorems come in only there, at the end of the module,
\* as they would be a burden on every proof after them; so the lemmas that count
\* take the two as assumptions, which NextIInv and InitIInv pass on.
Counting == ProcCount /\ Least /\ Cardinality({}) = 0

\* FG_Finalize joins a process that has not ended while there is one, and then the
\* progress thread.
LEMMA JoinTargetIs ==
  ASSUME Counting
  PROVE  /\ (\A i \in Proc \ {0} : pc[i] = "exited") => JoinTarget = PT
         /\ (\E i \in Proc \ {0} : pc[i] # "exited") =>
               JoinTarget \in Proc \ {0} /\ pc[JoinTarget] # "exited"
  <1> DEFINE T == {i \in 1 .. N - 1 : pc[i] # "exited"}
  <1>1. 1 .. N - 1 = Proc \ {0}
    BY LifecycleAssumption DEF Proc
  <1>2. JoinTarget = IF T = {} THEN PT ELSE CHOOSE i \in T : \A j \in T : i <= j
    BY DEF JoinTarget
  <1>3. T \in SUBSET Nat
    BY LifecycleAssumption
  <1>4. T # {} => JoinTarget \in T
    <2> HIDE DEF T
    <2>1. QED
      BY <1>2, <1>3, Zenon DEF Counting, Least
  <1>5. QED
    BY <1>1, <1>2, <1>4, Zenon

\* A process that moves about in the application disturbs neither the start nor
\* the end of the run.
LEMMA MiddleKeeps ==
  ASSUME IInv, NEW p \in Proc, pc[p] \in Middle, pc' \in [Co -> Where], pc'[p] \in Middle,
         \A c \in Co \ {p} : pc'[c] = pc[c],
         UNCHANGED <<sched, init_state, inits, finalizing, finalizations>>
  PROVE  Places' /\ Beginning' /\ Finishing' /\ pc[0] # "exited" /\ pc'[0] # "exited"
  <1> USE Distinct
  <1>1. /\ Called(pc') = Called(pc) /\ InApp(pc') = InApp(pc)
        /\ Ending(pc') = Ending(pc) /\ Ended(pc') = Ended(pc)
    BY DEF Called, InApp, Ending, Ended, Middle
  <1>2. p \in InApp(pc) /\ p \notin Ended(pc)
    BY DEF InApp, Ended, Middle
  <1>3. pc[0] \notin {"new", "spawning", "exited"}
    BY <1>2 DEF IInv, Beginning, Finishing
  <1>4. pc'[0] \notin {"new", "spawning", "exited"} /\ pc'[PT] = pc[PT]
    BY <1>3 DEF Middle
  <1>5. Places'
    BY DEF IInv, Places, Middle
  <1>6. Beginning'
    BY <1>1, <1>3, <1>4 DEF IInv, Beginning
  <1>7. Finishing'
    BY <1>1, <1>3, <1>4 DEF IInv, Finishing
  <1>8. QED
    BY <1>3, <1>4, <1>5, <1>6, <1>7

\* Nor does the progress thread in its loop.
LEMMA ProgressKeeps ==
  ASSUME IInv, pc[PT] \in {"test", "yield"}, pc' \in [Co -> Where],
         pc'[PT] \in {"test", "yield"}, \A c \in Proc : pc'[c] = pc[c],
         UNCHANGED <<sched, init_state, inits, finalizing, finalizations>>
  PROVE  Places' /\ Beginning' /\ Finishing' /\ pc[0] # "exited" /\ pc'[0] # "exited"
  <1> USE Distinct
  <1>1. /\ Called(pc') = Called(pc) /\ InApp(pc') = InApp(pc)
        /\ Ending(pc') = Ending(pc) /\ Ended(pc') = Ended(pc)
    BY DEF Called, InApp, Ending, Ended
  <1>2. pc[0] \notin {"new", "spawning", "exited"}
    BY DEF IInv, Beginning, Finishing
  <1>3. pc'[0] = pc[0]
    OBVIOUS
  <1>4. Places'
    BY DEF IInv, Places
  <1>5. Beginning'
    BY <1>1, <1>2, <1>3 DEF IInv, Beginning
  <1>6. Finishing'
    BY <1>1, <1>2, <1>3 DEF IInv, Finishing
  <1>7. QED
    BY <1>2, <1>3, <1>4, <1>5, <1>6

\* One pass over the receive queue completes at most one receive, and that process
\* is woken: whoever is still blocked afterwards has the receive it had.
LEMMA PolledFacts ==
  ASSUME TypeOK, NEW C, NEW f, Layout(runlist, blocked, C, f)
  PROVE  /\ Polled.posted \in [Proc -> Proc \cup {Net, NULL}]
         /\ Polled.sent \subseteq (Proc \cup {Net}) \X Proc
         /\ Polled.arrived \in Seq(Proc) /\ Polled.count \in Nat
         /\ Layout(Polled.rl, Polled.bl, C, f) /\ Polled.bl \subseteq blocked
         /\ \A x \in Polled.bl \cap Proc : Polled.posted[x] = posted[x]
  <1>1. CASE arrived = <<>>
    BY <1>1, Zenon DEF Polled, TypeOK
  <1>2. CASE arrived # <<>>
    <2> DEFINE d == Head(arrived)
    <2>1. d \in Proc /\ Tail(arrived) \in Seq(Proc)
      BY <1>2, HeadTaken DEF TypeOK
    <2>2. /\ posted \in [Proc -> Proc \cup {Net, NULL}] /\ count \in Nat
          /\ sent \subseteq (Proc \cup {Net}) \X Proc
      BY DEF TypeOK
    <2> HIDE DEF d
    <2>3. Layout(Notified(d), NotifiedBlocked(d), C, f)
      BY Notifies
    <2>4. CASE posted[d] = Net
      <3>1. /\ Polled.posted = [posted EXCEPT ![d] = NULL] /\ Polled.sent = sent
            /\ Polled.arrived = Tail(arrived) /\ Polled.count = count + 1
            /\ Polled.rl = Notified(d) /\ Polled.bl = NotifiedBlocked(d)
        BY <1>2, <2>4, Zenon DEF Polled, d
      <3>2. NotifiedBlocked(d) = blocked \ {d}
        BY DEF NotifiedBlocked
      <3>3. QED
        BY <2>1, <2>2, <2>3, <3>1, <3>2
    <2>5. CASE posted[d] # Net
      <3>1. /\ Polled.posted = posted /\ Polled.sent = sent \cup {<<Net, d>>}
            /\ Polled.arrived = Tail(arrived) /\ Polled.count = count
            /\ Polled.rl = runlist /\ Polled.bl = blocked
        BY <1>2, <2>5, Zenon DEF Polled, d
      <3>2. QED
        BY <2>1, <2>2, <3>1
    <2>6. QED
      BY <2>4, <2>5
  <1>3. QED
    BY <1>1, <1>2

\* What most steps use of IInv: while somebody runs, every coroutine is placed.
LEMMA IInvParts ==
  ASSUME IInv
  PROVE  /\ pc \in [Co -> Where] /\ ptRunning \in BOOLEAN /\ current \in Co
         /\ (PT \in blocked => ~ptRunning) /\ blocked \subseteq Co
         /\ pc[0] # "exited" => Layout(runlist, blocked, {current}, pc)
         /\ \A c \in Co : c = current /\ pc[c] \notin Idle => pc[0] # "exited"
  <1> USE Distinct
  <1>1. /\ pc \in [Co -> Where] /\ ptRunning \in BOOLEAN /\ current \in Co
        /\ (PT \in blocked => ~ptRunning) /\ blocked \subseteq Co
        /\ pc[0] # "exited" => Layout(runlist, blocked, {current}, pc)
    BY DEF IInv, TypeOK, Placed, Blocking, Where
  <1>2. ASSUME pc[0] = "exited", pc[current] \notin Idle PROVE FALSE
    BY <1>2 DEF IInv, Finishing, Idle
  <1>3. QED
    BY <1>1, <1>2

\* A step in the application preserves IInv if it keeps the lists in order and
\* blocks nobody without a receive and a progress thread.
LEMMA MiddleIInv ==
  ASSUME IInv, NEW p \in Proc, pc[p] \in Middle, pc' \in [Co -> Where], pc'[p] \in Middle,
         \A c \in Co \ {p} : pc'[c] = pc[c],
         UNCHANGED <<sched, init_state, inits, finalizing, finalizations>>,
         TypeOK', Layout(runlist', blocked', {current'}, pc), current' \in Co, Blocking'
  PROVE  IInv'
  <1> USE Distinct
  <1>1. Places' /\ Beginning' /\ Finishing' /\ pc'[0] # "exited"
    BY MiddleKeeps
  <1>2. \A c \in Co : pc'[c] \in Idle <=> pc[c] \in Idle
    BY DEF Middle, Idle
  <1>3. Layout(runlist', blocked', {current'}, pc')
    BY <1>2, LayoutSame
  <1>4. Placed'
    BY <1>1, <1>3 DEF Placed
  <1>5. QED
    BY <1>1, <1>4 DEF IInv

\* MPI_Send to a collocated process: a completed receive's owner is woken.
LEMMA MPI_SendIInv ==
  ASSUME IInv, NEW p \in Proc, NEW q \in Proc, MPI_Send(p, q)
  PROVE  IInv'
  <1> USE Distinct
  <1>1. current = p /\ pc[p] = "app" /\ pc[p] \in Middle /\ pc[p] \notin Idle
    BY DEF MPI_Send, Calls, At, Middle, Idle
  <1>2. Layout(runlist, blocked, {p}, pc) /\ pc \in [Co -> Where] /\ p \notin blocked
    BY <1>1, IInvParts DEF Layout
  <1>3. UNCHANGED <<sched, init_state, inits, finalizing, finalizations, current, ptRunning>>
    BY DEF MPI_Send, start, ends
  <1>4. CASE posted[q] = p
    <2>1. /\ posted' = [posted EXCEPT ![q] = NULL] /\ count' = count + 1 /\ pc' = pc
          /\ runlist' = Notified(q) /\ blocked' = NotifiedBlocked(q) /\ sent' = sent
      BY <1>4 DEF MPI_Send
    <2>2. blocked' = blocked \ {q}
      BY <2>1 DEF NotifiedBlocked
    <2>3. Layout(runlist', blocked', {current'}, pc)
      BY <1>1, <1>2, <1>3, <2>1, Notifies
    <2>4. TypeOK'
      <3>1. posted' \in [Proc -> Proc \cup {Net, NULL}] /\ count' \in Nat /\ sent' = sent
        BY <2>1 DEF IInv, TypeOK
      <3>2. UNCHANGED <<start, ends, arrived, coming, seen, yields>>
        BY Zenon DEF MPI_Send
      <3>3. QED
        BY <1>3, <2>1, <2>3, <3>1, <3>2 DEF IInv, TypeOK, start, ends, Layout
    <2>5. Blocking'
      BY <1>3, <2>1, <2>2 DEF IInv, TypeOK, Blocking, NoLostWakeup
    <2>6. QED
      BY <1>1, <1>2, <1>3, <2>1, <2>3, <2>4, <2>5, MiddleIInv, Zenon
  <1>5. CASE posted[q] # p
    <2>1. /\ sent' = sent \cup {<<p, q>>} /\ pc' = [pc EXCEPT ![p] = "send"]
          /\ UNCHANGED <<posted, count, runlist, blocked>>
      BY <1>5 DEF MPI_Send, Goto
    <2>2. pc' \in [Co -> Where] /\ pc'[p] \in Middle /\ \A c \in Co \ {p} : pc'[c] = pc[c]
      BY <1>2, <2>1 DEF Where, Middle
    <2>3. Layout(runlist', blocked', {current'}, pc)
      BY <1>1, <1>2, <1>3, <2>1
    <2>4. TypeOK'
      BY <1>3, <2>1, <2>2 DEF IInv, TypeOK, MPI_Send, start, ends, Where
    <2>5. Blocking'
      BY <1>2, <1>3, <2>1, <2>2 DEF IInv, Blocking, NoLostWakeup
    <2>6. QED
      BY <1>1, <1>2, <1>3, <2>2, <2>3, <2>4, <2>5, MiddleIInv
  <1>6. QED
    BY <1>4, <1>5

\* The sender waits until its message is taken: it yields and never blocks.
LEMMA WaitSendIInv ==
  ASSUME IInv, NEW p \in Proc, MPIR_Progress_wait_send_request(p)
  PROVE  IInv'
  <1> USE Distinct
  <1>1. current = p /\ pc[p] = "send" /\ pc[p] \in Middle /\ pc[p] \notin Idle
    BY DEF MPIR_Progress_wait_send_request, At, Middle, Idle
  <1>2. Layout(runlist, blocked, {p}, pc) /\ pc \in [Co -> Where] /\ p \notin blocked
    BY <1>1, IInvParts DEF Layout
  <1>3. UNCHANGED <<sched, blocked, ptRunning, start, messages, ends>>
    BY DEF MPIR_Progress_wait_send_request
  <1>4. /\ pc' \in [Co -> Where] /\ pc'[p] \in Middle /\ \A c \in Co \ {p} : pc'[c] = pc[c]
        /\ Layout(runlist', blocked, {current'}, pc) /\ current' \in Co
    <2>1. CASE FG_yield(p, runlist) /\ UNCHANGED pc
      BY <1>1, <1>2, <2>1, Yielded
    <2>2. CASE Goto(p, "app") /\ UNCHANGED <<runlist, current>>
      <3>1. pc' = [pc EXCEPT ![p] = "app"]
        BY <2>2 DEF Goto
      <3>2. pc' \in [Co -> Where] /\ pc'[p] \in Middle /\ \A c \in Co \ {p} : pc'[c] = pc[c]
        BY <1>2, <3>1 DEF Where, Middle
      <3>3. QED
        BY <1>1, <1>2, <2>2, <3>2
    <2>3. QED
      BY <2>1, <2>2 DEF MPIR_Progress_wait_send_request
  <1>5. TypeOK'
    BY <1>3, <1>4 DEF IInv, TypeOK, start, messages, ends, Layout, Where
  <1>6. Blocking'
    BY <1>2, <1>3, <1>4 DEF IInv, Blocking, NoLostWakeup, messages
  <1>7. QED
    BY <1>1, <1>3, <1>4, <1>5, <1>6, MiddleIInv DEF start, ends

\* MPI_Recv: nobody is blocked whose receive it could overwrite.
LEMMA MPI_RecvIInv ==
  ASSUME IInv, NEW p \in Proc, NEW s \in Proc \cup {Net}, MPI_Recv(p, s)
  PROVE  IInv'
  <1> USE Distinct
  <1>1. current = p /\ pc[p] = "app" /\ pc[p] \in Middle /\ pc[p] \notin Idle
    BY DEF MPI_Recv, Calls, At, Middle, Idle
  <1>2. Layout(runlist, blocked, {p}, pc) /\ pc \in [Co -> Where] /\ p \notin blocked
    BY <1>1, IInvParts DEF Layout
  <1>3. UNCHANGED <<coroutines, start, ends, arrived, coming>>
    BY DEF MPI_Recv
  <1>4. /\ pc' \in [Co -> Where] /\ pc'[p] \in Middle /\ \A c \in Co \ {p} : pc'[c] = pc[c]
        /\ Layout(runlist', blocked', {current'}, pc) /\ current' \in Co
    <2>1. pc' = pc \/ pc' = [pc EXCEPT ![p] = "recv"]
      BY DEF MPI_Recv, Goto
    <2>2. pc' \in [Co -> Where] /\ pc'[p] \in Middle /\ \A c \in Co \ {p} : pc'[c] = pc[c]
      BY <1>1, <1>2, <2>1 DEF Where, Middle
    <2>3. QED
      BY <1>1, <1>2, <1>3, <2>2 DEF coroutines
  <1>5. /\ posted' \in [Proc -> Proc \cup {Net, NULL}] /\ count' \in Nat
        /\ sent' \subseteq (Proc \cup {Net}) \X Proc /\ seen' \in [Proc -> Nat]
        /\ yields' \in [Proc -> 0 .. MaxColocatedYields]
        /\ \A x \in Proc \ {p} : posted'[x] = posted[x]
    <2>1. /\ posted \in [Proc -> Proc \cup {Net, NULL}] /\ count \in Nat
          /\ sent \subseteq (Proc \cup {Net}) \X Proc /\ seen \in [Proc -> Nat]
          /\ yields \in [Proc -> 0 .. MaxColocatedYields] /\ MaxColocatedYields \in Nat
      BY LifecycleAssumption DEF IInv, TypeOK
    <2>2. CASE <<s, p>> \in sent
      BY <2>1, <2>2 DEF MPI_Recv
    <2>3. CASE <<s, p>> \notin sent
      <3>1. /\ posted' = [posted EXCEPT ![p] = s] /\ seen' = [seen EXCEPT ![p] = count]
            /\ yields' = [yields EXCEPT ![p] = 0] /\ sent' = sent /\ count' = count
        BY <2>3 DEF MPI_Recv
      <3>2. QED
        BY <2>1, <3>1
    <2>4. QED
      BY <2>2, <2>3
  <1>6. TypeOK'
    BY <1>3, <1>4, <1>5, Zenon DEF IInv, TypeOK, coroutines, start, ends, Layout, Where
  <1>7. Blocking'
    BY <1>2, <1>3, <1>4, <1>5 DEF IInv, Blocking, NoLostWakeup, coroutines
  <1>8. QED
    BY <1>1, <1>3, <1>4, <1>6, <1>7, MiddleIInv DEF coroutines, start, ends

\* The loop of MPI_Recv blocks only with the receive still pending.
LEMMA RecvLoopIInv ==
  ASSUME IInv, NEW p \in Proc, RecvLoop(p)
  PROVE  IInv'
  <1> USE Distinct
  <1>1. current = p /\ pc[p] = "recv" /\ pc[p] \in Middle /\ pc[p] \notin Idle
    BY DEF RecvLoop, At, Middle, Idle
  <1>2. Layout(runlist, blocked, {p}, pc) /\ pc \in [Co -> Where] /\ p \notin blocked
    BY <1>1, IInvParts DEF Layout
  <1>3. UNCHANGED <<start, ends, posted, sent, arrived, coming, count, seen, sched>>
    BY DEF RecvLoop, coroutines
  <1>4. CASE posted[p] \in Proc /\ yields[p] < MaxColocatedYields
    <2>1. /\ yields' = [yields EXCEPT ![p] = @ + 1] /\ pc' = pc
          /\ FG_yield_on_event(p, runlist, blocked) /\ posted[p] # NULL
      BY <1>4 DEF RecvLoop
    <2>2. /\ Layout(runlist', blocked', {current'}, pc) /\ current' \in Co
          /\ ptRunning' \in BOOLEAN /\ (PT \in blocked' => ~ptRunning')
          /\ blocked' \subseteq blocked \cup {p}
          /\ p \in blocked' => N > 1 /\ sched = "block" /\ ptRunning'
          /\ ptRunning => ptRunning'
      BY <1>1, <1>2, <2>1, IInvParts, Blocks
    <2>3. yields' \in [Proc -> 0 .. MaxColocatedYields]
      BY <1>4, <2>1, LifecycleAssumption DEF IInv, TypeOK
    <2>4. TypeOK'
      BY <1>3, <2>1, <2>2, <2>3 DEF IInv, TypeOK, start, ends, Layout
    <2>5. Blocking'
      BY <1>1, <1>3, <2>1, <2>2, Zenon DEF IInv, Blocking, NoLostWakeup
    <2>6. QED
      BY <1>1, <1>2, <1>3, <2>1, <2>2, <2>4, <2>5, MiddleIInv DEF start, ends
  <1>5. CASE ~(posted[p] \in Proc /\ yields[p] < MaxColocatedYields)
    <2>1. /\ UNCHANGED <<coroutines, yields>>
          /\ pc' = [pc EXCEPT ![p] = "app"] \/ pc' = [pc EXCEPT ![p] = "wait"]
      BY <1>5 DEF RecvLoop, Goto
    <2>2. pc' \in [Co -> Where] /\ pc'[p] \in Middle /\ \A c \in Co \ {p} : pc'[c] = pc[c]
      BY <1>2, <2>1 DEF Where, Middle
    <2>3. Layout(runlist', blocked', {current'}, pc) /\ current' \in Co
      BY <1>1, <1>2, <2>1 DEF coroutines
    <2>4. TypeOK'
      BY <1>3, <2>1, <2>2 DEF IInv, TypeOK, coroutines, start, ends, Where
    <2>5. Blocking'
      BY <1>2, <1>3, <2>1, <2>2, Zenon DEF IInv, Blocking, NoLostWakeup, coroutines
    <2>6. QED
      BY <1>1, <1>3, <2>1, <2>2, <2>3, <2>4, <2>5, MiddleIInv DEF coroutines, start, ends
  <1>6. QED
    BY <1>4, <1>5

\* MPIDI_CH3I_Progress, blocking: the receive is tested after the poll and before
\* the block, with no switch in between, so no completion is missed.
LEMMA ProgressWaitIInv ==
  ASSUME IInv, NEW p \in Proc, MPID_Progress_wait(p)
  PROVE  IInv'
  <1> USE Distinct
  <1>1. current = p /\ pc[p] = "wait" /\ pc[p] \in Middle /\ pc[p] \notin Idle
    BY DEF MPID_Progress_wait, At, Middle, Idle
  <1>2. Layout(runlist, blocked, {p}, pc) /\ pc \in [Co -> Where] /\ p \notin blocked
    BY <1>1, IInvParts DEF Layout
  <1>3. UNCHANGED <<sched, start, ends, coming, yields>>
    BY DEF MPID_Progress_wait
  <1>4. /\ Polled.posted \in [Proc -> Proc \cup {Net, NULL}]
        /\ Polled.sent \subseteq (Proc \cup {Net}) \X Proc
        /\ Polled.arrived \in Seq(Proc) /\ Polled.count \in Nat
        /\ Layout(Polled.rl, Polled.bl, {p}, pc) /\ Polled.bl \subseteq blocked
        /\ \A x \in Polled.bl \cap Proc : Polled.posted[x] = posted[x]
    BY <1>2, PolledFacts DEF IInv
  <1> DEFINE b == Polled.bl
             r == Polled.rl
  <1>5. /\ posted' = Polled.posted /\ sent' = Polled.sent /\ arrived' = Polled.arrived
        /\ count' = Polled.count
    BY DEF MPID_Progress_wait, Poll
  <1>6. seen' \in [Proc -> Nat]
    BY <1>4 DEF MPID_Progress_wait, IInv, TypeOK
  <1>7. /\ pc' \in [Co -> Where] /\ pc'[p] \in Middle /\ \A c \in Co \ {p} : pc'[c] = pc[c]
        /\ Layout(runlist', blocked', {current'}, pc) /\ current' \in Co
        /\ ptRunning' \in BOOLEAN /\ (PT \in blocked' => ~ptRunning')
        /\ blocked' \subseteq b \cup {p} /\ (ptRunning => ptRunning')
        /\ p \in blocked' => /\ N > 1 /\ sched = "block" /\ ptRunning'
                             /\ pc'[p] = "recv" /\ posted'[p] # NULL
    <2>0. /\ ptRunning \in BOOLEAN /\ (PT \in blocked => ~ptRunning) /\ p \notin b
          /\ (PT \in b => ~ptRunning)
      BY <1>2, <1>4, IInvParts
    <2>1. CASE FG_yield(p, r) /\ blocked' = b /\ UNCHANGED <<ptRunning, pc>>
      <3>1. Layout(runlist', b, {current'}, pc) /\ current' \in Co
        BY <1>1, <1>4, <2>1, Yielded
      <3> HIDE DEF b, r
      <3>2. QED
        BY <1>1, <1>2, <2>0, <2>1, <3>1
    <2>2. CASE Stay(r) /\ blocked' = b /\ Goto(p, "app") /\ UNCHANGED ptRunning
      <3>1. pc' \in [Co -> Where] /\ pc'[p] \in Middle /\ \A c \in Co \ {p} : pc'[c] = pc[c]
        BY <1>2, <2>2 DEF Where, Middle, Goto
      <3>2. Layout(runlist', b, {current'}, pc) /\ current' \in Co
        BY <1>1, <1>4, <2>2 DEF Stay
      <3> HIDE DEF b, r
      <3>3. QED
        BY <2>0, <2>2, <3>1, <3>2
    <2>3. CASE FG_yield_on_event(p, r, b) /\ Goto(p, "recv") /\ Polled.posted[p] # NULL
      <3>1. /\ pc' \in [Co -> Where] /\ pc'[p] \in Middle /\ pc'[p] = "recv"
            /\ \A c \in Co \ {p} : pc'[c] = pc[c]
        BY <1>2, <2>3 DEF Where, Middle, Goto
      <3>2. /\ Layout(runlist', blocked', {current'}, pc) /\ current' \in Co
            /\ ptRunning' \in BOOLEAN /\ (PT \in blocked' => ~ptRunning')
            /\ blocked' \subseteq b \cup {p}
            /\ p \in blocked' => N > 1 /\ sched = "block" /\ ptRunning'
            /\ ptRunning => ptRunning'
        <4> HIDE DEF b, r
        <4>1. Layout(r, b, {p}, pc)
          BY <1>4 DEF b, r
        <4>2. QED
          BY <1>1, <2>0, <2>3, <4>1, Blocks
      <3> HIDE DEF b, r
      <3>3. QED
        BY <1>5, <2>3, <3>1, <3>2
    <2>4. QED
      BY <2>1, <2>2, <2>3, Zenon DEF MPID_Progress_wait
  <1>8. TypeOK'
    BY <1>3, <1>4, <1>5, <1>6, <1>7, Zenon DEF IInv, TypeOK, start, ends, Layout, Where
  <1>9. Blocking'
    <2>1. blocked' \subseteq blocked \cup {p}
      BY <1>4, <1>7
    <2>2. \A x \in (blocked' \cap Proc) \ {p} : pc'[x] = "recv" /\ posted'[x] # NULL
      BY <1>4, <1>5, <1>7 DEF IInv, Blocking, NoLostWakeup
    <2>3. blocked' \cap Proc # {} => N > 1 /\ sched' = "block" /\ ptRunning'
      BY <1>3, <1>7, <2>1 DEF IInv, Blocking
    <2>4. NoLostWakeup'
      BY <1>7, <2>2 DEF NoLostWakeup
    <2>5. QED
      BY <1>7, <2>3, <2>4 DEF Blocking
  <1>10. QED
    BY <1>1, <1>3, <1>7, <1>8, <1>9, MiddleIInv, Zenon DEF start, ends

\* A step of the progress thread preserves IInv if it keeps the lists in order and
\* completes no receive of a process it leaves blocked.
LEMMA ProgressIInv ==
  ASSUME IInv, pc[PT] \in {"test", "yield"}, pc' \in [Co -> Where],
         pc'[PT] \in {"test", "yield"}, \A c \in Proc : pc'[c] = pc[c],
         UNCHANGED <<sched, init_state, inits, finalizing, finalizations, ptRunning>>,
         TypeOK', Layout(runlist', blocked', {current'}, pc), current' \in Co,
         blocked' \subseteq blocked, \A x \in blocked' \cap Proc : posted'[x] = posted[x]
  PROVE  IInv'
  <1> USE Distinct
  <1>1. Places' /\ Beginning' /\ Finishing' /\ pc'[0] # "exited"
    BY ProgressKeeps
  <1>2. \A c \in Co : pc'[c] \in Idle <=> pc[c] \in Idle
    BY DEF Idle, Co
  <1>3. Layout(runlist', blocked', {current'}, pc')
    BY <1>2, LayoutSame
  <1>4. Placed'
    BY <1>1, <1>3 DEF Placed
  <1>5. Blocking'
    BY DEF IInv, Blocking, NoLostWakeup
  <1>6. QED
    BY <1>1, <1>4, <1>5 DEF IInv

\* The yield of FG_Scheduler_progress_loop.
LEMMA ProgressYieldIInv == IInv /\ ProgressYield => IInv'
  <1> SUFFICES ASSUME IInv, ProgressYield PROVE IInv'
    OBVIOUS
  <1> USE Distinct
  <1>1. current = PT /\ pc[PT] = "yield" /\ pc[PT] \notin Idle
    BY DEF ProgressYield, At, Idle
  <1>2. Layout(runlist, blocked, {PT}, pc) /\ pc \in [Co -> Where]
    BY <1>1, IInvParts
  <1>3. UNCHANGED <<sched, blocked, ptRunning, start, messages, ends>>
    BY DEF ProgressYield
  <1>4. pc' \in [Co -> Where] /\ pc'[PT] = "test" /\ \A c \in Proc : pc'[c] = pc[c]
    BY <1>2 DEF ProgressYield, Goto, Where
  <1>5. Layout(runlist', blocked, {current'}, pc) /\ current' \in Co
    BY <1>1, <1>2, Yielded DEF ProgressYield
  <1>6. TypeOK'
    BY <1>3, <1>4, <1>5 DEF IInv, TypeOK, start, messages, ends, Layout, Where
  <1>7. QED
    BY <1>1, <1>3, <1>4, <1>5, <1>6, ProgressIInv DEF start, messages, ends

\* thread_exit: if main waits for this coroutine it is queued, and otherwise there
\* is another one, so that the scheduler always finds somebody to run.
LEMMA ExitStep ==
  ASSUME IInv, NEW c \in Co \ {0}, current = c, pc[c] \notin Idle, Exit(c),
         UNCHANGED blocked,
         \/ pc[0] = "suspended" /\ JoinTarget = c
         \/ \E d \in Co \ {c} : pc[d] \notin Idle /\ d \notin blocked
  PROVE  /\ Layout(runlist', blocked', {current'}, pc') /\ current' \in Co
         /\ pc' \in [Co -> Where] /\ pc'[c] = "exited"
         /\ pc[0] # "exited" /\ pc'[0] # "exited"
         /\ \A d \in Co \ {0, c} : pc'[d] = pc[d]
         /\ pc'[0] = IF pc[0] = "suspended" /\ JoinTarget = c THEN "join" ELSE pc[0]
  <1> USE Distinct
  <1>1. Layout(runlist, blocked, {c}, pc) /\ pc \in [Co -> Where] /\ pc[0] # "exited"
    BY IInvParts
  <1>2. /\ pc' \in [Co -> Where] /\ pc'[c] = "exited"
        /\ \A d \in Co \ {0, c} : pc'[d] = pc[d]
        /\ pc'[0] = IF pc[0] = "suspended" /\ JoinTarget = c THEN "join" ELSE pc[0]
    BY <1>1 DEF Exit, Where
  <1> DEFINE f == [pc EXCEPT ![c] = "exited"]
  <1>3. f[c] \in Idle /\ \A d \in Co \ {c} : f[d] = pc[d]
    BY <1>1 DEF Idle
  <1> HIDE DEF f
  <1>4. Layout(runlist, blocked, {}, f)
    BY <1>1, <1>3, LayoutStop
  <1>5. CASE pc[0] = "suspended" /\ JoinTarget = c
    <2>1. Switch(Append(runlist, 0))
      BY <1>5 DEF Exit
    <2>2. f[0] \in Idle /\ pc'[0] \notin Idle /\ \A d \in Co \ {0} : pc'[d] = f[d]
      BY <1>2, <1>3, <1>5 DEF Idle, f
    <2>3. Layout(Append(runlist, 0), blocked, {}, pc') /\ Append(runlist, 0) # <<>>
      BY <1>4, <2>2, LayoutResume
    <2>4. Layout(runlist', blocked, {current'}, pc') /\ current' \in Co
      BY <2>1, <2>3, Switched, Zenon
    <2>5. QED
      BY <1>1, <1>2, <1>5, <2>4
  <1>6. CASE ~(pc[0] = "suspended" /\ JoinTarget = c)
    <2>1. Switch(runlist)
      BY <1>6 DEF Exit
    <2>2. \A d \in Co : pc'[d] \in Idle <=> f[d] \in Idle
      BY <1>2, <1>3, <1>6 DEF Idle
    <2>3. Layout(runlist, blocked, {}, pc')
      BY <1>4, <2>2, LayoutSame
    <2>4. PICK d \in Co \ {c} : pc[d] \notin Idle /\ d \notin blocked
      BY <1>6
    <2>5. d \in Queued(runlist)
      BY <1>1, <2>4 DEF Layout
    <2>6. runlist # <<>>
      BY <2>5 DEF Queued
    <2>7. Layout(runlist', blocked, {current'}, pc') /\ current' \in Co
      BY <2>1, <2>3, <2>6, Switched
    <2>8. QED
      BY <1>1, <1>2, <1>6, <2>7
  <1>7. QED
    BY <1>5, <1>6

\* FG_Scheduler_progress_loop: the progress thread polls until everybody has left
\* MPI_Finalize, and then exits.
LEMMA ProgressLoopIInv ==
  ASSUME Counting, IInv, FG_Scheduler_progress_loop
  PROVE  IInv'
  <1> USE Distinct
  <1>1. current = PT /\ pc[PT] = "test" /\ pc[PT] \notin Idle
    BY DEF FG_Scheduler_progress_loop, At, Idle
  <1>2. Layout(runlist, blocked, {PT}, pc) /\ pc \in [Co -> Where] /\ pc[0] # "exited"
    BY <1>1, IInvParts
  <1>3. UNCHANGED <<sched, ptRunning, start, ends, coming, seen, yields>>
    BY DEF FG_Scheduler_progress_loop
  <1>4. CASE finalizations < N
    <2>1. /\ Poll /\ blocked' = Polled.bl /\ Goto(PT, "yield")
          /\ FG_yield(PT, Polled.rl) \/ Stay(Polled.rl)
      <3>1. finalizations \in Nat /\ N \in Nat
        BY LifecycleAssumption DEF IInv, TypeOK
      <3>2. QED
        BY <1>4, <3>1 DEF FG_Scheduler_progress_loop
    <2>2. /\ Polled.posted \in [Proc -> Proc \cup {Net, NULL}]
          /\ Polled.sent \subseteq (Proc \cup {Net}) \X Proc
          /\ Polled.arrived \in Seq(Proc) /\ Polled.count \in Nat
          /\ Layout(Polled.rl, Polled.bl, {PT}, pc) /\ Polled.bl \subseteq blocked
          /\ \A x \in Polled.bl \cap Proc : Polled.posted[x] = posted[x]
      BY <1>2, PolledFacts DEF IInv
    <2>3. pc' \in [Co -> Where] /\ pc'[PT] = "yield" /\ \A c \in Proc : pc'[c] = pc[c]
      BY <1>2, <2>1 DEF Goto, Where
    <2>4. Layout(runlist', blocked', {current'}, pc) /\ current' \in Co
      <3>1. CASE FG_yield(PT, Polled.rl)
        BY <1>1, <2>1, <2>2, <3>1, Yielded
      <3>2. CASE Stay(Polled.rl)
        BY <1>1, <2>1, <2>2, <3>2 DEF Stay
      <3>3. QED
        BY <2>1, <3>1, <3>2
    <2>5. TypeOK'
      BY <1>3, <2>1, <2>2, <2>3, <2>4, Zenon DEF IInv, TypeOK, start, ends, Layout, Where, Poll
    <2>6. QED
      BY <1>1, <1>3, <2>1, <2>2, <2>3, <2>4, <2>5, ProgressIInv DEF start, ends, Poll
  <1>5. CASE ~(finalizations < N)
    <2>1. Exit(PT) /\ UNCHANGED <<blocked, posted, sent, arrived, count>>
      BY <1>5 DEF FG_Scheduler_progress_loop
    <2>2. Ended(pc) = Proc
      <3>1. Cardinality(Ended(pc)) >= N /\ Ended(pc) \in SUBSET Proc
        BY <1>5 DEF Counting, ProcCount, IInv, Finishing, TypeOK, Ended
      <3>2. QED
        BY <3>1 DEF Counting, ProcCount
    <2>3. \A p \in Proc : pc[p] \in {"join", "suspended", "exited"} /\ p \notin blocked
      BY <2>2 DEF Ended, IInv, Blocking, NoLostWakeup
    <2>4. \A p \in Proc \ {0} : pc[p] = "exited"
      BY <2>3 DEF IInv, Places
    <2>5. JoinTarget = PT
      BY <2>4, JoinTargetIs
    <2>6. \/ pc[0] = "suspended" /\ JoinTarget = PT
          \/ \E d \in Co \ {PT} : pc[d] \notin Idle /\ d \notin blocked
      BY <1>2, <2>3, <2>5 DEF Idle
    <2>7. /\ Layout(runlist', blocked', {current'}, pc') /\ current' \in Co
          /\ pc' \in [Co -> Where] /\ pc'[PT] = "exited" /\ pc'[0] # "exited"
          /\ \A d \in Co \ {0, PT} : pc'[d] = pc[d]
          /\ pc'[0] = "join"
      <3>1. /\ Layout(runlist', blocked', {current'}, pc') /\ current' \in Co
            /\ pc' \in [Co -> Where] /\ pc'[PT] = "exited" /\ pc'[0] # "exited"
            /\ \A d \in Co \ {0, PT} : pc'[d] = pc[d]
            /\ pc'[0] = IF pc[0] = "suspended" /\ JoinTarget = PT THEN "join" ELSE pc[0]
        BY <1>1, <2>1, <2>6, ExitStep
      <3>2. QED
        BY <1>2, <2>3, <2>5, <3>1
    <2>8. /\ Called(pc') = Called(pc) /\ InApp(pc') = InApp(pc)
          /\ Ending(pc') = Ending(pc) /\ Ended(pc') = Ended(pc)
      BY <2>3, <2>7 DEF Called, InApp, Ending, Ended, Co
    <2>9. TypeOK'
      BY <1>3, <2>1, <2>7 DEF IInv, TypeOK, start, ends, Layout, Where
    <2>10. Placed'
      BY <2>7 DEF Placed
    <2>11. Places'
      BY <2>4, <2>7 DEF Places, Co
    <2>12. Blocking'
      BY <1>3, <2>1, <2>3 DEF IInv, Blocking, NoLostWakeup
    <2>13. Finishing'
      BY <1>3, <2>2, <2>7, <2>8 DEF IInv, Finishing, ends
    <2>14. Beginning'
      BY <1>1, <1>3, <2>3, <2>7, <2>8 DEF IInv, Beginning, start
    <2>15. QED
      BY <2>9, <2>10, <2>11, <2>12, <2>13, <2>14 DEF IInv
  <1>6. QED
    BY <1>4, <1>5

\* A process that leaves the barrier of MPI_Finalize finds everybody in it, so
\* nobody is blocked any more.
LEMMA LeavesBarrier ==
  ASSUME Counting, IInv, NEW p \in Proc, pc[p] = "barrier", finalizing = Proc, pc[0] # "exited",
         pc' \in [Co -> Where], pc'[p] = IF p = 0 THEN "join" ELSE "exited",
         \A c \in Co \ {0, p} : pc'[c] = pc[c],
         p # 0 => pc'[0] = pc[0] \/ (pc[0] = "suspended" /\ pc'[0] = "join"),
         finalizations' = finalizations + 1,
         UNCHANGED <<sched, blocked, ptRunning, posted, init_state, inits, finalizing>>
  PROVE  /\ Places' /\ Beginning' /\ Blocking' /\ Finishing' /\ pc'[0] # "exited"
         /\ finalizations' \in 0 .. N
  <1> USE Distinct
  <1>1. Ending(pc) = Proc /\ p \notin Ended(pc) /\ Ended(pc) \in SUBSET Proc
    BY DEF IInv, Finishing, Ended
  <1>2. /\ Called(pc') = Called(pc) /\ InApp(pc') = InApp(pc)
        /\ Ending(pc') = Ending(pc)
    BY <1>1 DEF Called, InApp, Ending
  <1>3. Ended(pc') = Ended(pc) \cup {p}
    BY <1>1 DEF Ended
  <1>4. finalizations' = Cardinality(Ended(pc')) /\ finalizations' \in 0 .. N
    <2>1. Cardinality(Ended(pc) \cup {p}) = Cardinality(Ended(pc)) + 1
      BY <1>1 DEF Counting, ProcCount
    <2>2. Ended(pc) \cup {p} \in SUBSET Proc
      BY <1>1
    <2>3. Cardinality(Ended(pc) \cup {p}) \in 0 .. N
      BY <2>2 DEF Counting, ProcCount
    <2>4. finalizations = Cardinality(Ended(pc))
      BY DEF IInv, Finishing
    <2>5. QED
      BY <1>3, <2>1, <2>3, <2>4
  <1>5. blocked \cap Proc = {}
    BY <1>1 DEF Ending, IInv, Blocking, NoLostWakeup
  <1>6. pc[0] \notin {"new", "spawning"} /\ pc'[0] \notin {"new", "spawning", "exited"}
    BY <1>1 DEF Ending
  <1>7. pc'[PT] = pc[PT] /\ pc[PT] # "exited"
    BY <1>1 DEF IInv, Finishing
  <1>8. Places'
    BY <1>6, <1>7 DEF IInv, Places
  <1>9. Beginning'
    BY <1>2, <1>6, <1>7 DEF IInv, Beginning
  <1>10. Blocking'
    BY <1>5 DEF IInv, Blocking, NoLostWakeup
  <1>11. Finishing'
    BY <1>1, <1>2, <1>4, <1>6, <1>7 DEF IInv, Finishing
  <1>12. QED
    BY <1>4, <1>6, <1>8, <1>9, <1>10, <1>11

\* MPI_Finalize: entering the barrier, waiting in it and leaving it.
LEMMA MPI_FinalizeIInv ==
  ASSUME Counting, IInv, NEW p \in Proc, MPI_Finalize(p)
  PROVE  IInv'
  <1> USE Distinct
  <1>1. current = p /\ pc[p] \in {"app", "barrier"} /\ pc[p] \notin Idle
    BY DEF MPI_Finalize, Calls, At, Idle
  <1>2. /\ Layout(runlist, blocked, {p}, pc) /\ pc \in [Co -> Where]
        /\ p \notin blocked /\ pc[0] # "exited"
    BY <1>1, IInvParts DEF Layout
  <1>3. UNCHANGED <<sched, blocked, ptRunning, start, messages>>
    BY DEF MPI_Finalize
  <1>4. CASE Calls(p, <<"finalize">>)
    <2>1. /\ finalizing' = finalizing \cup {p} /\ pc' = [pc EXCEPT ![p] = "barrier"]
          /\ UNCHANGED <<runlist, current, finalizations>> /\ pc[p] = "app"
      BY <1>4 DEF MPI_Finalize, Goto, Calls, At
    <2>2. /\ pc' \in [Co -> Where] /\ pc'[p] = "barrier"
          /\ \A c \in Co \ {p} : pc'[c] = pc[c]
      BY <1>2, <2>1 DEF Where
    <2>3. /\ Called(pc') = Called(pc) /\ InApp(pc') = InApp(pc)
          /\ Ending(pc') = Ending(pc) \cup {p} /\ Ended(pc') = Ended(pc)
      BY <2>1, <2>2 DEF Called, InApp, Ending, Ended
    <2>4. p \in InApp(pc) /\ p \notin Ending(pc) /\ p \notin Ended(pc)
      BY <2>1 DEF InApp, Ending, Ended
    <2>5. /\ pc[0] \notin {"new", "spawning", "exited"}
          /\ pc'[0] \notin {"new", "spawning", "exited"} /\ pc'[PT] = pc[PT]
      BY <1>2, <2>2, <2>4 DEF IInv, Beginning
    <2>6. Ended(pc) = {} /\ pc[PT] # "exited"
      BY <2>4 DEF IInv, Finishing
    <2>7. Layout(runlist', blocked', {current'}, pc') /\ current' \in Co
      <3>1. \A c \in Co : pc'[c] \in Idle <=> pc[c] \in Idle
        BY <2>1, <2>2 DEF Idle
      <3>2. QED
        BY <1>1, <1>2, <1>3, <2>1, <3>1, LayoutSame, Zenon
    <2>8. TypeOK'
      BY <1>3, <2>1, <2>2 DEF IInv, TypeOK, start, messages, Where
    <2>9. Places'
      BY <2>2 DEF IInv, Places
    <2>10. Placed'
      BY <2>5, <2>7 DEF Placed
    <2>11. Beginning'
      BY <1>3, <2>3, <2>5 DEF IInv, Beginning, start
    <2>12. Blocking'
      BY <1>2, <1>3, <2>2 DEF IInv, Blocking, NoLostWakeup, messages
    <2>13. Finishing'
      BY <2>1, <2>3, <2>5, <2>6, Zenon DEF IInv, Finishing
    <2>14. QED
      BY <2>8, <2>9, <2>10, <2>11, <2>12, <2>13 DEF IInv
  <1>5. CASE pc[p] = "barrier" /\ finalizing # Proc
    <2>1. FG_yield(p, runlist) /\ UNCHANGED <<finalizing, finalizations, pc>>
      BY <1>5, Zenon DEF MPI_Finalize, Calls, At
    <2>2. Layout(runlist', blocked, {current'}, pc) /\ current' \in Co
      BY <1>1, <1>2, <2>1, Yielded
    <2>3. TypeOK'
      BY <1>3, <2>1, <2>2, Zenon DEF IInv, TypeOK, start, messages, Layout
    <2>4. Placed'
      BY <1>2, <1>3, <2>1, <2>2 DEF Placed
    <2>5. Places' /\ Beginning' /\ Blocking'
      BY <1>3, <2>1 DEF IInv, Places, Beginning, Blocking, NoLostWakeup, start, messages
    <2>6. Finishing'
      BY <1>2, <2>1 DEF IInv, Finishing
    <2>7. QED
      BY <2>3, <2>4, <2>5, <2>6 DEF IInv
  <1>6. CASE pc[p] = "barrier" /\ finalizing = Proc
    <2>1. /\ finalizations' = finalizations + 1 /\ UNCHANGED finalizing
          /\ IF p = 0 THEN Goto(0, "join") /\ UNCHANGED <<runlist, current>> ELSE Exit(p)
      BY <1>6 DEF MPI_Finalize, Calls, At
    <2>2. \A q \in Proc : pc[q] \in {"barrier", "join", "suspended", "exited"}
      BY <1>6 DEF IInv, Finishing, Ending
    <2>3. \A q \in Proc : q \notin blocked
      BY <2>2 DEF IInv, Blocking, NoLostWakeup
    <2>4. /\ pc' \in [Co -> Where] /\ pc'[p] = IF p = 0 THEN "join" ELSE "exited"
          /\ \A c \in Co \ {0, p} : pc'[c] = pc[c]
          /\ p # 0 => pc'[0] = pc[0] \/ (pc[0] = "suspended" /\ pc'[0] = "join")
          /\ Layout(runlist', blocked', {current'}, pc') /\ current' \in Co
      <3>1. CASE p = 0
        <4>1. pc' = [pc EXCEPT ![0] = "join"] /\ UNCHANGED <<runlist, current>>
          BY <2>1, <3>1 DEF Goto
        <4>2. pc' \in [Co -> Where] /\ pc'[0] = "join" /\ \A c \in Co \ {0} : pc'[c] = pc[c]
          BY <1>2, <4>1 DEF Where
        <4>3. \A c \in Co : pc'[c] \in Idle <=> pc[c] \in Idle
          BY <1>6, <3>1, <4>2 DEF Idle
        <4>4. Layout(runlist', blocked', {current'}, pc') /\ current' \in Co
          BY <1>1, <1>2, <1>3, <4>1, <4>3, LayoutSame, Zenon
        <4>5. QED
          BY <3>1, <4>2, <4>4
      <3>2. CASE p # 0
        <4>1. p \in Co \ {0} /\ Exit(p)
          BY <2>1, <3>2
        <4>2. JoinTarget \in Proc \ {0} /\ pc[JoinTarget] # "exited"
          BY <1>6, <3>2, JoinTargetIs
        <4>3. pc[JoinTarget] \notin {"join", "suspended"}
          BY <4>2 DEF IInv, Places
        <4>4. pc[JoinTarget] = "barrier" /\ JoinTarget \notin blocked
          BY <2>2, <2>3, <4>2, <4>3
        <4>5. \/ pc[0] = "suspended" /\ JoinTarget = p
              \/ \E d \in Co \ {p} : pc[d] \notin Idle /\ d \notin blocked
          <5>1. CASE pc[0] # "suspended"
            BY <1>2, <2>2, <2>3, <3>2, <5>1 DEF Idle
          <5>2. CASE JoinTarget # p
            BY <4>2, <4>4, <5>2 DEF Idle
          <5>3. QED
            BY <5>1, <5>2
        <4>6. /\ Layout(runlist', blocked', {current'}, pc') /\ current' \in Co
              /\ pc' \in [Co -> Where] /\ pc'[p] = "exited"
              /\ \A d \in Co \ {0, p} : pc'[d] = pc[d]
              /\ pc'[0] = IF pc[0] = "suspended" /\ JoinTarget = p THEN "join" ELSE pc[0]
          BY <1>1, <1>3, <4>1, <4>5, ExitStep
        <4>7. pc'[0] = pc[0] \/ (pc[0] = "suspended" /\ pc'[0] = "join")
          BY ONLY <4>6
        <4>8. pc'[p] = IF p = 0 THEN "join" ELSE "exited"
          BY ONLY <3>2, <4>6
        <4>9. QED
          BY ONLY <4>6, <4>7, <4>8
      <3>3. QED
        BY <3>1, <3>2
    <2>5. /\ Places' /\ Beginning' /\ Blocking' /\ Finishing' /\ pc'[0] # "exited"
          /\ finalizations' \in 0 .. N
      BY <1>2, <1>3, <1>6, <2>1, <2>4, LeavesBarrier DEF start, messages
    <2>6. TypeOK'
      BY <1>3, <2>1, <2>4, <2>5 DEF IInv, TypeOK, start, messages, Layout, Where
    <2>7. Placed'
      BY <2>4, <2>5 DEF Placed
    <2>8. QED
      BY <2>5, <2>6, <2>7 DEF IInv
  <1>7. QED
    BY <1>4, <1>5, <1>6 DEF MPI_Finalize, At

\* FG_Finalize: whom main joins has not ended, and is queued or is the progress
\* thread that is started now, so the switch away from main finds a coroutine.
LEMMA FG_FinalizeIInv ==
  ASSUME Counting, IInv, FG_Finalize
  PROVE  IInv'
  <1> USE Distinct
  <1>1. current = 0 /\ pc[0] = "join" /\ pc[0] \notin Idle
    BY DEF FG_Finalize, At, Idle
  <1>2. /\ Layout(runlist, blocked, {0}, pc) /\ pc \in [Co -> Where] /\ blocked \subseteq Co
        /\ (PT \in blocked => ~ptRunning) /\ ptRunning \in BOOLEAN
    BY <1>1, IInvParts
  <1>3. UNCHANGED <<sched, start, messages, ends>>
    BY DEF FG_Finalize
  <1>4. Ending(pc) = Proc
    BY <1>1 DEF Ended, IInv, Finishing
  <1>5. \A q \in Proc : q \notin blocked /\ pc[q] \in {"barrier", "join", "suspended", "exited"}
    BY <1>4 DEF Ending, IInv, Blocking, NoLostWakeup
  <1>6. /\ pc' \in [Co -> Where] /\ pc'[0] \in {"suspended", "exited"} /\ pc'[0] \in Idle
        /\ \A c \in Co \ {0} : pc'[c] = pc[c]
    BY <1>2 DEF FG_Finalize, Goto, Where, Idle
  <1>7. /\ Called(pc') = Called(pc) /\ InApp(pc') = InApp(pc)
        /\ Ending(pc') = Ending(pc) /\ Ended(pc') = Ended(pc)
    BY <1>1, <1>6 DEF Called, InApp, Ending, Ended
  <1>8. Layout(runlist, blocked, {}, pc')
    BY <1>2, <1>6, LayoutStop
  <1>9. /\ Places' /\ Beginning'
        /\ finalizing' = Ending(pc') /\ finalizations' = Cardinality(Ended(pc'))
        /\ Ended(pc') # {} => Ending(pc') = Proc
        /\ pc'[PT] = "exited" => Ended(pc') = Proc
    <2>1. Places'
      BY <1>6 DEF IInv, Places
    <2>2. Beginning'
      BY <1>1, <1>3, <1>6, <1>7 DEF IInv, Beginning, start
    <2>3. QED
      BY <1>3, <1>6, <1>7, <2>1, <2>2 DEF IInv, Finishing, ends
  <1>10. CASE pc'[0] = "suspended"
    <2>1. /\ Layout(runlist', blocked', {current'}, pc') /\ current' \in Co
          /\ blocked' \cap Proc = {} /\ ptRunning' \in BOOLEAN
          /\ PT \in blocked' => ~ptRunning'
      <3>1. CASE JoinTarget # PT
        <4>1. Switch(runlist) /\ UNCHANGED <<blocked, ptRunning>>
          BY <3>1 DEF FG_Finalize
        <4>2. JoinTarget \in Proc \ {0} /\ pc[JoinTarget] # "exited"
          BY <3>1, JoinTargetIs
        <4>3. pc[JoinTarget] = "barrier"
          BY <1>5, <4>2 DEF IInv, Places
        <4>4. JoinTarget \in Queued(runlist)
          BY <1>2, <1>5, <4>2, <4>3 DEF Layout, Idle
        <4>5. runlist # <<>>
          BY <4>4 DEF Queued
        <4>6. Layout(runlist', blocked, {current'}, pc') /\ current' \in Co
          BY <1>8, <4>1, <4>5, Switched
        <4>7. QED
          BY <1>2, <1>5, <4>1, <4>6
      <3>2. CASE JoinTarget = PT
        <4>1. /\ pc[PT] \notin {"none", "exited"} /\ ptRunning' = TRUE
              /\ Switch(Started(runlist, blocked)) /\ blocked' = StartedBlocked(blocked)
          BY <1>2, <1>10, <3>2 DEF FG_Finalize, Goto
        <4>2. pc[PT] \notin Idle
          BY <4>1 DEF Idle, IInv, Places
        <4>3. PT \in blocked \/ PT \in Queued(runlist)
          BY <1>2, <4>2 DEF Layout
        <4>4. PT \in blocked \/ runlist # <<>>
          BY <4>3 DEF Queued
        <4>5. /\ Layout(Started(runlist, blocked), StartedBlocked(blocked), {}, pc')
              /\ StartedBlocked(blocked) = blocked \ {PT}
              /\ Started(runlist, blocked) # <<>>
          BY <1>2, <1>8, <4>4, StartedLayout
        <4>6. Layout(runlist', blocked', {current'}, pc') /\ current' \in Co
          BY <4>1, <4>5, Switched
        <4>7. QED
          BY <1>5, <4>1, <4>5, <4>6
      <3>3. QED
        BY <3>1, <3>2
    <2>2. TypeOK'
      BY <1>3, <1>6, <2>1, Zenon DEF IInv, TypeOK, start, messages, ends, Layout, Where
    <2>3. Placed'
      BY <1>10, <2>1 DEF Placed
    <2>4. Blocking'
      BY <2>1 DEF Blocking, NoLostWakeup
    <2>5. Finishing'
      BY <1>9, <1>10 DEF Finishing
    <2>6. QED
      BY <1>9, <2>2, <2>3, <2>4, <2>5 DEF IInv
  <1>11. CASE pc'[0] = "exited"
    <2>1. /\ JoinTarget = PT /\ pc[PT] \in {"none", "exited"}
          /\ UNCHANGED <<runlist, current, blocked, ptRunning>>
      BY <1>2, <1>11 DEF FG_Finalize, Goto
    <2>2. \A q \in Proc \ {0} : pc[q] = "exited"
      BY <2>1, JoinTargetIs
    <2>3. Ended(pc) = Proc
      BY <1>1, <2>2 DEF Ended
    <2>4. Layout(runlist', blocked', {}, pc') /\ current' = 0
      BY <1>1, <1>8, <2>1
    <2>5. TypeOK'
      BY <1>3, <1>6, <2>1 DEF IInv, TypeOK, start, messages, ends, Where
    <2>6. Placed'
      BY <1>11, <2>4 DEF Placed
    <2>7. Blocking'
      BY <1>2, <1>5, <2>1 DEF Blocking, NoLostWakeup
    <2>8. Finishing'
      BY <1>6, <1>7, <1>9, <2>1, <2>3, <2>4 DEF Finishing
    <2>9. QED
      BY <1>9, <2>5, <2>6, <2>7, <2>8 DEF IInv
  <1>12. QED
    BY <1>6, <1>10, <1>11

\* FGmpiexec queues the other processes of the HWP, each once.
LEMMA FGmpiexecIInv ==
  ASSUME Counting, IInv, FGmpiexec
  PROVE  IInv'
  <1> USE Distinct
  <1>1. current = 0 /\ pc[0] = "new" /\ \A c \in Co \ {0} : pc[c] = "none"
    BY DEF FGmpiexec, At, IInv, Beginning
  <1>2. /\ pc' = [c \in Co |-> Spawned(c)]
        /\ runlist' = [i \in 1 .. N - 1 |-> i]
        /\ init_state' = (IF N > 1 THEN "POST_INIT" ELSE "ALL_POST_INIT") /\ spawner' = 1
        /\ UNCHANGED <<sched, blocked, current, ptRunning, inits, twice, messages, ends>>
    BY DEF FGmpiexec
  <1>3. /\ pc' \in [Co -> Where] /\ pc'[PT] = "none"
        /\ pc'[0] = IF N > 1 THEN "spawning" ELSE "app"
        /\ \A p \in Proc \ {0} : pc'[p] = "new"
    <2>1. /\ Spawned(PT) = "none" /\ Spawned(0) = IF N > 1 THEN "spawning" ELSE "app"
          /\ \A p \in Proc \ {0} : Spawned(p) = "new"
      BY DEF Spawned
    <2>2. \A c \in Co : Spawned(c) \in Where
      BY <2>1 DEF Where, Co
    <2>3. QED
      BY <1>2, <2>1, <2>2
  <1>4. blocked = {} /\ Layout(runlist, blocked, {0}, pc)
    BY <1>1, IInvParts DEF Layout, Idle
  <1>5. ~ptRunning
    BY <1>1 DEF IInv, Beginning
  <1>6. /\ Called(pc) = {} /\ InApp(pc) = {} /\ Ending(pc) = {} /\ Ended(pc) = {}
        /\ Ending(pc') = {} /\ Ended(pc') = {}
    BY <1>1, <1>3 DEF Called, InApp, Ending, Ended
  <1>7. /\ runlist' \in Seq(Co) /\ OnceEach(runlist') /\ Queued(runlist') = Proc \ {0}
    <2>1. 1 .. N - 1 = Proc \ {0} /\ N - 1 \in Nat
      BY LifecycleAssumption DEF Proc
    <2>2. runlist' \in Seq(Co)
      BY <1>2, <2>1
    <2>3. DOMAIN runlist' = 1 .. N - 1 /\ \A i \in 1 .. N - 1 : runlist'[i] = i
      BY <1>2
    <2>4. OnceEach(runlist') /\ Queued(runlist') = 1 .. N - 1
      BY <2>3 DEF OnceEach, Queued
    <2>5. QED
      BY <2>1, <2>2, <2>4
  <1>8. {c \in Co : pc'[c] \notin Idle} = Proc
    BY <1>3 DEF Idle, Co
  <1>9. Layout(runlist', blocked', {current'}, pc')
    BY <1>1, <1>2, <1>4, <1>7, <1>8, Zenon DEF Layout
  <1>10. TypeOK'
    <2>1. init_state' \in {"PRE_INIT", "POST_INIT", "ALL_POST_INIT"} /\ spawner' \in 0 .. 2
      BY <1>2
    <2>2. UNCHANGED <<sched, blocked, current, ptRunning, inits, twice, messages, ends>>
      BY <1>2
    <2>3. QED
      BY <1>3, <1>7, <2>1, <2>2, Zenon DEF IInv, TypeOK, messages, ends, Where
  <1>11. Places' /\ Placed' /\ Blocking'
    BY <1>1, <1>2, <1>3, <1>4, <1>9 DEF Places, Placed, Blocking, NoLostWakeup
  <1>12. Finishing'
    BY <1>2, <1>3, <1>6 DEF IInv, Finishing, ends
  <1>13. Beginning'
    <2>1. CASE N > 1
      <3>1. Called(pc') = {} /\ InApp(pc') = {}
        BY <1>3, <2>1 DEF Called, InApp
      <3>2. QED
        BY <1>2, <1>3, <1>5, <1>6, <2>1, <3>1 DEF IInv, Beginning
    <2>2. CASE ~(N > 1)
      <3>1. Proc = {0} /\ Called(pc') = Proc
        BY <1>3, <2>2, NotAlone DEF Called
      <3>2. QED
        BY <1>3, <2>2, <3>1 DEF Beginning
    <2>3. QED
      BY <2>1, <2>2
  <1>14. QED
    BY <1>10, <1>11, <1>12, <1>13 DEF IInv

\* A step that only switches preserves IInv.
LEMMA OnlySwitched ==
  ASSUME IInv, pc[0] # "exited", TypeOK',
         Layout(runlist', blocked', {current'}, pc), current' \in Co,
         UNCHANGED <<sched, blocked, ptRunning, posted, pc, init_state, inits,
                     finalizing, finalizations>>
  PROVE  IInv'
  <1>1. Placed'
    BY DEF Placed
  <1>2. Places' /\ Blocking'
    BY DEF IInv, Places, Blocking, NoLostWakeup
  <1>3. Beginning' /\ Finishing'
    BY DEF IInv, Beginning, Finishing
  <1>4. QED
    BY <1>1, <1>2, <1>3 DEF IInv

\* FG_Spawn_threads: main leaves when FGP_inits says that all the others have
\* called MPI_Init, and creates the progress thread then.
LEMMA FG_Spawn_threadsIInv ==
  ASSUME Counting, IInv, FG_Spawn_threads
  PROVE  IInv'
  <1> USE Distinct
  <1>1. current = 0 /\ pc[0] = "spawning" /\ pc[0] \notin Idle
    BY Zenon DEF FG_Spawn_threads, At, Idle
  <1>2. Layout(runlist, blocked, {0}, pc) /\ pc \in [Co -> Where] /\ blocked \subseteq Co
    BY <1>1, IInvParts
  <1>3. UNCHANGED <<sched, ptRunning, spawner, twice, messages, ends>>
    BY Zenon DEF FG_Spawn_threads
  <1>4. CASE inits < N - 1
    <2>1. runlist_init(0) /\ UNCHANGED <<blocked, inits, init_state, pc>>
      <3>1. inits \in 0 .. N
        BY Zenon DEF IInv, TypeOK
      <3>2. ~(inits >= N - 1)
        BY ONLY <1>4, <3>1, LifecycleAssumption
      <3>3. QED
        BY <3>2, Zenon DEF FG_Spawn_threads
    <2>2. Layout(runlist', blocked, {current'}, pc) /\ current' \in Co
      BY <1>2, <2>1, Spins
    <2>3. TypeOK'
      BY <1>3, <2>1, <2>2, Zenon DEF IInv, TypeOK, messages, ends, Layout
    <2>4. QED
      BY <1>1, <1>3, <2>1, <2>2, <2>3, OnlySwitched DEF messages, ends
  <1>5. CASE ~(inits < N - 1)
    <2>1. /\ inits' = inits + 1 /\ init_state' = "ALL_POST_INIT"
          /\ blocked' = IF sched = "block" THEN blocked \cup {PT} ELSE blocked
          /\ pc' = [pc EXCEPT ![0] = "app", ![PT] = IF sched = "block" THEN "test" ELSE @]
          /\ UNCHANGED <<runlist, current>>
      BY <1>5, Zenon DEF FG_Spawn_threads
    <2>2. /\ pc[PT] = "none" /\ ~ptRunning /\ InApp(pc) = {}
          /\ N > 1 /\ inits = Cardinality(Called(pc))
      BY <1>1 DEF IInv, Beginning
    <2>3. /\ pc' \in [Co -> Where] /\ pc'[0] = "app"
          /\ pc'[PT] = IF sched = "block" THEN "test" ELSE "none"
          /\ \A c \in Co \ {0, PT} : pc'[c] = pc[c]
      BY <1>2, <2>1, <2>2 DEF Where
    <2>4. Ending(pc) = {} /\ Ended(pc) = {} /\ Ending(pc') = {} /\ Ended(pc') = {}
      <3>1. \A p \in Proc : pc[p] \in {"none", "new", "spawning", "init"}
        BY <2>2 DEF InApp
      <3>2. QED
        BY <2>3, <3>1 DEF Ending, Ended
    <2>5. Called(pc) = Proc \ {0}
      <3>1. Called(pc) \in SUBSET Proc /\ 0 \notin Called(pc)
        BY <1>1 DEF Called
      <3>2. Cardinality(Called(pc)) \in 0 .. N
        BY <3>1 DEF Counting, ProcCount
      <3>3. Cardinality(Called(pc)) >= N - 1
        BY <1>5, <2>2, <3>2 DEF Counting, ProcCount
      <3>4. QED
        BY <3>1, <3>3 DEF Counting, ProcCount
    <2>6. Called(pc') = Proc
      BY <2>3, <2>5 DEF Called
    <2>7. inits' = Cardinality(Called(pc')) /\ inits' \in 0 .. N
      <3>1. Called(pc) \in SUBSET Proc /\ 0 \in Proc \ Called(pc) /\ Called(pc) \cup {0} = Proc
        BY <2>5
      <3>2. Cardinality(Called(pc) \cup {0}) = Cardinality(Called(pc)) + 1
        BY <3>1 DEF Counting, ProcCount
      <3>3. QED
        BY <2>1, <2>2, <2>6, <3>1, <3>2 DEF Counting, ProcCount
    <2>8. Layout(runlist', blocked', {current'}, pc') /\ current' \in Co
      <3>1. PT \notin Queued(runlist) /\ PT \notin blocked
        BY <1>2, <2>2 DEF Layout, Idle
      <3>2. CASE sched = "block"
        <4>1. {c \in Co : pc'[c] \notin Idle} = {c \in Co : pc[c] \notin Idle} \cup {PT}
          BY <1>1, <2>3, <3>2 DEF Idle
        <4>2. runlist' = runlist /\ blocked' = blocked \cup {PT} /\ current' = 0
          BY <1>1, <2>1, <3>2
        <4>3. QED
          BY <1>2, <3>1, <4>1, <4>2 DEF Layout
      <3>3. CASE sched # "block"
        <4>1. \A c \in Co : pc'[c] \in Idle <=> pc[c] \in Idle
          BY <1>1, <2>2, <2>3, <3>3 DEF Idle
        <4>2. QED
          BY <1>1, <1>2, <2>1, <3>3, <4>1, LayoutSame, Zenon
      <3>4. QED
        BY <3>2, <3>3
    <2>9. TypeOK'
      BY <1>3, <2>1, <2>3, <2>7, <2>8, Zenon DEF IInv, TypeOK, messages, ends, Layout, Where
    <2>10. Places'
      BY <2>3 DEF IInv, Places
    <2>11. Placed'
      BY <2>3, <2>8 DEF Placed
    <2>12. Beginning'
      BY <1>3, <2>3, <2>6, <2>7 DEF Beginning
    <2>13. Blocking'
      <3>1. blocked' \cap Proc = blocked \cap Proc
        BY <2>1
      <3>2. \A p \in Proc : pc[p] = "recv" => FALSE
        BY <2>2 DEF InApp
      <3>3. blocked \cap Proc = {}
        BY <3>2 DEF IInv, Blocking, NoLostWakeup
      <3>4. QED
        BY <1>3, <2>2, <3>1, <3>3 DEF Blocking, NoLostWakeup
    <2>14. Finishing'
      BY <1>3, <2>3, <2>4 DEF IInv, Finishing, ends
    <2>15. QED
      BY <2>9, <2>10, <2>11, <2>12, <2>13, <2>14 DEF IInv
  <1>6. QED
    BY <1>4, <1>5

\* MPI_Init: the first call is counted, later ones change no coroutine.
LEMMA MPI_InitIInv ==
  ASSUME Counting, IInv, NEW p \in Proc, MPI_Init(p)
  PROVE  IInv'
  <1> USE Distinct
  <1>1. current = p /\ pc[p] \in {"new", "app"} /\ pc[p] \notin Idle
    BY DEF MPI_Init, Calls, At, Idle
  <1>2. /\ Layout(runlist, blocked, {p}, pc) /\ pc \in [Co -> Where]
        /\ p \notin blocked /\ pc[0] # "exited"
    BY <1>1, IInvParts DEF Layout
  <1>3. UNCHANGED <<coroutines, init_state, messages, ends>>
    BY DEF MPI_Init
  <1>4. CASE pc[p] = "new"
    <2>1. p # 0 /\ inits' = inits + 1 /\ pc' = [pc EXCEPT ![p] = "init"]
          /\ UNCHANGED <<spawner, twice>>
      BY <1>4 DEF MPI_Init, Calls, At, Goto
    <2>2. /\ pc' \in [Co -> Where] /\ pc'[p] = "init" /\ \A c \in Co \ {p} : pc'[c] = pc[c]
      BY <1>2, <2>1 DEF Where
    <2>3. p \notin Called(pc) /\ Called(pc) \in SUBSET Proc
      BY <1>4 DEF Called
    <2>4. pc[0] = "spawning" /\ pc'[0] = "spawning" /\ pc'[PT] = pc[PT]
      BY <1>4, <2>1, <2>2, <2>3 DEF IInv, Beginning
    <2>5. /\ Called(pc') = Called(pc) \cup {p} /\ InApp(pc') = InApp(pc)
          /\ Ending(pc') = Ending(pc) /\ Ended(pc') = Ended(pc)
      BY <1>4, <2>2 DEF Called, InApp, Ending, Ended
    <2>6. inits' = Cardinality(Called(pc')) /\ inits' \in 0 .. N
      <3>1. Cardinality(Called(pc) \cup {p}) = Cardinality(Called(pc)) + 1
        BY <2>3 DEF Counting, ProcCount
      <3>2. Called(pc) \cup {p} \in SUBSET Proc
        BY <2>3
      <3>3. Cardinality(Called(pc) \cup {p}) \in 0 .. N
        BY <3>2 DEF Counting, ProcCount
      <3>4. inits = Cardinality(Called(pc))
        BY <2>1, NotAlone DEF IInv, Beginning
      <3>5. QED
        BY <2>1, <2>5, <3>1, <3>3, <3>4, Zenon
    <2>7. Layout(runlist', blocked', {current'}, pc') /\ current' \in Co
      <3>1. \A c \in Co : pc'[c] \in Idle <=> pc[c] \in Idle
        BY <1>4, <2>2 DEF Idle
      <3>2. QED
        BY <1>1, <1>2, <1>3, <3>1, LayoutSame DEF coroutines
    <2>8. TypeOK'
      BY <1>3, <2>1, <2>2, <2>6, Zenon DEF IInv, TypeOK, coroutines, messages, ends, Where
    <2>9. Places'
      BY <2>1, <2>2, <2>4 DEF IInv, Places
    <2>10. Placed'
      BY <2>4, <2>7 DEF Placed
    <2>11. Beginning'
      BY <1>3, <2>4, <2>5, <2>6 DEF IInv, Beginning, coroutines
    <2>12. Blocking'
      BY <1>2, <1>3, <2>2 DEF IInv, Blocking, NoLostWakeup, coroutines, messages
    <2>13. Finishing'
      BY <1>3, <2>4, <2>5 DEF IInv, Finishing, ends
    <2>14. QED
      BY <2>8, <2>9, <2>10, <2>11, <2>12, <2>13 DEF IInv
  <1>5. CASE pc[p] = "app"
    <2>1. UNCHANGED <<inits, pc>> /\ spawner' \in 0 .. 2 /\ twice' \subseteq Proc
      <3>1. spawner \in 0 .. 2 /\ twice \subseteq Proc
        BY DEF IInv, TypeOK
      <3>2. /\ UNCHANGED <<inits, pc>>
            /\ spawner' = spawner \/ spawner' = 2
            /\ twice' = twice \/ twice' = twice \cup {p}
        BY <1>5, Zenon DEF MPI_Init, Calls, At
      <3>3. QED
        BY <3>1, <3>2
    <2>2. TypeOK'
      BY <1>3, <2>1, Zenon DEF IInv, TypeOK, coroutines, messages, ends
    <2>3. Layout(runlist', blocked', {current'}, pc) /\ current' \in Co
      BY <1>1, <1>2, <1>3 DEF coroutines
    <2>4. QED
      BY <1>2, <1>3, <2>1, <2>2, <2>3, OnlySwitched DEF coroutines, messages, ends
  <1>6. QED
    BY <1>1, <1>4, <1>5

\* FG_Init: FGP_inits = numfgps only when main has counted itself, after it has
\* created the progress thread.
LEMMA FG_InitIInv ==
  ASSUME Counting, IInv, NEW p \in Proc, FG_Init(p)
  PROVE  IInv'
  <1> USE Distinct
  <1>1. current = p /\ pc[p] = "init" /\ pc[p] \notin Idle
    BY DEF FG_Init, At, Idle
  <1>2. /\ Layout(runlist, blocked, {p}, pc) /\ pc \in [Co -> Where]
        /\ p \notin blocked /\ pc[0] # "exited"
    BY <1>1, IInvParts DEF Layout
  <1>3. UNCHANGED <<sched, blocked, ptRunning, start, messages, ends>>
    BY DEF FG_Init
  <1>4. CASE runlist_init(p) /\ UNCHANGED pc
    <2>1. Layout(runlist', blocked, {current'}, pc) /\ current' \in Co
      BY <1>2, <1>4, Spins
    <2>2. TypeOK'
      BY <1>3, <1>4, <2>1, Zenon DEF IInv, TypeOK, start, messages, ends, Layout
    <2>3. QED
      BY <1>2, <1>3, <1>4, <2>1, <2>2, OnlySwitched DEF start, messages, ends
  <1>5. CASE inits >= N /\ Goto(p, "app") /\ UNCHANGED <<runlist, current>>
    <2>1. pc' \in [Co -> Where] /\ pc'[p] = "app" /\ \A c \in Co \ {p} : pc'[c] = pc[c]
      BY <1>2, <1>5 DEF Goto, Where
    <2>2. Called(pc) = Proc
      <3>0. N > 1
        BY <1>1, NotAlone DEF IInv, Places
      <3>1. Called(pc) \in SUBSET Proc /\ Cardinality(Called(pc)) >= N
        BY <1>5, <3>0 DEF Called, IInv, Beginning
      <3>2. QED
        BY <3>1 DEF Counting, ProcCount
    <2>3. /\ pc[0] \notin {"new", "spawning", "exited"}
          /\ pc'[0] \notin {"new", "spawning", "exited"} /\ pc'[PT] = pc[PT]
      <3>1. pc[0] \notin {"new", "spawning"}
        BY <2>2 DEF Called
      <3>2. QED
        BY <1>2, <2>1, <3>1
    <2>4. /\ Called(pc') = Called(pc)
          /\ Ending(pc') = Ending(pc) /\ Ended(pc') = Ended(pc)
      BY <1>1, <2>1 DEF Called, Ending, Ended
    <2>5. Layout(runlist', blocked', {current'}, pc') /\ current' \in Co
      <3>1. \A c \in Co : pc'[c] \in Idle <=> pc[c] \in Idle
        BY <1>1, <2>1 DEF Idle
      <3>2. QED
        BY <1>1, <1>2, <1>3, <1>5, <3>1, LayoutSame, Zenon
    <2>6. TypeOK'
      BY <1>3, <1>5, <2>1, Zenon DEF IInv, TypeOK, start, messages, ends, Where
    <2>7. Places'
      BY <2>1, <2>3 DEF IInv, Places
    <2>8. Placed'
      BY <2>3, <2>5 DEF Placed
    <2>9. Beginning'
      BY <1>3, <2>3, <2>4 DEF IInv, Beginning, start
    <2>10. Blocking'
      BY <1>2, <1>3, <2>1, Zenon DEF IInv, Blocking, NoLostWakeup, messages
    <2>11. Finishing'
      BY <1>3, <2>3, <2>4 DEF IInv, Finishing, ends
    <2>12. QED
      BY <2>6, <2>7, <2>8, <2>9, <2>10, <2>11 DEF IInv
  <1>6. QED
    BY <1>4, <1>5 DEF FG_Init

\* A step that touches neither lists nor places nor receives preserves IInv.
LEMMA UntouchedIInv ==
  ASSUME IInv, TypeOK',
         UNCHANGED <<coroutines, pc, posted, init_state, inits, finalizing, finalizations>>
  PROVE  IInv'
  <1>1. Placed' /\ Places'
    BY DEF IInv, Placed, Places, coroutines
  <1>2. Beginning'
    BY DEF IInv, Beginning, coroutines
  <1>3. Blocking' /\ Finishing'
    BY DEF IInv, Blocking, NoLostWakeup, Finishing, coroutines
  <1>4. QED
    BY <1>1, <1>2, <1>3 DEF IInv

\* A packet that reaches the receive queue changes nothing else.
LEMMA ArriveIInv ==
  ASSUME IInv, NEW d \in Proc, Arrive(d)
  PROVE  IInv'
  <1>1. TypeOK'
    <2>1. arrived' \in Seq(Proc) /\ coming' \subseteq Proc
      BY DEF Arrive, IInv, TypeOK
    <2>2. QED
      BY <2>1 DEF Arrive, IInv, TypeOK, coroutines, start, ends
  <1>2. QED
    BY <1>1, UntouchedIInv DEF Arrive, start, ends

\* The main coroutine alone satisfies IInv.
LEMMA InitIInv ==
  ASSUME Counting, Init
  PROVE  IInv
  <1> USE Distinct
  <1>1. pc \in [Co -> Where] /\ pc[0] = "new" /\ \A c \in Co \ {0} : pc[c] = "none"
    BY DEF Init, Where
  <1>2. Called(pc) = {} /\ InApp(pc) = {} /\ Ending(pc) = {} /\ Ended(pc) = {}
    BY <1>1 DEF Called, InApp, Ending, Ended
  <1>3. Cardinality({}) = 0
    BY DEF Counting
  <1>4. /\ <<>> \in Seq(Co) /\ OnceEach(<<>>) /\ Queued(<<>>) = {}
    BY DEF OnceEach, Queued
  <1>5. {c \in Co : pc[c] \notin Idle} = {0}
    BY <1>1 DEF Idle
  <1>6. Layout(runlist, blocked, {current}, pc)
    BY <1>4, <1>5 DEF Layout, Init
  <1>7. TypeOK
    <2>1. coming \subseteq Proc /\ arrived \in Seq(Proc)
      BY DEF Init
    <2>2. /\ posted \in [Proc -> Proc \cup {Net, NULL}]
          /\ seen \in [Proc -> Nat] /\ yields \in [Proc -> 0 .. MaxColocatedYields]
      <3>1. 0 \in 0 .. MaxColocatedYields /\ 0 \in Nat
        BY LifecycleAssumption
      <3>2. QED
        BY <3>1 DEF Init
    <2>3. inits \in 0 .. N /\ spawner \in 0 .. 2 /\ finalizations \in 0 .. N /\ count \in Nat
      BY LifecycleAssumption DEF Init
    <2>4. /\ sched \in {"rr", "invrr", "block"} /\ runlist \in Seq(Co) /\ blocked \subseteq Co
          /\ current \in Co \cup {NULL} /\ init_state \in {"PRE_INIT", "POST_INIT", "ALL_POST_INIT"}
          /\ twice \subseteq Proc /\ ptRunning \in BOOLEAN
          /\ sent \subseteq (Proc \cup {Net}) \X Proc /\ finalizing \subseteq Proc
      BY <1>4 DEF Init
    <2>5. QED
      BY <1>1, <2>1, <2>2, <2>3, <2>4 DEF TypeOK, Where
  <1>8. Places /\ Placed
    BY <1>1, <1>6 DEF Places, Placed, Init
  <1>9. Beginning /\ Finishing
    BY <1>1, <1>2, <1>3, Zenon DEF Beginning, Finishing, Init
  <1>10. Blocking
    BY DEF Blocking, NoLostWakeup, Init
  <1>11. QED
    BY <1>7, <1>8, <1>9, <1>10 DEF IInv

\* Every step preserves IInv.
LEMMA NextIInv ==
  ASSUME Counting, IInv, [Next]_vars
  PROVE  IInv'
  <1>1. CASE UNCHANGED vars
    <2>1. TypeOK'
      BY <1>1 DEF IInv, TypeOK, vars, coroutines, start, messages, ends
    <2>2. QED
      BY <1>1, <2>1, UntouchedIInv DEF vars, start, messages, ends
  <1>2. CASE FGmpiexec \/ FG_Spawn_threads \/ FG_Finalize
    BY <1>2, FGmpiexecIInv, FG_Spawn_threadsIInv, FG_FinalizeIInv
  <1>3. CASE FG_Scheduler_progress_loop \/ ProgressYield
    BY <1>3, ProgressLoopIInv, ProgressYieldIInv
  <1>4. ASSUME NEW p \in Proc, MPI_Init(p) \/ FG_Init(p) \/ MPI_Finalize(p)
        PROVE  IInv'
    BY <1>4, MPI_InitIInv, FG_InitIInv, MPI_FinalizeIInv
  <1>5. ASSUME NEW p \in Proc, MPIR_Progress_wait_send_request(p)
        PROVE  IInv'
    BY <1>5, WaitSendIInv
  <1>6. ASSUME NEW p \in Proc, RecvLoop(p) \/ MPID_Progress_wait(p)
        PROVE  IInv'
    BY <1>6, RecvLoopIInv, ProgressWaitIInv
  <1>7. ASSUME NEW p \in Proc, NEW q \in Proc, MPI_Send(p, q)
        PROVE  IInv'
    BY <1>7, MPI_SendIInv
  <1>8. ASSUME NEW p \in Proc, NEW s \in Proc \cup {Net}, MPI_Recv(p, s)
        PROVE  IInv'
    BY <1>8, MPI_RecvIInv
  <1>9. ASSUME NEW d \in Proc, Arrive(d)
        PROVE  IInv'
    BY <1>9, ArriveIInv
  <1>10. QED
    BY <1>1, <1>2, <1>3, <1>4, <1>5, <1>6, <1>7, <1>8, <1>9 DEF Next, Run
-----------------------------------------------------------------------------
INSTANCE FiniteSetTheorems

\* The processes are counted right.
LEMMA ProcCounted == ProcCount
  <1>1. /\ IsFiniteSet(Proc) /\ Cardinality(Proc) = N /\ N \in Nat
    BY FS_Interval, LifecycleAssumption DEF Proc
  <1>2. ASSUME NEW S \in SUBSET Proc
        PROVE  /\ IsFiniteSet(S) /\ Cardinality(S) \in 0 .. N
               /\ Cardinality(S) >= N => S = Proc
               /\ \A p \in Proc \ S : Cardinality(S \cup {p}) = Cardinality(S) + 1
    <2>1. IsFiniteSet(S) /\ Cardinality(S) <= N /\ (Cardinality(S) = N => S = Proc)
      BY <1>1, FS_Subset
    <2>2. Cardinality(S) \in Nat
      BY <2>1, FS_CardinalityType
    <2>3. \A p \in Proc \ S : Cardinality(S \cup {p}) = Cardinality(S) + 1
      BY <2>1, FS_AddElement
    <2>4. QED
      BY <1>1, <2>1, <2>2, <2>3
  <1>3. ASSUME NEW S \in SUBSET Proc, 0 \notin S, Cardinality(S) >= N - 1
        PROVE  S = Proc \ {0}
    <2>1. 0 \in Proc \ S /\ S \cup {0} \in SUBSET Proc
      BY <1>3, Distinct
    <2>2. Cardinality(S \cup {0}) = Cardinality(S) + 1 /\ Cardinality(S) \in 0 .. N
      BY <1>2, <2>1
    <2>3. Cardinality(S \cup {0}) >= N
      BY <1>1, <1>3, <2>2
    <2>4. S \cup {0} = Proc
      BY <1>2, <2>1, <2>3
    <2>5. QED
      BY <1>3, <2>4
  <1>4. QED
    BY <1>1, <1>2, <1>3 DEF ProcCount

\* A least element exists, by well-foundedness.
LEMMA LeastExists == Least
  <1> SUFFICES ASSUME NEW T \in SUBSET Nat, T # {}
               PROVE  \E i \in T : \A j \in T : i <= j
    BY DEF Least
  <1> DEFINE R == {a \in Nat \X Nat : a[1] < a[2]}
  <1>1. IsWellFoundedOn(R, Nat)
    BY NatLessThanWellFounded, Zenon DEF OpToRel
  <1>2. \A i, j \in Nat : j < i => <<j, i>> \in R
    <2> SUFFICES ASSUME NEW i \in Nat, NEW j \in Nat, j < i PROVE <<j, i>> \in R
      OBVIOUS
    <2>1. <<j, i>> \in Nat \X Nat /\ <<j, i>>[1] = j /\ <<j, i>>[2] = i
      OBVIOUS
    <2>2. QED
      BY <2>1
  <1> HIDE DEF R
  <1>3. PICK i \in T : \A j \in T : ~(<<j, i>> \in R)
    BY <1>1, WFMin, Zenon
  <1>4. ASSUME NEW j \in T PROVE i <= j
    <2>1. ~(j < i)
      BY <1>2, <1>3, Zenon
    <2>2. QED
      BY <2>1
  <1>5. QED
    BY <1>4

\* So the lemmas assume nothing.
LEMMA CountingHolds == Counting
  BY ProcCounted, LeastExists, FS_EmptySet DEF Counting

\* IInv holds for every number of processes, every application, whatever calls it
\* makes, and all three schedulers.
THEOREM InductiveInvariant == Spec => []IInv
  <1>1. Init => IInv
    BY InitIInv, CountingHolds
  <1>2. IInv /\ [Next]_vars => IInv'
    BY NextIInv, CountingHolds
  <1>3. QED
    BY <1>1, <1>2, PTL DEF Spec

\* FG_Init lets nobody into the application before all processes of the HWP have
\* called MPI_Init and, if main has spawned any, the block scheduler has its
\* progress thread.
THEOREM NobodyInEarly == Spec => []InitBarrier
  <1>1. IInv => InitBarrier
    <2> SUFFICES ASSUME IInv, NEW p \in Proc,
                        pc[p] \notin {"none", "new", "spawning", "init"}
                 PROVE  /\ \A q \in Proc : pc[q] \notin {"none", "new", "spawning"}
                        /\ N > 1 /\ sched = "block" => pc[PT] # "none"
      BY DEF InitBarrier
    <2>1. pc[0] \notin {"new", "spawning"}
      BY DEF InApp, IInv, Beginning
    <2>2. QED
      BY <2>1 DEF IInv, Beginning, Called
  <1>2. QED
    BY <1>1, InductiveInvariant, PTL

\* The assertions of the start (init.c:263 and sched_global_rr.c:195) never fail.
THEOREM AssertionsHold == Spec => []InitAssertions
  <1>1. IInv => InitAssertions
    <2> SUFFICES ASSUME IInv PROVE InitAssertions
      OBVIOUS
    <2>1. ASSUME NEW p \in Proc \ {0}, pc[p] = "new" PROVE init_state = "POST_INIT"
      <3>1. Called(pc) # Proc
        BY <2>1 DEF Called
      <3>2. pc[0] = "spawning"
        BY <2>1, <3>1, Distinct DEF IInv, Beginning
      <3>3. QED
        BY <3>2 DEF IInv, Beginning
    <2>2. pc[0] = "spawning" => ~ptRunning
      BY DEF IInv, Beginning
    <2>3. QED
      BY <2>1, <2>2 DEF InitAssertions, At
  <1>2. QED
    BY <1>1, InductiveInvariant, PTL

\* A process is in the block list only while its receive is pending: the
\* completion and the test before blocking cannot miss each other.
THEOREM WakeupsArrive == Spec => []NoLostWakeup
  <1>1. IInv => NoLostWakeup
    BY DEF IInv, Blocking
  <1>2. QED
    BY <1>1, InductiveInvariant, PTL

\* While a process is blocked the progress thread runs or is in the run list.
THEOREM BlockedAreServed == Spec => []BlockedIsServed
  <1>1. IInv => BlockedIsServed
    <2> SUFFICES ASSUME IInv, NEW p \in blocked \cap Proc
                 PROVE  PT = current \/ \E i \in DOMAIN runlist : runlist[i] = PT
      BY DEF BlockedIsServed
    <2>1. pc[p] = "recv" /\ N > 1 /\ sched = "block" /\ ptRunning /\ PT \notin blocked
      BY DEF IInv, Blocking, NoLostWakeup
    <2>2. p \in InApp(pc) /\ p \notin Ended(pc)
      BY <2>1 DEF InApp, Ended
    <2>3. pc[PT] # "none"
      BY <2>1, <2>2 DEF IInv, Beginning
    <2>4. pc[PT] # "exited" /\ pc[0] # "exited"
      BY <2>2 DEF IInv, Finishing
    <2>5. pc[PT] \notin Idle
      BY <2>3, <2>4 DEF IInv, Places, Idle
    <2>6. PT \in Queued(runlist) \cup {current}
      BY <2>1, <2>4, <2>5, IInvParts, Distinct, Zenon DEF Layout
    <2>7. QED
      BY <2>6 DEF Queued
  <1>2. QED
    BY <1>1, InductiveInvariant, PTL

\* The scheduler always finds a coroutine to run, up to the end of main: they are
\* never all blocked, suspended or ended.
THEOREM SomebodyRuns == Spec => []NeverIdle
  <1>1. IInv => NeverIdle
    BY IInvParts, Distinct, Zenon DEF NeverIdle
  <1>2. QED
    BY <1>1, InductiveInvariant, PTL
==============================================================================
