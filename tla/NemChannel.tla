----------------------------- MODULE NemChannel -----------------------------
(***************************************************************************)
(* The shared-memory channel between the OS processes of one node: the     *)
(* lock-free queues of mpid_nem_queue.h, the cells and fast boxes of       *)
(* mpid_nem_inline.h and mpid_nem_fbox.h, the send queue and the progress  *)
(* loop of ch3_progress.c, all below src/mpid/ch3/channels/nemesis.        *)
(*                                                                         *)
(* Every process owns cells, which lie in its free queue while they are    *)
(* unused.  A packet goes into a cell, the cell into the receive queue of  *)
(* the destination, and from there back into the free queue of its owner.  *)
(* A message of one packet may go through the fast box of its pair of      *)
(* processes instead, and so overtake the queue: sequence numbers restore  *)
(* the order.  Both queues have many producers and one consumer.           *)
(*                                                                         *)
(* The OS processes run concurrently.  A step is one access to shared      *)
(* memory with the private work next to it; memory is sequentially         *)
(* consistent, which is what the barriers of the code are for.  my[p] is   *)
(* the private state of p, with the operation it is in (pc), the queue q,  *)
(* the cell e and the old tail prev it works on, and what for (use).       *)
(***************************************************************************)
EXTENDS Integers, FiniteSets, SequencesExt

CONSTANTS Proc,        \* the OS processes of the node, numbered from 1
          CellsOf,     \* the cells of each process, in a sequence
          Programs,    \* for each process the messages it sends: [to, kind, size]
          Seqnos,      \* 2^16: sequence numbers are unsigned shorts
          NULL

VARIABLES program,     \* the program that runs
          queue,       \* head, my_head and tail of every queue
          next,        \* the next pointer of every cell
          packet,      \* the packet in every cell
          box,         \* the fast box of every pair: [full, packet]
          my,          \* the private state of every process
          sent,        \* history: packets numbered for a destination
          received     \* history: the numbers of the packets received
vars == <<program, queue, next, packet, box, my, sent, received>>

Cell == UNION {ToSet(CellsOf[p]) : p \in Proc}
RecvQ(p) == <<"recv", p>>
FreeQ(p) == <<"free", p>>
Queue == {"recv", "free"} \X Proc
Pair == Proc \X Proc
Nothing == [src |-> NULL]

\* MPID_nem_init: all cells of a process are in its free queue.
Init ==
  /\ program \in Programs
  /\ queue = [q \in Queue |->
       IF q[1] = "free"
       THEN [head |-> CellsOf[q[2]][1], my_head |-> NULL, tail |-> Last(CellsOf[q[2]])]
       ELSE [head |-> NULL, my_head |-> NULL, tail |-> NULL]]
  /\ next = [c \in Cell |->
       LET p == CHOOSE p \in Proc : c \in ToSet(CellsOf[p])
           i == CHOOSE i \in DOMAIN CellsOf[p] : CellsOf[p][i] = c
       IN IF i = Len(CellsOf[p]) THEN NULL ELSE CellsOf[p][i + 1]]
  /\ packet = [c \in Cell |-> Nothing]
  /\ box = [x \in Pair |-> [full |-> FALSE, packet |-> Nothing]]
  /\ my = [p \in Proc |->
       [pc |-> "idle", use |-> NULL, q |-> NULL, e |-> NULL, prev |-> NULL,
        prefetched |-> NULL, sendq |-> <<>>, cursor |-> 1, todo |-> program[p],
        send_seqno |-> [d \in Proc |-> 0], recv_seqno |-> [s \in Proc |-> 0],
        recv_active |-> [s \in Proc |-> 0]]]
  /\ sent = [x \in Pair |-> 0]
  /\ received = [x \in Pair |-> <<>>]
-----------------------------------------------------------------------------
(* Private steps: each is a change of the record r = my[p] *)

\* A packet of the message at the head of the send queue has left.
AfterPacket(r) == IF Head(r.sendq).left = 0
                  THEN [r EXCEPT !.sendq = Tail(@), !.pc = "idle"]
                  ELSE [r EXCEPT !.pc = "send"]

\* The receiving half of the progress loop is done.
AfterReceive(r) == [r EXCEPT !.pc = IF r.sendq = <<>> THEN "idle" ELSE "send"]

\* Begin MPID_nem_queue_empty, or MPID_nem_queue_enqueue.
Consume(r, q, use) == [r EXCEPT !.pc = "empty", !.q = q, !.use = use]
Produce(r, q, e, use) == [r EXCEPT !.pc = "swap", !.q = q, !.e = e, !.use = use]

\* Plausible error: a packet is taken from the queue whatever its number.
Bug_AnySeqno(r, pkt) == TRUE
\* MPID_nem_recv_seqno_matches, and the same test on a fast box.
SeqnoMatches(r, pkt) == pkt.seq = r.recv_seqno[pkt.src]

\* MPID_nem_queue_empty returned 1.
IsEmpty(r) ==
  CASE r.use = "send" -> [r EXCEPT !.sendq[1].direct = FALSE, !.pc = "idle"]
    [] r.use = "prefetch" -> AfterPacket([r EXCEPT !.prefetched = NULL])
    [] r.use = "recv" -> [r EXCEPT !.pc = "others"]

\* It returned 0, and h is my_head.
NotEmpty(r, h) ==
  [r EXCEPT !.pc = IF r.use = "recv" /\ ~SeqnoMatches(r, packet[h])
                   THEN "others" ELSE "dequeue"]

\* The next packet of the message m at the head of the send queue.
Packet(p, m) == [src |-> p, seq |-> my[p].send_seqno[m.to], no |-> sent[p, m.to] + 1,
                 first |-> m.left = m.size, more |-> m.left - 1]
Numbered(r) ==
  LET d == Head(r.sendq).to
  IN [r EXCEPT !.send_seqno[d] = (@ + 1) % Seqnos, !.sendq[1].left = @ - 1]

\* The packet is taken by the packet handler: MPID_nem_handle_pkt.
Received(r, pkt) == [r EXCEPT !.recv_seqno[pkt.src] = (@ + 1) % Seqnos,
                              !.recv_active[pkt.src] = pkt.more]
Log(p, pkt) == received' = [received EXCEPT ![pkt.src, p] = Append(@, pkt.no)]
-----------------------------------------------------------------------------
(* MPID_nem_queue_empty, _dequeue and _enqueue *)

\* MPID_nem_queue_empty: look at my_head and head.
QueueEmpty(p) ==
  LET r == my[p]
      k == queue[r.q]
  IN /\ r.pc = "empty"
     /\ \/ /\ k.my_head # NULL
           /\ my' = [my EXCEPT ![p] = NotEmpty(r, k.my_head)]
           /\ UNCHANGED queue
        \/ /\ k.my_head = NULL /\ k.head = NULL
           /\ my' = [my EXCEPT ![p] = IsEmpty(r)]
           /\ UNCHANGED queue
        \/ /\ k.my_head = NULL /\ k.head # NULL
           /\ queue' = [queue EXCEPT ![r.q].my_head = k.head]
           /\ my' = [my EXCEPT ![p].pc = "clear"]
     /\ UNCHANGED <<next, packet, box, sent, received>>

\* MPID_nem_queue_empty: set head to NULL.
QueueClear(p) ==
  LET r == my[p]
  IN /\ r.pc = "clear"
     /\ queue' = [queue EXCEPT ![r.q].head = NULL]
     /\ my' = [my EXCEPT ![p] = NotEmpty(r, queue[r.q].my_head)]
     /\ UNCHANGED <<next, packet, box, sent, received>>

\* MPID_nem_queue_dequeue: look at the next pointer of the first cell.
Dequeue(p) ==
  LET r == my[p]
      e == queue[r.q].my_head
  IN /\ r.pc = "dequeue"
     /\ queue' = [queue EXCEPT ![r.q].my_head = next[e]]
     /\ my' = [my EXCEPT ![p].e = e, ![p].pc = IF next[e] # NULL THEN "unlink" ELSE "cas"]
     /\ UNCHANGED <<next, packet, box, sent, received>>

\* The cell was the last one: reset the tail unless it has moved.
DequeueCas(p) ==
  LET r == my[p]
      last == queue[r.q].tail = r.e
  IN /\ r.pc = "cas"
     /\ queue' = IF last THEN [queue EXCEPT ![r.q].tail = NULL] ELSE queue
     /\ my' = [my EXCEPT ![p].pc = IF last THEN "unlink" ELSE "spin"]
     /\ UNCHANGED <<next, packet, box, sent, received>>

\* It has moved: wait for the producer to write the next pointer.
DequeueSpin(p) ==
  LET r == my[p]
  IN /\ r.pc = "spin" /\ next[r.e] # NULL
     /\ queue' = [queue EXCEPT ![r.q].my_head = next[r.e]]
     /\ my' = [my EXCEPT ![p].pc = "unlink"]
     /\ UNCHANGED <<next, packet, box, sent, received>>

\* Plausible error: the next pointer of the cell is left as it is.
Bug_NoUnlink(p) ==
  LET r == my[p]
      pkt == packet[r.e]
  IN /\ r.pc = "unlink" /\ UNCHANGED next
     /\ \/ /\ r.use = "send"
           /\ packet' = [packet EXCEPT ![r.e] = Packet(p, Head(r.sendq))]
           /\ sent' = [sent EXCEPT ![p, Head(r.sendq).to] = @ + 1]
           /\ my' = [my EXCEPT ![p] = Produce(Numbered(r), RecvQ(Head(r.sendq).to), r.e, "send")]
           /\ UNCHANGED received
        \/ /\ r.use = "prefetch"
           /\ my' = [my EXCEPT ![p] = AfterPacket([r EXCEPT !.prefetched = r.e])]
           /\ UNCHANGED <<packet, sent, received>>
        \/ /\ r.use = "recv"
           /\ my' = [my EXCEPT ![p] = Produce(Received(r, pkt), FreeQ(pkt.src), r.e, "release")]
           /\ Log(p, pkt)
           /\ UNCHANGED <<packet, sent>>
     /\ UNCHANGED <<queue, box>>
\* The cell leaves the queue: it is filled and sent, kept for the next packet,
\* or its packet is handled and the cell goes back to its owner.
DequeueUnlink(p) ==
  LET r == my[p]
      pkt == packet[r.e]
  IN /\ r.pc = "unlink"
     /\ next' = [next EXCEPT ![r.e] = NULL]
     /\ \/ /\ r.use = "send"
           /\ packet' = [packet EXCEPT ![r.e] = Packet(p, Head(r.sendq))]
           /\ sent' = [sent EXCEPT ![p, Head(r.sendq).to] = @ + 1]
           /\ my' = [my EXCEPT ![p] = Produce(Numbered(r), RecvQ(Head(r.sendq).to), r.e, "send")]
           /\ UNCHANGED received
        \/ /\ r.use = "prefetch"
           /\ my' = [my EXCEPT ![p] = AfterPacket([r EXCEPT !.prefetched = r.e])]
           /\ UNCHANGED <<packet, sent, received>>
        \/ /\ r.use = "recv"
           /\ my' = [my EXCEPT ![p] = Produce(Received(r, pkt), FreeQ(pkt.src), r.e, "release")]
           /\ Log(p, pkt)
           /\ UNCHANGED <<packet, sent>>
     /\ UNCHANGED <<queue, box>>

\* MPID_nem_queue_enqueue: swap the tail.
EnqueueSwap(p) ==
  LET r == my[p]
  IN /\ r.pc = "swap"
     /\ queue' = [queue EXCEPT ![r.q].tail = r.e]
     /\ my' = [my EXCEPT ![p].prev = queue[r.q].tail, ![p].pc = "link"]
     /\ UNCHANGED <<next, packet, box, sent, received>>

\* Make the cell the head, or the next of the old tail; a sender then fetches
\* the cell for its next packet.
EnqueueLink(p) ==
  LET r == my[p]
  IN /\ r.pc = "link"
     /\ \/ /\ r.prev = NULL
           /\ queue' = [queue EXCEPT ![r.q].head = r.e]
           /\ UNCHANGED next
        \/ /\ r.prev # NULL
           /\ next' = [next EXCEPT ![r.prev] = r.e]
           /\ UNCHANGED queue
     /\ my' = [my EXCEPT ![p] =
                 LET done == [r EXCEPT !.e = NULL, !.prev = NULL]
                 IN IF r.use = "send" THEN Consume(done, FreeQ(p), "prefetch")
                                      ELSE AfterReceive(done)]
     /\ UNCHANGED <<packet, box, sent, received>>
-----------------------------------------------------------------------------
(* Sending *)

\* MPIDI_CH3_iStartMsg (kind "header") and MPIDI_CH3_iSendv ("small", "large")
\* with an empty send queue try to send at once; otherwise the message is
\* queued and MPIDI_CH3I_Shm_send_progress goes on with the first one.
Started(q, m) == Append(q, [to |-> m.to, kind |-> m.kind, size |-> m.size,
                            left |-> m.size, direct |-> q = <<>>])
Isend(p) ==
  LET r == my[p]
  IN /\ r.pc = "idle" /\ r.todo # <<>>
     /\ my' = [my EXCEPT ![p].todo = Tail(@), ![p].pc = "send",
                         ![p].sendq = Started(@, Head(r.todo))]
     /\ UNCHANGED <<queue, next, packet, box, sent, received>>

\* Only the first packet of a message that fits goes into a fast box, and a
\* header alone only when it was not queued.
MayUseBox(m) == m.kind = "small" \/ (m.kind = "header" /\ m.direct)

\* MPID_nem_mpich_send_header, _sendv_header, _sendv: into the fast box if it
\* is empty, else into the prefetched cell, else into one of the free queue.
Send(p) ==
  LET r == my[p]
      m == Head(r.sendq)
      boxed == MayUseBox(m) /\ ~box[p, m.to].full
  IN /\ r.pc = "send"
     /\ \/ /\ boxed
           /\ box' = [box EXCEPT ![p, m.to].packet = Packet(p, m)]
           /\ sent' = [sent EXCEPT ![p, m.to] = @ + 1]
           /\ my' = [my EXCEPT ![p] = [Numbered(r) EXCEPT !.pc = "publish"]]
           /\ UNCHANGED packet
        \/ /\ ~boxed /\ r.prefetched # NULL
           /\ packet' = [packet EXCEPT ![r.prefetched] = Packet(p, m)]
           /\ sent' = [sent EXCEPT ![p, m.to] = @ + 1]
           /\ my' = [my EXCEPT ![p] = Produce(Numbered(r), RecvQ(m.to), r.prefetched, "send")]
           /\ UNCHANGED box
        \/ /\ ~boxed /\ r.prefetched = NULL
           /\ my' = [my EXCEPT ![p] = Consume(r, FreeQ(p), "send")]
           /\ UNCHANGED <<box, packet, sent>>
     /\ UNCHANGED <<queue, next, received>>

\* The flag of the fast box is set with release semantics.
Publish(p) ==
  LET r == my[p]
  IN /\ r.pc = "publish"
     /\ box' = [box EXCEPT ![p, Head(r.sendq).to].full = TRUE]
     /\ my' = [my EXCEPT ![p] = AfterPacket(r)]
     /\ UNCHANGED <<queue, next, packet, sent, received>>
-----------------------------------------------------------------------------
(* Receiving: MPID_nem_mpich_test_recv in MPIDI_CH3I_Progress *)

Ready(p, s) == box[s, p].full /\ SeqnoMatches(my[p], box[s, p].packet)

\* The packet in the fast box from s is handled; r is the rest of the state.
FromBox(p, s, r) ==
  /\ my' = [my EXCEPT ![p] = [Received(r, box[s, p].packet) EXCEPT !.pc = "unbox", !.prev = s]]
  /\ Log(p, box[s, p].packet)

\* What all messages of p for d come to, and the part that p has been asked to send.
Total(p, d) == FoldSeq(LAMBDA m, n : n + (IF m.to = d THEN m.size ELSE 0), 0, program[p])
Given(p, d) ==
  FoldSeq(LAMBDA m, n : n + (IF m.to = d THEN m.size ELSE 0), 0,
          SubSeq(program[p], 1, Len(program[p]) - Len(my[p].todo)))

\* p has something to send or to receive.  Other processes call the progress
\* engine as well, but find and change nothing.
Waits(p) == my[p].sendq # <<>> \/ \E s \in Proc : Len(received[s, p]) < Total(s, p)

\* poll_active_fboxes, over the fast boxes that posted receives have made
\* active, which may be any; then the queue.
Poll(p) ==
  LET r == my[p]
  IN /\ r.pc = "idle" /\ Waits(p)
     /\ \/ \E s \in Proc : Ready(p, s) /\ FromBox(p, s, r)
        \/ /\ my' = [my EXCEPT ![p] = Consume(r, RecvQ(p), "recv")]
           /\ UNCHANGED received
     /\ UNCHANGED <<queue, next, packet, box, sent>>

\* Plausible error: the other fast boxes are not looked at.
Bug_PollNoOthers(p) ==
  /\ my[p].pc = "others"
  /\ my' = [my EXCEPT ![p] = AfterReceive(my[p])]
  /\ UNCHANGED <<queue, next, packet, box, sent, received>>
\* The queue gave nothing: poll_every_fbox if the call is not blocking, else
\* poll_next_fbox, which moves on when it finds nothing.
PollOthers(p) ==
  LET r == my[p]
      moved == [r EXCEPT !.cursor = (@ % Cardinality(Proc)) + 1]
  IN /\ r.pc = "others"
     /\ \/ \E s \in Proc : Ready(p, s) /\ FromBox(p, s, [r EXCEPT !.cursor = s])
        \/ /\ \A s \in Proc : ~Ready(p, s)
           /\ my' = [my EXCEPT ![p] = AfterReceive(r)]
           /\ UNCHANGED received
        \/ /\ ~Ready(p, r.cursor)
           /\ my' = [my EXCEPT ![p] = AfterReceive(moved)]
           /\ UNCHANGED received
     /\ UNCHANGED <<queue, next, packet, box, sent>>

\* MPID_nem_mpich_release_fbox.
Unbox(p) ==
  LET r == my[p]
  IN /\ r.pc = "unbox"
     /\ box' = [box EXCEPT ![r.prev, p].full = FALSE]
     /\ my' = [my EXCEPT ![p] = AfterReceive([r EXCEPT !.prev = NULL])]
     /\ UNCHANGED <<queue, next, packet, sent, received>>

Step(p) == \/ QueueEmpty(p) \/ QueueClear(p)
           \/ Dequeue(p) \/ DequeueCas(p) \/ DequeueSpin(p) \/ DequeueUnlink(p)
           \/ EnqueueSwap(p) \/ EnqueueLink(p)
           \/ Send(p) \/ Publish(p) \/ Poll(p) \/ PollOthers(p) \/ Unbox(p)
Next == UNCHANGED program /\ \E p \in Proc : Isend(p) \/ Step(p)

Spec == Init /\ [][Next]_vars

\* The OS runs every process, and a process keeps calling the progress engine.
FairSpec == Spec /\ \A p \in Proc : WF_vars(Step(p) /\ UNCHANGED program)
-----------------------------------------------------------------------------
\* The assertions written into mpid_nem_queue.h as comments, and those of the
\* progress loop: a cell is enqueued with a next pointer of NULL onto one with
\* a next pointer of NULL; head and my_head are never both set outside of
\* MPID_nem_queue_empty, and in _dequeue exactly my_head is; a packet from a
\* fast box is the first of its message, and no other message is unfinished.
Assertions ==
  \A p \in Proc :
    LET r == my[p]
        k == queue[r.q]
    IN /\ r.pc = "swap" => next[r.e] = NULL
       /\ r.pc = "link" /\ r.prev # NULL => next[r.prev] = NULL
       /\ r.pc = "empty" => k.my_head = NULL \/ k.head = NULL
       /\ r.pc = "dequeue" => k.my_head # NULL /\ k.head = NULL
       /\ \A s \in Proc : Ready(p, s) => /\ box[s, p].packet.first
                                         /\ r.recv_active[s] = 0

\* Between two processes packets arrive once each and in the order they were
\* sent, although fast boxes and queues overtake each other, cells are used
\* again and sequence numbers wrap around.
InOrder == \A x \in Pair : /\ Len(received[x]) <= sent[x]
                           /\ \A i \in DOMAIN received[x] : received[x][i] = i

\* Every message is received in full: with the cells exhausted, a packet in a
\* fast box behind one in the queue, or a queue headed by a packet whose
\* predecessor is still in a fast box, the processes go on.
Delivered == \A x \in Pair : <>[](Len(received[x]) = Given(x[1], x[2]))
=============================================================================
