------------------------------- MODULE RecvQ -------------------------------
(***************************************************************************)
(* The receive queues of one OS process (HWP) of FG-MPI, with everything   *)
(* that touches them: src/mpid/ch3/src/ch3u_recvq.c and its callers.       *)
(*                                                                         *)
(* The HWP holds several MPI processes (Proc), which are coroutines; each  *)
(* has a queue of posted receives and a queue of unexpected messages, two  *)
(* singly linked lists of requests with a head and a tail pointer.         *)
(* Messages come from collocated processes (MPIDI_Isend_self), whose send  *)
(* completes only when the message is received, and from other HWPs        *)
(* (Remote) through the progress engine, whole, with their data still      *)
(* under way, or as a request to send them (rendezvous).  A process that   *)
(* waits for a receive is in the scheduler's block list until somebody     *)
(* notifies it.                                                            *)
(*                                                                         *)
(* Operation n gets the n-th record of req: a posted receive, or a message *)
(* (with the send request of a collocated one).  Every action is a call    *)
(* that runs without a switch of coroutines, hence atomic.                 *)
(* A context is a pair <<context id, "pt2pt" or "coll">>.  Communicators   *)
(* without a common member may have the same id (MPI_Comm_split gives them *)
(* one), so that an id means a communicator only together with a process   *)
(* in it; a rank of that communicator stands for the process that has it.  *)
(* The node-aware contexts that MPIDI_CH3U_Clean_recvq also looks at are   *)
(* treated there as "coll" is.  No network hardware matches messages.      *)
(***************************************************************************)
EXTENDS Integers, FiniteSets, SequencesExt

CONSTANTS Proc,       \* the collocated MPI processes
          Remote,     \* MPI processes in other HWPs
          Comm,       \* communicators
          CtxId,      \* recvcontext_id of every communicator
          Members,    \* the processes in it
          Program,    \* the programs to run: [proc, remote, comm, wanted, sent, modes, ops]
          Kept,       \* MPIR_AGREE_TAG and MPIR_SHRINK_TAG
          AnySource, AnyTag, NULL

\* What MPIR_Get_contextid_sparse_group guarantees (IdsExact of ContextIds): the
\* communicators of a process have different ids.
ASSUME ContextAssumption ==
  /\ CtxId \in [Comm -> Nat] /\ Members \in [Comm -> SUBSET (Proc \cup Remote)]
  /\ \A c, k \in Comm : c # k /\ CtxId[c] = CtxId[k] => Members[c] \cap Members[k] = {}

VARIABLES program,    \* the program that runs
          req,        \* the requests, in the order of their creation
          posted,     \* FG_recvq_posted_head, FG_recvq_posted_tail
          unexpected, \* FG_recvq_unexpected_head, FG_recvq_unexpected_tail
          lengths,    \* the performance variables that count the entries
          cleared,    \* <<request, source>>: the source was told to send the data
          arriving,   \* <<request, source>>: data still under way
          held,       \* messages taken by a matched probe
          waiting,    \* what each process in the block list waits for
          revoked,    \* <<process, communicator>> revoked
          moribund,   \* processes whose connection has failed
          pairs,      \* history: <<receive, message>> in the order matched
          cancel      \* history: the last cancelled send and what was found
vars == <<program, req, posted, unexpected, lengths, cleared, arriving, held, waiting,
          revoked, moribund, pairs, cancel>>

\* A program says which processes take part, what its receives ask for
\* ([rank, tag, ctx]), what its messages carry ([tag, ctx]), how remote
\* processes send them and, as a bound, how many receives and messages there are.
MaxReq == Max({p.ops : p \in Program})
Wanted == UNION {p.wanted : p \in Program}
Sent == UNION {p.sent : p \in Program}

Req == 1 .. MaxReq
Queue == [head : Req \cup {NULL}, tail : Req \cup {NULL}]
Empty == [head |-> NULL, tail |-> NULL]
Envelop(s, e) == [rank |-> s, tag |-> e.tag, ctx |-> e.ctx]
Envelope == {Envelop(s, e) : s \in Proc \cup Remote, e \in Sent}

Request == [dest : Proc, match : Wanted \cup Envelope, type : {"recv", "self", "eager", "rndv"},
            sender : Req \cup Remote \cup {NULL}, next : Req \cup {NULL},
            cc : -1 .. 1, scc : 0 .. 1, pending : 0 .. 2, asked : BOOLEAN]

TypeOK == /\ program \in Program
          /\ req \in Seq(Request) /\ Len(req) <= MaxReq
          /\ posted \in [Proc -> Queue] /\ unexpected \in [Proc -> Queue]
          /\ lengths \in [posted : Int, unexpected : Int]
          /\ cleared \subseteq Req \X Remote /\ arriving \subseteq Req \X Remote
          /\ held \subseteq Req
          /\ waiting \in [Proc -> Req \cup {NULL}]
          /\ revoked \subseteq Proc \X Comm
          /\ moribund \subseteq Remote
          /\ pairs \subseteq Req \X Req
          /\ cancel \in [wanted : Req \cup {NULL}, got : Req \cup {NULL}, queued : BOOLEAN]
-----------------------------------------------------------------------------
(* Lists of requests *)

\* The requests of a queue in order, following the next pointers of rs.
Walk(rs, q) ==
  LET from[n \in 0 .. MaxReq, r \in Req \cup {NULL}] ==
        IF n = 0 \/ r = NULL THEN <<>> ELSE <<r>> \o from[n - 1, rs[r].next]
  IN from[MaxReq, q.head]

\* The request before r in the queue: prev_rreq.
Prev(rs, q, r) == LET w == Walk(rs, q)
                      before == {i \in 1 .. Len(w) - 1 : w[i + 1] = r}
                  IN IF before = {} THEN NULL ELSE w[CHOOSE i \in before : TRUE]

\* Take r, which follows prev, out of the queue q.
Unlinked(rs, q, r, prev) ==
  [rs |-> IF prev # NULL THEN [rs EXCEPT ![prev].next = rs[r].next] ELSE rs,
   q |-> [head |-> IF prev = NULL THEN rs[r].next ELSE q.head,
          tail |-> IF rs[r].next = NULL THEN prev ELSE q.tail]]

\* Append the new request rq to the queue q.
Linked(rs, q, rq) ==
  LET r == Len(rs) + 1
  IN [rs |-> Append(IF q.tail # NULL THEN [rs EXCEPT ![q.tail].next = r] ELSE rs, rq),
      q |-> [head |-> IF q.tail = NULL THEN r ELSE q.head, tail |-> r]]

\* MATCH_WITH_LEFT_MASK and MATCH_WITH_LEFT_RIGHT_MASK: a receive and a message.
Matches(p, e) == /\ p.ctx = e.ctx
                 /\ p.tag \in {e.tag, AnyTag}
                 /\ p.rank \in {e.rank, AnySource}

\* Plausible error: the last message that fits is taken, not the first.
Bug_LastUnexpected(d, p) ==
  LET w == SelectSeq(Walk(req, unexpected[d]), LAMBDA m : Matches(p, req[m].match))
  IN IF w = <<>> THEN NULL ELSE Last(w)

\* The first message that pattern p takes, and the first receive that takes e.
FirstUnexpected(d, p) ==
  LET w == SelectSeq(Walk(req, unexpected[d]), LAMBDA m : Matches(p, req[m].match))
  IN IF w = <<>> THEN NULL ELSE Head(w)

\* Plausible error: the search runs on to the last receive that fits.
Bug_LastPosted(d, e) ==
  LET w == SelectSeq(Walk(req, posted[d]), LAMBDA r : Matches(req[r].match, e))
  IN IF w = <<>> THEN NULL ELSE Last(w)
FirstPosted(d, e) ==
  LET w == SelectSeq(Walk(req, posted[d]), LAMBDA r : Matches(req[r].match, e))
  IN IF w = <<>> THEN NULL ELSE Head(w)

\* Plausible error: the search for a cancelled send stops at the first match.
Bug_FirstSent(d, handle, e) ==
  LET w == SelectSeq(Walk(req, unexpected[d]),
                     LAMBDA m : req[m].sender = handle /\ req[m].match = e)
  IN IF w = <<>> THEN NULL ELSE Head(w)

\* MPIDI_CH3U_Recvq_FDU: the last message with the sender's handle and match.
LastSent(d, handle, e) ==
  LET w == SelectSeq(Walk(req, unexpected[d]),
                     LAMBDA m : req[m].sender = handle /\ req[m].match = e)
  IN IF w = <<>> THEN NULL ELSE Last(w)

NewReq(d, m, t) == [dest |-> d, match |-> m, type |-> t, sender |-> NULL, next |-> NULL,
                    cc |-> 1, scc |-> 0, pending |-> 1, asked |-> FALSE]

\* MPID_Request_complete on the receive side and on the send side.
Complete(rs, r) == [rs EXCEPT ![r].cc = @ - 1]
CompleteSend(rs, r) == [rs EXCEPT ![r].scc = @ - 1]

\* FG_Notify_on_event(d, UNBLOCK).
Notify(D) == waiting' = [d \in Proc |-> IF d \in D THEN NULL ELSE waiting[d]]

Running(d) == waiting[d] = NULL
Posted(d) == ToSet(Walk(req, posted[d]))
Unexpected(d) == ToSet(Walk(req, unexpected[d]))

\* The communicator of d that has the context, if s is in it (or MPI_ANY_SOURCE).
Between(d, s, ctx) == {c \in Comm : /\ CtxId[c] = ctx[1] /\ d \in Members[c]
                                   /\ s \in Members[c] \cup {AnySource}}
Usable(d, s, m) == \E c \in Between(d, s, m.ctx) : <<d, c>> \notin revoked \/ m.tag \in Kept
-----------------------------------------------------------------------------
Init == /\ program \in Program
        /\ req = <<>>
        /\ posted = [d \in Proc |-> Empty] /\ unexpected = [d \in Proc |-> Empty]
        /\ lengths = [posted |-> 0, unexpected |-> 0]
        /\ cleared = {} /\ arriving = {} /\ held = {} /\ waiting = [d \in Proc |-> NULL]
        /\ revoked = {} /\ moribund = {} /\ pairs = {}
        /\ cancel = [wanted |-> NULL, got |-> NULL, queued |-> FALSE]

\* The sender of m waits and has failed: a synchronous or a rendezvous one.
Orphan(m) == req[m].scc # 0 /\ req[m].match.rank \in moribund

\* Plausible error: the sender is not told that it may go on.
Bug_SendStays(rs, m) ==
  CASE rs[m].type = "self" -> Complete(rs, m)
    [] rs[m].type = "eager" -> [rs EXCEPT ![m].pending = @ - 1]
    [] rs[m].type = "rndv" -> rs

\* The message m goes to a receive of the process that holds it: a collocated
\* one by MPIDI_CH3_RecvFromSelf, an eager one by unpacking what has arrived, a
\* rendezvous one by asking for the data.  This completes a collocated send
\* (unless that failed), acknowledges a synchronous one (MPIDI_CH3_EagerSyncAck)
\* and clears a rendezvous one; the call fails if that sender has failed.
Deliver(rs, m) ==
  LET told == IF rs[m].scc # 0 THEN CompleteSend(rs, m) ELSE rs
  IN CASE Orphan(m) -> rs
       [] rs[m].type = "self" -> Complete(told, m)
       [] rs[m].type = "eager" /\ ~Orphan(m) -> [told EXCEPT ![m].pending = @ - 1]
       [] rs[m].type = "rndv" /\ ~Orphan(m) -> told

\* MPIDI_CH3_RecvRndv: the receive that found a request to send asks for the data.
MPIDI_CH3_RecvRndv(m) ==
  cleared' = IF req[m].type = "rndv" /\ ~Orphan(m)
             THEN cleared \cup {<<m, req[m].match.rank>>} ELSE cleared

\* MPID_Recv and MPID_Irecv, with MPIDI_CH3U_Recvq_FDU_or_AEP.
MPID_Irecv(d, p) ==
  LET n == Len(req) + 1
      m == FirstUnexpected(d, p)
      taken == Unlinked(req, unexpected[d], m, Prev(req, unexpected[d], m))
      r == NewReq(d, p, "recv")
      queued == Linked(req, posted[d], r)
  IN /\ Running(d) /\ Usable(d, p.rank, p) /\ n <= program.ops
     /\ \/ /\ m # NULL
           /\ req' = Append(Deliver(taken.rs, m), [r EXCEPT !.cc = 0])
           /\ unexpected' = [unexpected EXCEPT ![d] = taken.q]
           /\ lengths' = [lengths EXCEPT !.unexpected = @ - 1]
           /\ pairs' = pairs \cup {<<n, m>>}
           /\ MPIDI_CH3_RecvRndv(m)
           /\ UNCHANGED posted
        \/ /\ m = NULL /\ p.rank \in moribund
           /\ req' = Append(req, [r EXCEPT !.cc = 0])
           /\ UNCHANGED <<posted, unexpected, lengths, pairs, cleared>>
        \/ /\ m = NULL /\ p.rank \notin moribund
           /\ req' = queued.rs
           /\ posted' = [posted EXCEPT ![d] = queued.q]
           /\ lengths' = [lengths EXCEPT !.posted = @ + 1]
           /\ UNCHANGED <<unexpected, pairs, cleared>>
     /\ UNCHANGED <<arriving, held, waiting, revoked, moribund, cancel>>

\* MPID_Improbe with MPIDI_CH3U_Recvq_FDU_matchonly: a match takes the message.
MPID_Improbe(d, p) ==
  LET n == Len(req) + 1
      m == FirstUnexpected(d, p)
      taken == Unlinked(req, unexpected[d], m, Prev(req, unexpected[d], m))
  IN /\ Running(d) /\ \E c \in Between(d, p.rank, p.ctx) : <<d, c>> \notin revoked
     /\ n <= program.ops /\ m # NULL
     /\ req' = Append(taken.rs, [NewReq(d, p, "recv") EXCEPT !.cc = 0])
     /\ unexpected' = [unexpected EXCEPT ![d] = taken.q]
     /\ lengths' = [lengths EXCEPT !.unexpected = @ - 1]
     /\ pairs' = pairs \cup {<<n, m>>}
     /\ held' = held \cup {m}
     /\ UNCHANGED <<posted, cleared, arriving, waiting, revoked, moribund, cancel>>

\* MPID_Imrecv: receive the message of a matched probe.
MPID_Imrecv(d, m) ==
  /\ Running(d) /\ m \in held /\ req[m].dest = d
  /\ held' = held \ {m}
  /\ req' = Deliver(req, m)
  /\ MPIDI_CH3_RecvRndv(m)
  /\ UNCHANGED <<posted, unexpected, lengths, arriving, waiting, revoked, moribund,
                 pairs, cancel>>

\* MPIDI_CH3U_Recvq_FDP_or_AEU for the message mq; whole says whether the caller
\* completes a receive that is found, because all data is there.
FDP_or_AEU(d, mq, whole) ==
  LET n == Len(req) + 1
      r == FirstPosted(d, mq.match)
      taken == Unlinked(req, posted[d], r, Prev(req, posted[d], r))
      queued == Linked(req, unexpected[d], mq)
  IN /\ n <= program.ops
     /\ \/ /\ r # NULL
           /\ req' = Append(IF whole THEN Complete(taken.rs, r) ELSE taken.rs,
                           [mq EXCEPT !.cc = 0, !.scc = 0])
           /\ posted' = [posted EXCEPT ![d] = taken.q]
           /\ lengths' = [lengths EXCEPT !.posted = @ - 1]
           /\ pairs' = pairs \cup {<<r, n>>}
           /\ Notify({d})
           /\ UNCHANGED unexpected
        \/ /\ r = NULL
           /\ req' = queued.rs
           /\ unexpected' = [unexpected EXCEPT ![d] = queued.q]
           /\ lengths' = [lengths EXCEPT !.unexpected = @ + 1]
           /\ UNCHANGED <<posted, pairs, waiting>>

\* MPIDI_Isend_self: s sends to the collocated d.  A ready send that finds no
\* receive is completed with an error and leaves a message without a sender.
MPIDI_Isend_self(s, d, e, ready) ==
  LET n == Len(req) + 1
      mq == [NewReq(d, Envelop(s, e), "self")
               EXCEPT !.sender = IF ready THEN NULL ELSE n,
                      !.scc = IF ready THEN 0 ELSE 1]
  IN /\ Running(s) /\ Usable(s, d, e)
     /\ FDP_or_AEU(d, mq, TRUE)
     /\ UNCHANGED <<cleared, arriving, held, revoked, moribund, cancel>>

\* A packet of the remote s that starts a message; no other message of s is
\* under way on its connection.
Packet(s, d, mq, whole) ==
  LET r == FirstPosted(d, mq.match)
      n == Len(req) + 1
      to == <<IF r # NULL THEN r ELSE n, s>>
  IN /\ s \notin moribund /\ \A x \in arriving : x[2] # s
     /\ Between(d, s, mq.match.ctx) # {}
     /\ FDP_or_AEU(d, mq, whole)
     /\ arriving' = IF mq.type = "eager" /\ ~whole THEN arriving \cup {to} ELSE arriving
     /\ cleared' = IF mq.type = "rndv" /\ r # NULL THEN cleared \cup {to} ELSE cleared
     /\ UNCHANGED <<held, revoked, moribund, cancel>>

\* MPIDI_CH3_PktHandler_EagerSend: a message of s, whole or not.  Its send request
\* is complete, and the handle is reused by the next message of s.
MPIDI_CH3_PktHandler_EagerSend(s, d, e, whole) ==
  Packet(s, d, [NewReq(d, Envelop(s, e), "eager") EXCEPT
                  !.sender = s, !.cc = IF whole THEN 0 ELSE 1,
                  !.pending = IF whole THEN 1 ELSE 2], whole)

\* MPIDI_CH3_PktHandler_EagerSyncSend: the same, from a sender that waits until
\* the message is received.  The handle lives until the acknowledgement.
MPIDI_CH3_PktHandler_EagerSyncSend(s, d, e, whole) ==
  Packet(s, d, [NewReq(d, Envelop(s, e), "eager") EXCEPT
                  !.sender = Len(req) + 1, !.scc = 1, !.cc = IF whole THEN 0 ELSE 1,
                  !.pending = IF whole THEN 1 ELSE 2], whole)

\* MPIDI_CH3_PktHandler_RndvReqToSend: the remote s asks to send a message and
\* waits until it is cleared to.
MPIDI_CH3_PktHandler_RndvReqToSend(s, d, e) ==
  Packet(s, d, [NewReq(d, Envelop(s, e), "rndv") EXCEPT
                  !.sender = Len(req) + 1, !.scc = 1], FALSE)

\* MPIDI_CH3_PktHandler_RndvSend: the data that s was told to send, whole or not.
MPIDI_CH3_PktHandler_RndvSend(r, s, whole) ==
  /\ <<r, s>> \in cleared /\ s \notin moribund /\ \A x \in arriving : x[2] # s
  /\ cleared' = cleared \ {<<r, s>>}
  /\ \/ /\ whole
        /\ req' = Complete(req, r)
        /\ Notify({req[r].dest})
        /\ UNCHANGED arriving
     \/ /\ ~whole
        /\ arriving' = arriving \cup {<<r, s>>}
        /\ UNCHANGED <<req, waiting>>
  /\ UNCHANGED <<posted, unexpected, lengths, held, revoked, moribund, pairs, cancel>>

\* Plausible errors: completing the data neither wakes the receiver nor counts.
Bug_DataUnnoticed(r, s) ==
  /\ <<r, s>> \in arriving /\ s \notin moribund
  /\ arriving' = arriving \ {<<r, s>>}
  /\ req' = Complete(IF req[r].type = "eager" THEN [req EXCEPT ![r].pending = @ - 1]
                     ELSE req, r)
  /\ UNCHANGED <<posted, unexpected, lengths, cleared, held, waiting, revoked,
                 moribund, pairs, cancel>>
Bug_PendingKept(r, s) ==
  /\ <<r, s>> \in arriving /\ s \notin moribund
  /\ arriving' = arriving \ {<<r, s>>}
  /\ req' = Complete(req, r)
  /\ Notify({req[r].dest})
  /\ UNCHANGED <<posted, unexpected, lengths, cleared, held, revoked, moribund, pairs,
                 cancel>>

\* The rest of the data is there: MPIDI_CH3U_Handle_recv_req with
\* ReqHandler_RecvComplete or ReqHandler_UnpackUEBufComplete.
MPIDI_CH3U_Handle_recv_req(r, s) ==
  /\ <<r, s>> \in arriving /\ s \notin moribund
  /\ arriving' = arriving \ {<<r, s>>}
  /\ req' = Complete(IF req[r].type = "eager" THEN [req EXCEPT ![r].pending = @ - 1]
                     ELSE req, r)
  /\ Notify({req[r].dest})
  /\ UNCHANGED <<posted, unexpected, lengths, cleared, held, revoked, moribund, pairs,
                 cancel>>

\* The requests whose data is to come.
UnderWay == {a[1] : a \in cleared \cup arriving}

\* The receive requests a process may wait for, test or cancel; a message that
\* a receive found has become the request of that receive.
Owned(d) == {r \in DOMAIN req : /\ req[r].dest = d
                                /\ \/ req[r].type = "recv"
                                   \/ r \in (UnderWay \cap {x[2] : x \in pairs}) \ held /\ ~Orphan(r)}

\* FG_Yield_on_event in the loop of a receive or a wait: into the block list,
\* after a look at the request with no switch in between.
FG_Yield_on_event(d, r) ==
  /\ Running(d) /\ r \in Owned(d) /\ req[r].cc # 0
  /\ waiting' = [waiting EXCEPT ![d] = r]
  /\ UNCHANGED <<req, posted, unexpected, lengths, cleared, arriving, held, revoked,
                 moribund, pairs, cancel>>

\* MPID_Cancel_recv with MPIDI_CH3U_Recvq_DP.
MPID_Cancel_recv(d, r) ==
  LET taken == Unlinked(req, posted[d], r, Prev(req, posted[d], r))
  IN /\ Running(d) /\ r \in Posted(d)
     /\ req' = Complete(taken.rs, r)
     /\ posted' = [posted EXCEPT ![d] = taken.q]
     /\ lengths' = [lengths EXCEPT !.posted = @ - 1]
     /\ Notify({d})
     /\ UNCHANGED <<unexpected, cleared, arriving, held, revoked, moribund, pairs, cancel>>

\* MPIDI_CH3U_Recvq_FDU for message m, looked up with envelope e.  The caller, or
\* its answer to a remote sender, completes the send request.
Cancelled(m, e) ==
  LET d == req[m].dest
      f == LastSent(d, req[m].sender, e)
      asked == [req EXCEPT ![m].asked = TRUE]
      taken == Unlinked(asked, unexpected[d], f, Prev(req, unexpected[d], f))
  IN /\ ~req[m].asked
     /\ cancel' = [wanted |-> m, got |-> f, queued |-> m \in Unexpected(d)]
     /\ \/ /\ f # NULL
           /\ req' = IF req[f].scc # 0 THEN CompleteSend(taken.rs, f) ELSE taken.rs
           /\ unexpected' = [unexpected EXCEPT ![d] = taken.q]
           /\ lengths' = [lengths EXCEPT !.unexpected = @ - 1]
        \/ /\ f = NULL
           /\ req' = asked
           /\ UNCHANGED <<unexpected, lengths>>
     /\ UNCHANGED <<posted, cleared, arriving, held, waiting, revoked, moribund, pairs>>

\* MPID_Cancel_send of a collocated send: the envelope of the send request
\* names the destination where that of the message names the source.
MPID_Cancel_send(s, m) ==
  /\ Running(s)
  /\ req[m].type = "self" /\ req[m].match.rank = s /\ req[m].scc # 0
  /\ Cancelled(m, [req[m].match EXCEPT !.rank = req[m].dest])

\* MPIDI_CH3_PktHandler_CancelSendReq: the remote s cancels its last message, or
\* one whose send request lives.
MPIDI_CH3_PktHandler_CancelSendReq(s, m) ==
  /\ s \notin moribund
  /\ \/ req[m].sender = s /\ \A n \in m + 1 .. Len(req) : req[n].sender # s
     \/ req[m].sender = m /\ req[m].match.rank = s
  /\ Cancelled(m, req[m].match)

\* Plausible error: the tail keeps pointing to a request that was taken out.
Bug_PurgedKeepsTail(rs, q, doomed) ==
  FoldLeft(LAMBDA a, r :
             IF r \notin doomed THEN [a EXCEPT !.prev = r]
             ELSE LET atHead == a.q.head = r
                      next == a.rs[r].next
                  IN [a EXCEPT !.rs = Complete(IF atHead THEN @ ELSE [@ EXCEPT ![a.prev].next = next], r),
                               !.q.head = IF atHead THEN next ELSE @,
                               !.removed = @ \cup {r},
                               !.atHead = @ + (IF atHead THEN 1 ELSE 0)],
           [rs |-> rs, q |-> q, prev |-> NULL, removed |-> {}, atHead |-> 0],
           Walk(rs, q))

\* One queue with the doomed requests taken out, as the loops of
\* Clean_recvq and Complete_posted_with_error do it with dequeue_and_set_error.
\* The count of posted receives follows only the requests found at the head.
Purged(rs, q, doomed) ==
  FoldLeft(LAMBDA a, r :
             IF r \notin doomed THEN [a EXCEPT !.prev = r]
             ELSE LET next == a.rs[r].next
                      atHead == a.q.head = r
                      unlinked == IF atHead THEN a.rs ELSE [a.rs EXCEPT ![a.prev].next = next]
                  IN [a EXCEPT !.rs = Complete(unlinked, r),
                               !.q = [head |-> IF atHead THEN next ELSE a.q.head,
                                      tail |-> IF a.q.tail = r THEN a.prev ELSE a.q.tail],
                               !.removed = @ \cup {r},
                               !.atHead = @ + (IF atHead THEN 1 ELSE 0)],
           [rs |-> rs, q |-> q, prev |-> NULL, removed |-> {}, atHead |-> 0],
           Walk(rs, q))

\* All queues purged: U are the doomed messages, P the doomed receives.  The
\* lists of different processes share no request.
Purge(U, P) ==
  LET u == [d \in Proc |-> Purged(req, unexpected[d], U)]
      p == [d \in Proc |-> Purged(u[d].rs, posted[d], P)]
      notified == {d \in Proc : u[d].removed \cup p[d].removed # {}}
  IN /\ req' = [r \in DOMAIN req |-> p[req[r].dest].rs[r]]
     /\ unexpected' = [d \in Proc |-> u[d].q]
     /\ posted' = [d \in Proc |-> p[d].q]
     /\ lengths' = [lengths EXCEPT !.posted =
                      @ - MapThenSumSet(LAMBDA d : u[d].atHead + p[d].atHead, Proc)]
     /\ Notify(notified)

\* Plausible error: the recovery collectives are cleaned away as well.
Bug_CleanAllTags(c) == {r \in DOMAIN req : req[r].match.ctx[1] = CtxId[c]}
\* MPIDI_CH3U_Clean_recvq: the requests it takes out, by context id alone.
Cleaned(c) == {r \in DOMAIN req :
                 LET x == req[r].match
                 IN \/ x.ctx = <<CtxId[c], "pt2pt">>
                    \/ x.ctx = <<CtxId[c], "coll">> /\ x.tag \notin Kept}

\* MPID_Comm_revoke, called by process d.  The packets it sends to the other
\* processes are not modelled.
MPID_Comm_revoke(d, c) ==
  /\ Running(d) /\ d \in Members[c] /\ <<d, c>> \notin revoked
  /\ revoked' = revoked \cup {<<d, c>>}
  /\ Purge(Cleaned(c), Cleaned(c))
  /\ UNCHANGED <<cleared, arriving, held, moribund, pairs, cancel>>

\* MPIDI_CH3U_Handle_connection: the connection to s is lost, and with it the
\* data under way.
MPIDI_CH3U_Handle_connection(s) ==
  /\ s \notin moribund
  /\ moribund' = moribund \cup {s}
  /\ Purge({}, {r \in DOMAIN req : req[r].match.rank = s})
  /\ UNCHANGED <<cleared, arriving, held, revoked, pairs, cancel>>

Next ==
  /\ UNCHANGED program
  /\ \/ \E d \in program.proc, p \in program.wanted : MPID_Irecv(d, p) \/ MPID_Improbe(d, p)
     \/ \E d \in program.proc, m \in held : MPID_Imrecv(d, m)
     \/ \E s, d \in program.proc, e \in program.sent, ready \in BOOLEAN : MPIDI_Isend_self(s, d, e, ready)
     \/ \E s \in program.remote, d \in program.proc, e \in program.sent, whole \in BOOLEAN :
           \/ "eager" \in program.modes /\ MPIDI_CH3_PktHandler_EagerSend(s, d, e, whole)
           \/ "sync" \in program.modes /\ MPIDI_CH3_PktHandler_EagerSyncSend(s, d, e, whole)
     \/ \E s \in program.remote, d \in program.proc, e \in program.sent :
           "rndv" \in program.modes /\ MPIDI_CH3_PktHandler_RndvReqToSend(s, d, e)
     \/ \E x \in cleared, whole \in BOOLEAN : MPIDI_CH3_PktHandler_RndvSend(x[1], x[2], whole)
     \/ \E x \in arriving : MPIDI_CH3U_Handle_recv_req(x[1], x[2])
     \/ \E d \in program.proc, r \in DOMAIN req : FG_Yield_on_event(d, r) \/ MPID_Cancel_recv(d, r)
     \/ \E s \in program.proc, m \in DOMAIN req : MPID_Cancel_send(s, m)
     \/ \E s \in program.remote, m \in DOMAIN req : MPIDI_CH3_PktHandler_CancelSendReq(s, m)
     \/ \E d \in program.proc, c \in program.comm : MPID_Comm_revoke(d, c)
     \/ \E s \in program.remote : MPIDI_CH3U_Handle_connection(s)

Spec == Init /\ [][Next]_vars
-----------------------------------------------------------------------------
\* The queues as sets of numbered entries, for MatchQueues.
Abstract(r) == [id |-> r - 1, dest |-> req[r].dest, match |-> req[r].match]

Fitting == {x \in Wanted \X Envelope : Matches(x[1], x[2])}

Queues == INSTANCE MatchQueues WITH
  Dest <- Proc, Pattern <- Wanted,
  Match <- Fitting,
  posted <- UNION {{Abstract(r) : r \in Posted(d)} : d \in Proc},
  unexpected <- UNION {{Abstract(m) : m \in Unexpected(d)} : d \in Proc},
  pairs <- {<<Abstract(x[1]), Abstract(x[2])>> : x \in pairs},
  number <- Len(req)

\* The pointers implement the queues: receives and messages are matched
\* oldest first, nothing is lost from a list and nothing is found twice.
RefinesMatchQueues == Queues!Spec

\* MPI's non-overtaking rule for FDU_or_AEP, FDP_or_AEU and the probes: of two
\* receives and two messages that all fit each other, the earlier receive got
\* the earlier message.
NonOvertaking == Queues!NonOvertaking

\* A process in the block list waits for a request that is not complete: every
\* completion notifies the process whose receive it is.
NoLostWakeup == \A d \in Proc : waiting[d] # NULL => req[waiting[d]].cc # 0

\* A cancelled send takes its own message out of the queue or none, even if
\* the queue holds older messages with the same reused handle.
CancelTakesOwn == cancel.got \in {NULL, cancel.wanted}

\* The assertions of mpid_recv.c and mpid_imrecv.c on the pending count of a
\* message that a receive finds: none is left when the data is complete, and
\* some is left when it is not.
PendingAgrees ==
  \A d \in Proc : \A m \in Unexpected(d) \cup held :
     req[m].type = "eager" => (req[m].cc = 0 <=> req[m].pending - 1 = 0)

\* A receive or message that is not complete is in its queue, held by a matched
\* probe or has its data under way (a request to send from a process that has
\* failed excepted, on which the receive failed): whatever a purge took out of the middle or
\* from the end of a queue, no later request is appended where no search goes.
NothingLost ==
  \A r \in DOMAIN req :
    /\ req[r].cc > 0 /\ ~req[r].asked
    /\ ~(req[r].type = "rndv" /\ req[r].match.rank \in moribund)
    => r \in Posted(req[r].dest) \cup Unexpected(req[r].dest) \cup held \cup UnderWay

\* A sender that waits (a collocated, a synchronous or a rendezvous one) has its
\* message in a queue or with a probe: taking the message tells the sender.
\* Excepted are messages with a context id that was revoked in this HWP
\* (MPIDI_CH3U_Clean_recvq completes the message and not the send) and senders
\* that have failed.
SenderHasMessage ==
  \A m \in DOMAIN req :
    /\ req[m].scc # 0 /\ req[m].match.rank \notin moribund
    /\ \A x \in revoked : CtxId[x[2]] # req[m].match.ctx[1]
    => m \in held \cup UNION {Unexpected(d) : d \in Proc}

\* MPIDI_CH3U_Clean_recvq empties the queues of all the processes of the HWP of
\* the entries with the context id of the revoked communicator, but for those of
\* the recovery collectives, and leaves the entries with other ids where they are.
RevokeCleans ==
  [][\A d \in Proc, c \in Comm : <<d, c>> \in revoked' \ revoked =>
       \A e \in Proc :
          LET stays(r) == \/ req[r].match.ctx[1] # CtxId[c]
                          \/ req[r].match.ctx[2] = "coll" /\ req[r].match.tag \in Kept
          IN /\ Posted(e)' = {r \in Posted(e) : stays(r)}
             /\ Unexpected(e)' = {m \in Unexpected(e) : stays(m)}]_vars

\* The comment on MPIDI_CH3U_Clean_recvq: a request is dequeued if it "involved
\* the provided communicator".  So the queues of a collocated process that is not
\* in the revoked communicator stay as they are.
RevokeLeavesOthers ==
  [][\A d \in Proc, c \in Comm : <<d, c>> \in revoked' \ revoked =>
       \A e \in Proc \ Members[c] : /\ Posted(e)' = Posted(e)
                                    /\ Unexpected(e)' = Unexpected(e)]_vars

\* The cancelled send was queued, and so it was found.
CancelSucceeds == cancel.queued => cancel.got = cancel.wanted

\* The performance variables count the entries of the queues.
LengthsAgree ==
  /\ lengths.posted = MapThenSumSet(LAMBDA d : Cardinality(Posted(d)), Proc)
  /\ lengths.unexpected = MapThenSumSet(LAMBDA d : Cardinality(Unexpected(d)), Proc)
=============================================================================
