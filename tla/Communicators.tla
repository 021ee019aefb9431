--------------------------- MODULE Communicators ---------------------------
(***************************************************************************)
(* How communicators get their context ids and their shared state, and     *)
(* how they lose them: src/mpi/comm/contextid.c, commutil.c, comm_split.c  *)
(* and comm_free.c.                                                        *)
(*                                                                         *)
(* Every MPI process has a mask of the context ids it does not use.  A new *)
(* communicator gets an id that is free at all its members, found with an  *)
(* allreduce over the masks, first over the eager words only and then over *)
(* the others.  The members in one OS process share a block of variables,  *)
(* which the first of them creates and the others find in a table          *)
(* (contextLeader_hshtbl) under the id and the lowest world rank, the      *)
(* leader.  Blocks and the rank maps they point to are reference counted.  *)
(*                                                                         *)
(* The processes are coroutines, so that all a process does between two    *)
(* waits is one step.  A process waits in the allreduce until every member *)
(* of the parent has entered it.  The allgather of MPI_Comm_split comes    *)
(* before a process reads its mask, which only that process changes, and   *)
(* is left out.  What is called follows MPI: the members of a communicator *)
(* make the same calls on it in the same order, and free it last.          *)
(***************************************************************************)
EXTENDS Integers, FiniteSets, SequencesExt

CONSTANTS N,           \* the size of MPI_COMM_WORLD
          Layouts,     \* the possible placements of the ranks on OS processes
          WordBits,    \* MPIR_CONTEXT_INT_BITS
          EagerWords,  \* MPIR_CVAR_CTXID_EAGER_SIZE
          Words,       \* MPIR_MAX_CONTEXT_MASK
          Programs,    \* the collective calls made, in the order they begin, each
                       \* on a communicator that the call numbered on made, and
                       \* whether the program keeps what it makes or may free it
          InitSize, Primes, Shift, \* the sizes of hash tables: see HashLib
          NULL         \* no pointer, and the colour MPI_UNDEFINED

\* Asserted in MPIR_Get_contextid_sparse_group: a word is left for later rounds.
ASSUME EagerAssumption == EagerWords \in 0 .. Words - 2

VARIABLES program, \* the program that runs
          layout,  \* the OS process of every rank
          mask,    \* context_mask of every rank: the ids it may allocate
          comms,   \* the communicators every rank has
          heap,    \* per OS process: the table, the blocks and the rank maps
          calls,   \* the collective calls so far, with the masks handed in
          at,      \* the call and the round a rank waits in
          freed    \* history: the communicators some rank has freed
vars == <<program, layout, mask, comms, heap, calls, at, freed>>

Rank == 0 .. N - 1
WorldRanks == [i \in 1 .. N |-> i - 1]
World == <<0, 0>>
Id == 0 .. Words * WordBits - 1
MaxCalls == Max({Len(x) : x \in Programs})
Running == [call |-> 0, round |-> 0]

\* context_id_init: three ids are taken by the predefined communicators.
FreeIds == Id \ {0, 1, 2}
\* The words of the mask that take part in the first and in later rounds.
Segment(round) == {i \in Id : (i \div WordBits < EagerWords) = (round = 1)}

Collocated(p, ranks) == SelectSeq(ranks, LAMBDA q : layout[q] = layout[p])
Leader(ranks) == Min(ToSet(ranks))
Fresh(f) == CHOOSE k \in 0 .. Cardinality(DOMAIN f) : k \notin DOMAIN f
Without(f, k) == [x \in DOMAIN f \ {k} |-> f[x]]
-----------------------------------------------------------------------------
(* The shared blocks of one OS process, h = heap[o] *)

\* A context id is shifted by MPID_CONTEXT_PREFIX_SHIFT, and that of the
\* collocated part has MPID_CONTEXT_COLOCATED_OFFSET.
Key(id, leader) == <<16 * id, leader>>
CoKey(id, leader) == <<16 * id + 6, leader>>
IsCoKey(key) == key[1] % 16 = 6

contextidLeaderhash(key) == key[1] + key[2]
contextidLeaderrehash(key) == (key[1] + key[2]) \div 8
CL == INSTANCE HashLib WITH hash <- contextidLeaderhash, rehash <- contextidLeaderrehash

\* The blocks under a key, one or none, and a table with one more.
CL_LookupHashFind(table, key) == {x.block : x \in CL!hshfind(table, key)}
CL_LookupHashInsert(table, key, b) == CL!hshinsert(table, [key |-> key, block |-> b])

\* Plausible error: one more user of a map is not counted.
Bug_AddAcrossRef(maps, m) == maps
\* MPIR_Comm_add_coshared_acrossComm_ref.
AddAcrossRef(maps, m) == [maps EXCEPT ![m].across = @ + 1]

\* Find the block under a key and add a reference to it and to its map, or
\* insert a new one: with the map from, or with a new map of these ranks.
Share(h, key, from, ranks) ==
  IF CL_LookupHashFind(h.table, key) # {}
  THEN LET b == CHOOSE b \in CL_LookupHashFind(h.table, key) : TRUE
       IN [h EXCEPT !.block[b].within = @ + 1, !.map = AddAcrossRef(@, h.block[b].map)]
  ELSE LET b == Fresh(h.block)
           m == IF from = NULL THEN Fresh(h.map) ELSE from
       IN [table |-> CL_LookupHashInsert(h.table, key, b),
           block |-> (b :> [within |-> 1, map |-> m]) @@ h.block,
           map |-> IF from = NULL THEN (m :> [ranks |-> ranks, across |-> 1]) @@ h.map
                   ELSE AddAcrossRef(h.map, m)]

\* Plausible error: the first member to free takes the block with it.
Bug_InUseWithin(h, b) == FALSE
\* What MPIR_Comm_release_coshared_all_ref leaves in its two arguments.
InUseWithin(h, b) == h.block[b].within > 1
InUseAcross(h, m) == h.map[m].across > 1

\* MPIR_Comm_free_impl: the last user of a block, or of a map, frees it.
Release(h, key, b) ==
  LET m == h.block[b].map
  IN [table |-> IF InUseWithin(h, b) THEN h.table ELSE CL!hshdelete(h.table, key),
      block |-> IF InUseWithin(h, b) THEN [h.block EXCEPT ![b].within = @ - 1]
                ELSE Without(h.block, b),
      map |-> IF InUseAcross(h, m) THEN [h.map EXCEPT ![m].across = @ - 1]
              ELSE Without(h.map, m)]
-----------------------------------------------------------------------------
\* MPID_Init: the block of MPI_COMM_WORLD is counted once per OS process.  Its
\* collocated part and that of MPIR_ICOMM_WORLD (id 2), which has the same map,
\* are counted once per process in it.
Init ==
  /\ program \in Programs
  /\ layout \in Layouts
  /\ mask = [p \in Rank |-> FreeIds]
  /\ heap = [o \in ToSet(layout) |->
       LET co == SelectSeq(WorldRanks, LAMBDA q : layout[q] = o)
           world == [table |-> FoldLeft(LAMBDA t, id : CL_LookupHashInsert(t, Key(id, 0), 0),
                                        CL!hshinit, <<0, 1, 2>>),
                     block |-> 0 :> [within |-> 1, map |-> 0],
                     map |-> 0 :> [ranks |-> WorldRanks, across |-> 1]]
       IN IF Len(co) = 1 THEN world
          ELSE [table |-> FoldLeft(LAMBDA t, b : CL_LookupHashInsert(t, CoKey(2 * b - 2, 0), b),
                                   world.table, <<1, 2>>),
                block |-> [b \in {1, 2} |-> [within |-> Len(co), map |-> 1]] @@ world.block,
                map |-> (1 :> [ranks |-> co, across |-> 2 * Len(co)]) @@ world.map]]
  /\ comms = [p \in Rank |-> World :>
       [id |-> 0, leader |-> 0, ranks |-> WorldRanks, block |-> 0,
        co |-> IF Len(Collocated(p, WorldRanks)) > 1 THEN 1 ELSE NULL]]
  /\ calls = <<>>
  /\ at = [p \in Rank |-> Running]
  /\ freed = {}
-----------------------------------------------------------------------------
(* Context ids *)

\* Plausible error: the search in the word always ends at its highest bit.
Bug_Locate(S) ==
  IF S = {} THEN 0
  ELSE Min({i \div WordBits : i \in S}) * WordBits + WordBits - 1
\* locate_context_bit: the highest bit of the first word that has one, or 0.
Locate(S) ==
  IF S = {} THEN 0
  ELSE CHOOSE i \in S : \A j \in S : \/ i \div WordBits < j \div WordBits
                                     \/ i \div WordBits = j \div WordBits /\ i >= j

\* A process of colour MPI_UNDEFINED passes ignore_id.
Ignores(p, op) == op.kind = "split" /\ op.color[p] = NULL

\* The local mask a process hands in.
Offer(p, op, round) == IF Ignores(p, op) THEN Id ELSE mask[p] \cap Segment(round)

\* The allreduce with MPI_BAND.
Common(offers) == {i \in Id : \A p \in DOMAIN offers : i \in offers[p]}

\* Plausible error: a process that ignores the id does not stay for another round.
Bug_Exhausted(p, op, round) == round = 2 \/ Ignores(p, op)
\* ALL_OWN_MASK_FLAG: no id, and all have handed in the rest of their masks.
Exhausted(p, op, round) == round = 2
-----------------------------------------------------------------------------
(* The calls *)

CallsOn(u) == {n \in DOMAIN calls : calls[n].comm = u}
NotJoined(p, u) == {n \in CallsOn(u) : p \notin DOMAIN calls[n].offers[1]}

\* The communicator has the map of its own ranks, and so has its collocated
\* part.  What follows a collective on one that has not is not modelled.
OwnMaps(p, c) ==
  LET h == heap[layout[p]]
      RanksOf(b) == h.map[h.block[b].map].ranks
  IN /\ RanksOf(c.block) = c.ranks
     /\ c.co # NULL => RanksOf(c.co) = Collocated(p, c.ranks)

\* The ranks of the communicator that p gets from a call.
NewRanks(p, op, ranks) ==
  CASE op.kind = "dup" -> ranks
    [] op.kind = "cart" -> SubSeq(ranks, 1, op.size)
    [] op.kind = "split" -> SelectSeq(ranks, LAMBDA q : op.color[q] = op.color[p])

\* The ranks in the map of the collocated part, which exists when there are
\* two: those in the map of the new communicator (ranks), but a duplicate takes
\* the size and the map from its parent c.  A smaller copy takes the tables and
\* the sizes of its parent and has none of its own to fill the map from: its
\* entries are never written.
NewCollocated(p, op, c, ranks) ==
  CASE op.kind = "split" -> Collocated(p, ranks)
    [] op.kind = "dup" -> Collocated(p, c.ranks)
    [] op.kind = "cart" -> [i \in 1 .. Len(Collocated(p, c.ranks)) |-> NULL]

\* A member makes its communicator from the parent c and gives it the id.
Create(p, u, op, id, c) ==
  LET ranks == NewRanks(p, op, c.ranks)
      h0 == heap[layout[p]]
      Old(b) == IF op.kind = "dup" THEN h0.block[b].map ELSE NULL
      leader == IF op.kind = "dup" THEN c.leader ELSE Leader(ranks)
  IN \E h1 \in {Share(h0, Key(id, leader), Old(c.block), ranks)} :
     \E b \in CL_LookupHashFind(h1.table, Key(id, leader)) :
     \E co \in {NewCollocated(p, op, c, h1.map[h1.block[b].map].ranks)} :
     \E h2 \in {IF Len(co) < 2 THEN h1 ELSE Share(h1, CoKey(id, leader), Old(c.co), co)} :
       /\ heap' = [heap EXCEPT ![layout[p]] = h2]
       /\ comms' = [comms EXCEPT ![p] = (u :>
            [id |-> id, leader |-> leader, ranks |-> ranks, block |-> b,
             co |-> IF Len(co) < 2 THEN NULL
                    ELSE CHOOSE x \in CL_LookupHashFind(h2.table, CoKey(id, leader)) : TRUE]) @@ @]
       /\ mask' = [mask EXCEPT ![p] = @ \ {id}]
-----------------------------------------------------------------------------
(* The actions *)

\* MPIR_Get_contextid_sparse_group: a process hands in its first mask.
Enter(p, n) == /\ at[p] = Running
               /\ at' = [at EXCEPT ![p] = [call |-> n, round |-> 1]]
               /\ UNCHANGED <<program, layout, mask, comms, heap, freed>>

\* One member makes a call first,
Begin(p, u) ==
  LET n == Len(calls) + 1
      c == comms[p][u]
  IN /\ NotJoined(p, u) = {} /\ u \notin freed
     /\ n <= Len(program) /\ program[n].on = u[1]
     /\ OwnMaps(p, c)
     /\ calls' = Append(calls, [comm |-> u, ranks |-> c.ranks, op |-> program[n],
                                offers |-> << p :> Offer(p, program[n], 1), <<>>, <<>> >>])
     /\ Enter(p, n)

\* and the others make the same.
Join(p, u) ==
  /\ NotJoined(p, u) # {}
  /\ OwnMaps(p, comms[p][u])
  /\ LET n == Min(NotJoined(p, u))
     IN /\ calls' = [calls EXCEPT ![n].offers[1] = (p :> Offer(p, calls[n].op, 1)) @@ @]
        /\ Enter(p, n)

\* The allreduce that p waits in is over.
AllIn(p) == /\ at[p] # Running
            /\ LET call == calls[at[p].call]
               IN DOMAIN call.offers[at[p].round] = ToSet(call.ranks)

\* After the allreduce: an id is common to all who take part, or there is
\* one more round, or the ids are exhausted; then all compare in a last allreduce
\* how many ids they have left, and return an error.
Resume(p) ==
  LET n == at[p].call
      round == at[p].round
      call == calls[n]
      op == call.op
      Wait(next, what) == /\ calls' = [calls EXCEPT ![n].offers[next] = (p :> what) @@ @]
                          /\ at' = [at EXCEPT ![p].round = next]
                          /\ UNCHANGED <<mask, comms, heap>>
      Return == at' = [at EXCEPT ![p] = Running] /\ UNCHANGED calls
  IN /\ AllIn(p)
     /\ \/ round = 3 /\ Return /\ UNCHANGED <<mask, comms, heap>>
        \/ /\ round < 3
           /\ \E id \in {Locate(Common(call.offers[round]))} :
              \/ id = 0 /\ ~Exhausted(p, op, round) /\ Wait(2, Offer(p, op, 2))
              \/ id = 0 /\ Exhausted(p, op, round) /\ Wait(3, {})
              \/ /\ id # 0 /\ (Ignores(p, op) \/ p \notin ToSet(NewRanks(p, op, call.ranks)))
                 /\ Return
                 /\ UNCHANGED <<mask, comms, heap>>
              \/ /\ id # 0 /\ ~Ignores(p, op) /\ p \in ToSet(NewRanks(p, op, call.ranks))
                 /\ Create(p, <<n, Leader(NewRanks(p, op, call.ranks))>>, op, id, comms[p][call.comm])
                 /\ Return
     /\ UNCHANGED <<program, layout, freed>>

\* MPI_Comm_free, after the calls the others still make or wait in.
Free(p, u) ==
  LET c == comms[p][u]
  IN /\ at[p] = Running /\ u # World /\ NotJoined(p, u) = {} /\ ~program[u[1]].keep
     /\ heap' = [heap EXCEPT ![layout[p]] = Release(@, Key(c.id, c.leader), c.block)]
     /\ comms' = [comms EXCEPT ![p] = Without(@, u)]
     /\ mask' = [mask EXCEPT ![p] = @ \cup {c.id}]
     /\ freed' = freed \cup {u}
     /\ UNCHANGED <<program, layout, calls, at>>

Next == \E p \in Rank : \/ Resume(p)
                        \/ \E u \in DOMAIN comms[p] : Begin(p, u) \/ Join(p, u) \/ Free(p, u)

Spec == Init /\ [][Next]_vars
\* The processes are scheduled fairly and the messages of an allreduce arrive:
\* weak fairness of Resume(p), which is enabled exactly when AllIn(p).
FairSpec == Spec /\ \A p \in Rank : []<>~AllIn(p) \/ []<><<Resume(p)>>_vars
-----------------------------------------------------------------------------
MaxUsers == N * (Len(program) + 1)

\* The communicators at the processes of o that use a block.
Users(o, b) == {x \in Rank \X UNION {DOMAIN comms[p] : p \in Rank} :
                  /\ layout[x[1]] = o /\ x[2] \in DOMAIN comms[x[1]]
                  /\ comms[x[1]][x[2]].block = b}

\* The mapping to ContextIds.  A call is its number, and a process that
\* passes ignore_id hands in nothing.
IsCall(n) == n \in DOMAIN calls
Members(n) == IF IsCall(n) THEN ToSet(calls[n].ranks) ELSE {}
Takers(n) == {p \in Members(n) : ~Ignores(p, calls[n].op)}
Entered(a) == IF IsCall(a[1]) THEN DOMAIN calls[a[1]].offers[a[2]] ELSE {}
HandedIn(a, p) == IF p \in Entered(a) /\ ~Ignores(p, calls[a[1]].op) THEN calls[a[1]].offers[a[2]][p] ELSE {}
Outcome(a) == IF Entered(a) # {} /\ Entered(a) = Members(a[1])
              THEN {Locate(Common(calls[a[1]].offers[a[2]]))} \ {0} ELSE {}

Ids == INSTANCE ContextIds WITH
         Proc <- Rank, Call <- 1 .. MaxCalls, Unused <- FreeIds,
         held <- [p \in Rank |-> {<<u[1], comms[p][u].id>> : u \in DOMAIN comms[p] \ {World}}],
         members <- [n \in 1 .. MaxCalls |-> Members(n)],
         takers <- [n \in 1 .. MaxCalls |-> Takers(n)],
         entered <- [a \in (1 .. MaxCalls) \X {1, 2} |-> Entered(a)],
         offer <- [a \in (1 .. MaxCalls) \X {1, 2} |-> [p \in Rank |-> HandedIn(a, p)]],
         outcome <- [a \in (1 .. MaxCalls) \X {1, 2} |-> Outcome(a)],
         at <- [p \in Rank |-> IF at[p] = Running THEN {} ELSE {<<at[p].call, Min({at[p].round, 2})>>}]

\* The communicators implement ContextIds, in which a process takes an id of
\* those that all who take part had free when they entered the allreduce of
\* MPIR_Get_contextid_sparse_group, and a second round follows only if the
\* first gave none.  The last allreduce, before an error, is a stutter there.
RefinesContextIds == Ids!Spec

\* What the barrier and the collectives of commutil.c's callers rely on: the
\* members in one OS process that have a communicator at the same time share
\* its block and that of its collocated part, and find it in the table, as
\* the assertions in MPIR_Comm_copy_share and MPIR_Comm_free_impl demand.
SharedBlock ==
  \A p \in Rank : \A u \in DOMAIN comms[p] :
    LET c == comms[p][u]
        h == heap[layout[p]]
    IN /\ CL_LookupHashFind(h.table, Key(c.id, c.leader)) = {c.block}
       /\ \A q \in Rank : layout[q] = layout[p] /\ u \in DOMAIN comms[q] =>
            comms[q][u].block = c.block /\ comms[q][u].co = c.co

\* The counts of fgmpiimpl.h.  A block counts the communicators that use it
\* and a map the uses of all blocks that point to it; so none is freed in use
\* and, but for the collocated parts, which nothing releases, none is leaked.
RefsExact ==
  \A o \in DOMAIN heap :
    LET h == heap[o]
        blocks == [x \in {x \in ToSet(h.table.htbl) : x.key \notin {Key(1, 0), Key(2, 0)}} |-> x.block]
    IN /\ \A x \in DOMAIN blocks :
            x.key # Key(0, 0) /\ ~IsCoKey(x.key) =>
              h.block[x.block].within = Cardinality(Users(o, x.block))
       /\ IsInjective(blocks) /\ ToSet(blocks) = DOMAIN h.block
       /\ DOMAIN h.map = {h.block[b].map : b \in DOMAIN h.block}
       /\ \A m \in DOMAIN h.map :
            h.map[m].across = Cardinality({x \in (DOMAIN h.block) \X (1 .. MaxUsers) :
                                /\ h.block[x[1]].map = m /\ x[2] <= h.block[x[1]].within})

\* contextLeader_hshtbl, the table of hashlib.c in which collocated members
\* find their blocks: none is hidden by a deletion, by growth or by the
\* rebuilding of a table full of deleted entries, and no search runs for ever.
TableSound == \A o \in DOMAIN heap : CL!Sound(heap[o].table)

\* A call that all members of the parent make returns at all of them: the loop
\* over the masks ends, with an id or with an error.
Returns ==
  \A n \in 1 .. MaxCalls :
    (n \in DOMAIN calls /\ DOMAIN calls[n].offers[1] = ToSet(calls[n].ranks))
      ~> (\A p \in Rank : at[p].call # n)

\* struct Coproclet_shared_vars says that rtw_map is the map of "this
\* communicator" and that the block is "uniquely identified by context-id and
\* the Leader-world-rank".
MapsAreOwn == \A p \in Rank : \A u \in DOMAIN comms[p] : OwnMaps(p, comms[p][u])
=============================================================================
