------------------------------ MODULE MCRecvQ ------------------------------
(* RecvQ for TLC: two collocated processes p1 and p2, a remote peer q,       *)
(* two communicators of all of them, and two without a common member.        *)
EXTENDS RecvQ

CONSTANTS p1, p2, q, c, c2, g1, g2, t, agree

\* g1 and g2 come from one MPI_Comm_split and have one id.
MCCtxId == [k \in Comm |-> CASE k = c -> 1 [] k = c2 -> 2 [] k \in {g1, g2} -> 3]
MCMembers == [k \in Comm |-> CASE k = g1 -> {p1} [] k = g2 -> {p2, q} [] OTHER -> Proc \cup Remote]

World == <<1, "pt2pt">>
Collective == <<1, "coll">>
Other == <<2, "pt2pt">>
Group == <<3, "pt2pt">>

Anyone == [rank |-> AnySource, tag |-> AnyTag, ctx |-> World]
From(s) == [rank |-> s, tag |-> t, ctx |-> World]

\* One process with its remote peer: p1 posts, probes, sends to itself, waits
\* and cancels; q sends, cancels and may fail.
OneAndRemote ==
  [proc |-> {p1}, remote |-> {q}, comm |-> {}, ops |-> 4,
   wanted |-> {Anyone, From(q)}, sent |-> {[tag |-> t, ctx |-> World]},
   modes |-> {"eager"}]

\* Two collocated processes that may revoke the communicator, with ordinary
\* messages ...
TwoThatRevoke ==
  [proc |-> {p1, p2}, remote |-> {}, comm |-> {c}, ops |-> 3,
   wanted |-> {From(p1)}, sent |-> {[tag |-> t, ctx |-> World]}, modes |-> {}]

\* ... and with those of the recovery collectives.
TwoThatRecover ==
  [TwoThatRevoke EXCEPT !.wanted = {From(p1), [rank |-> p1, tag |-> agree, ctx |-> Collective]},
                        !.sent = {[tag |-> agree, ctx |-> Collective]}]

\* Everybody at once, with two operations and a second communicator (the
\* synchronous sends are in RemoteWaits).
AllTogether ==
  [proc |-> {p1, p2}, remote |-> {q}, comm |-> {c}, ops |-> 2,
   wanted |-> {Anyone, From(q), [rank |-> p1, tag |-> t, ctx |-> Other]},
   sent |-> TwoThatRevoke.sent, modes |-> {"eager", "rndv"}]

\* One process whose remote peer sends synchronously, by rendezvous or neither.
RemoteWaits ==
  [proc |-> {p1}, remote |-> {q}, comm |-> {c}, ops |-> 3, wanted |-> {Anyone},
   sent |-> OneAndRemote.sent, modes |-> {"eager", "sync", "rndv"}]

\* Two communicators with one id, each with a process of this HWP.
TwoGroups ==
  [proc |-> {p1, p2}, remote |-> {q}, comm |-> {g1, g2}, ops |-> 2,
   wanted |-> {[Anyone EXCEPT !.ctx = Group]}, sent |-> {[tag |-> t, ctx |-> Group]},
   modes |-> {"eager", "sync"}]

AllPrograms == {RemoteWaits, OneAndRemote, TwoThatRevoke, TwoThatRecover, AllTogether, TwoGroups}
MCGroups == {TwoGroups}

\* Two collocated processes that cancel their sends.
TwoThatCancel ==
  {[OneAndRemote EXCEPT !.proc = {p1, p2}, !.remote = {}, !.ops = 3,
                        !.wanted = {Anyone, From(p1)}]}
=============================================================================
