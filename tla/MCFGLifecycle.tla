---------------------------- MODULE MCFGLifecycle ----------------------------
(* FGLifecycle for TLC: three processes, and applications in which they talk *)
(* to each other, to another OS process, or not at all.                      *)
EXTENDS FGLifecycle

Body(x) == <<<<"init">>>> \o x \o <<<<"finalize">>>>
Send(q) == <<"send", q>>
Recv(s) == <<"recv", s>>
App(a, b, c) == [p \in 0 .. 2 |-> Body(IF p = 0 THEN a ELSE IF p = 1 THEN b ELSE c)]

MCPrograms == {
    App(<<>>, <<>>, <<>>),
    \* a pipeline, in either direction, and a ring
    App(<<Send(1)>>, <<Recv(0), Send(2)>>, <<Recv(1)>>),
    App(<<Recv(1)>>, <<Recv(2), Send(0)>>, <<Send(1)>>),
    App(<<Send(1), Recv(2)>>, <<Recv(0), Send(2)>>, <<Recv(1), Send(0)>>),
    \* messages from outside, alone and mixed with collocated ones
    App(<<Recv(Net)>>, <<Recv(Net)>>, <<Recv(Net)>>),
    App(<<Recv(Net), Send(1)>>, <<Recv(0), Recv(Net)>>, <<>>),
    App(<<Send(2)>>, <<Recv(Net)>>, <<Recv(0)>>),
    App(<<Recv(1)>>, <<Send(0), Recv(2)>>, <<Recv(Net), Send(1)>>),
    \* MPI_Init called once too often
    App(<<<<"init">>, Recv(2)>>, <<<<"init">>>>, <<Send(0)>>) }
==============================================================================
