----------------------------- MODULE MCCoBarrier -----------------------------
(* CoBarrier for TLC: two nodes, one with OS processes of three and of two    *)
(* processes, the other with a single one.                                   *)
EXTENDS CoBarrier

CONSTANTS a, b, c, d, e, f

MCLeaderOf == [p \in {a, b, c, d, e, f} |->
                 IF p \in {a, b, c} THEN a ELSE IF p \in {d, e} THEN d ELSE f]
MCRootOf == [l \in {a, d, f} |-> IF l = f THEN f ELSE a]
==============================================================================
