---------------------------- MODULE MCNemChannel ----------------------------
(* NemChannel for TLC: three processes and two programs.                    *)
EXTENDS NemChannel

Header(d) == [to |-> d, kind |-> "header", size |-> 1]
Small(d) == [to |-> d, kind |-> "small", size |-> 1]
Large(d, n) == [to |-> d, kind |-> "large", size |-> n]

MCProc == {1, 2, 3}
MCCells == << <<"a1", "a2">>, <<"b1">>, <<"c1">> >>

\* Two processes send to a third: one overtakes its own fast box with a queued
\* header, uses up its two cells and a whole round of sequence numbers.
ManyToOne == << <<Small(3), Header(3), Large(3, 2)>>, <<Large(3, 1)>>, <<>> >>

\* Two processes with one cell each send each other more than fits.
Exchange == << <<>>, <<Large(3, 2), Small(3)>>, <<Header(2), Large(2, 2)>> >>

MCPrograms == {ManyToOne, Exchange}
=============================================================================
