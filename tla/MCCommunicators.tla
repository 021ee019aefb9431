-------------------------- MODULE MCCommunicators --------------------------
(* Communicators for TLC: three ranks in one or in two OS processes.        *)
EXTENDS Communicators

Of(a, b, c) == [p \in 0 .. 2 |-> <<a, b, c>>[p + 1]]

Dup(n) == [kind |-> "dup", on |-> n, keep |-> FALSE]
Cart(n) == [kind |-> "cart", on |-> n, size |-> 2, keep |-> FALSE]
Split(n, color) == [kind |-> "split", on |-> n, color |-> color, keep |-> FALSE]
Kept(op) == [op EXCEPT !.keep = TRUE]

MCLayouts == {Of("x", "x", "x"), Of("x", "x", "y")}

\* Two groups with the same leader.  One rank uses up its ids.  Two groups at
\* once, then a duplicate of one of them or of the whole; a duplicate of a group
\* while the whole is duplicated.  Maps shared by duplicates of duplicates, with
\* a smaller copy.
Overlap == <<Split(0, Of(1, 1, NULL)), Split(0, Of(1, NULL, 1))>>
Exhaust == <<Kept(Split(0, Of(1, NULL, NULL))), Kept(Dup(1)), Kept(Dup(1)), Dup(1), Dup(1), Dup(0)>>
Groups == <<Split(0, Of(2, 1, 1))>>
Regroup == <<Split(0, Of(NULL, 1, 1)), Dup(1), Dup(0)>>
Copies == <<Dup(0), Cart(1), Dup(1)>>
MCPrograms == {Overlap \o <<Dup(2)>>, Exhaust, Groups \o <<Dup(1)>>, Groups \o <<Dup(0)>>,
               Regroup, Copies}
\* A hash table is half full at most, and grows twice.
MCPrimes == <<11, 23>>
MCReuse == {Overlap}
=============================================================================
