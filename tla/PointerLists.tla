---------------------------- MODULE PointerLists ----------------------------
(***************************************************************************)
(* The pointer lists of src/fgutil/src/util/linked_list.c as sequences:    *)
(* what each operation leaves of the list, or the entry it returns.  The   *)
(* run list, the sleep queue and the list of all threads are such lists.   *)
(* pl_add_tail is Append, pl_view_head is Head and pl_remove_head is Tail. *)
(***************************************************************************)
EXTENDS Integers, Sequences, Functions

ll_view_tail(s) == s[Len(s)]

pl_remove_tail(s) == SubSeq(s, 1, Len(s) - 1)

\* The new entry takes position i, before the entry that was there; i is
\* Len(s) + 1 where the caller used pl_add_tail.
ll_insert_before(s, i, x) == SubSeq(s, 1, i - 1) \o <<x>> \o SubSeq(s, i, Len(s))

ll_remove_entry(s, i) == SubSeq(s, 1, i - 1) \o SubSeq(s, i + 1, Len(s))

=============================================================================
